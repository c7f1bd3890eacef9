--------------------------- MODULE StageDiagnosis ---------------------------
(***************************************************************************)
(* agent/stage_diagnosis.py: what the evidence of one run says about the   *)
(* stages, and the schema a diagnosis must fit.                            *)
(***************************************************************************)
EXTENDS RetrievalValidation

Queries(run) == Len(run.queries)
BestChannel(run) == Max({run.channels[c].ndcg : c \in DOMAIN run.channels})
TotalRelevant(run) == SumOver([q \in DOMAIN run.queries |-> run.queries[q].relevant])

(* The lineage must cover every relevant product and agree with the counts  *)
(* of the aggregate.                                                        *)
MeanInUnit(run, sum) == 0 <= sum /\ sum <= Unit * Queries(run)
Diagnosable(run) ==
    /\ \A sum \in {run.fusion.ndcg, run.ranking.ndcg}
                   \cup {run.channels[c].ndcg : c \in DOMAIN run.channels} :
           MeanInUnit(run, sum)
    /\ \A q \in DOMAIN run.queries :
           Cardinality(DOMAIN run.queries[q].lineage) = run.queries[q].relevant
    /\ \A s \in LossStages :
           LET Lost(e) == {k \in DOMAIN e.lineage : e.lineage[k] = s}
           IN run.losses[s] = SumOver([q \in DOMAIN run.queries |->
                                          Cardinality(Lost(run.queries[q]))])

(* A finding with its impact, in units per relevant product or per query.   *)
Finding(category, subtype, dropped, impact) ==
    [category |-> category, subtype |-> subtype, dropped |-> dropped, impact |-> impact]

Found(run, subtype) ==
    CASE subtype = "missing_from_all_channels" -> run.losses["recall"] > 0
      [] subtype = "no_unique_coverage"        -> run.exact_unique = 0
      [] subtype = "fusion_regression"         -> run.fusion.ndcg < BestChannel(run)
      [] subtype = "coarse_regression"         -> run.ranking.ndcg < run.fusion.ndcg

Subtypes == <<"missing_from_all_channels", "no_unique_coverage",
              "fusion_regression", "coarse_regression">>

FindingOf(run, subtype) ==
    CASE subtype = "missing_from_all_channels" ->
             Finding("recall", subtype, run.losses["recall"],
                     (Unit * run.losses["recall"]) \div TotalRelevant(run))
      [] subtype = "no_unique_coverage" -> Finding("recall", subtype, 0, 0)
      [] subtype = "fusion_regression" ->
             Finding("fusion", subtype, run.losses["fusion"],
                     (BestChannel(run) - run.fusion.ndcg) \div Queries(run))
      [] subtype = "coarse_regression" ->
             Finding("coarse_rank", subtype, run.losses["coarse_rank"],
                     (run.fusion.ndcg - run.ranking.ndcg) \div Queries(run))

Findings(run) ==
    LET found == Listed({i \in DOMAIN Subtypes : Found(run, Subtypes[i])},
                        {p \in (DOMAIN Subtypes) \X (DOMAIN Subtypes) : p[1] <= p[2]})
    IN [r \in DOMAIN found |-> FindingOf(run, Subtypes[found[r]])]

(* The first stage that failed one query.                                   *)
QueryPrimary(e) ==
    LET lost(s) == \E k \in DOMAIN e.lineage : e.lineage[k] = s
    IN CASE lost("recall")                                 -> "recall"
         [] ~lost("recall") /\ lost("fusion")              -> "fusion"
         [] /\ ~lost("recall") /\ ~lost("fusion")
            /\ e.ranking.ndcg < e.fusion.ndcg              -> "coarse_rank"
         [] OTHER                                          -> "none"

(* Each finding has one strategy option.                                    *)
OptionStage == [missing_from_all_channels |-> "recall", no_unique_coverage |-> "recall",
                fusion_regression |-> "fusion", coarse_regression |-> "coarse_rank"]
Options(findings) == {[stage |-> OptionStage[findings[i].subtype],
                       supports |-> findings[i].subtype] : i \in DOMAIN findings}

NextExperiment(findings) ==
    LET has(s) == \E i \in DOMAIN findings : findings[i].subtype = s
    IN IF has("missing_from_all_channels")  THEN "run_independent_recall_experiment"
       ELSE IF has("fusion_regression")     THEN "run_fusion_ablation"
       ELSE IF has("coarse_regression")     THEN "run_coarse_rank_ablation"
       ELSE "no_strategy_change"

Diagnosis(run) ==
    LET findings == Findings(run)
        options  == Options(findings)
    IN [findings |-> findings,
        options  |-> options,
        status   |-> IF options # {} THEN "diagnosable" ELSE "no_failure",
        primary  |-> IF findings = <<>> THEN "none" ELSE Head(findings).category,
        next     |-> NextExperiment(findings),
        queries  |-> [q \in DOMAIN run.queries |->
                         [primary |-> QueryPrimary(run.queries[q]),
                          fusion  |-> run.queries[q].fusion.ndcg,
                          coarse  |-> run.queries[q].ranking.ndcg]]]

(* The schema of a diagnosis.                                               *)
InUnit(x) == 0 <= x /\ x <= Unit
FitsSchema(diagnosis) ==
    LET f == diagnosis.findings
    IN /\ \A i, j \in DOMAIN f : i # j => f[i] # f[j]
       /\ \A i \in DOMAIN f : InUnit(f[i].impact)
       /\ \A o \in diagnosis.options : \E i \in DOMAIN f : f[i].subtype = o.supports
       /\ diagnosis.status = "no_failure" => diagnosis.primary = "none"
       /\ diagnosis.queries # <<>>
       /\ \A q \in DOMAIN diagnosis.queries :
              InUnit(diagnosis.queries[q].fusion) /\ InUnit(diagnosis.queries[q].coarse)

DiagnosisAccepted(run) ==
    ValidRun(run) /\ Diagnosable(run) /\ FitsSchema(Diagnosis(run))
=============================================================================
