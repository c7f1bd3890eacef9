------------------------- MODULE RetrievalValidation -------------------------
(***************************************************************************)
(* evaluation/retrieval_validation.py: the validator that every run must   *)
(* pass before it is stored, diagnosed or compared.  It recomputes the     *)
(* whole evidence from the judgments and the rankings a run states, with   *)
(* its own code for the metrics, the lineage and the aggregates; only the  *)
(* pipeline, the fusion and the ranker are the harness's.                  *)
(***************************************************************************)
EXTENDS RetrievalHarness

(* The products of one ranking: judged in this query, each of them once.   *)
RankedItems(e, list) ==
    /\ Range(list) \subseteq DOMAIN e.judgments
    /\ IsInjective(list)

Judged(e) ==
    /\ e.judgments # <<>>
    /\ e.relevant = Cardinality({k \in DOMAIN e.judgments :
                                    e.judgments[k].label \in RelevantLabels})
    /\ e.relevant > 0

RecomputedMetrics(e, list) ==
    LET label(k) == e.judgments[k].label
    IN Scored([r \in DOMAIN list |-> label(list[r]) \in RelevantLabels],
              [r \in DOMAIN list |-> Gain[label(list[r])]],
              [k \in DOMAIN e.judgments |-> Gain[label(k)]],
              e.relevant)

(* Where each relevant product is lost, from the rankings of the evidence.  *)
ExpectedLoss(e, k) ==
    CASE \A c \in DOMAIN e.hits : k \notin Range(e.hits[c]) -> "recall"
      [] /\ \E c \in DOMAIN e.hits : k \in Range(e.hits[c])
         /\ k \notin Range(e.fused)                         -> "fusion"
      [] k \in Range(e.fused) \ Range(e.coarse)             -> "coarse_rank"
      [] OTHER                                              -> "retained"

ExpectedLineage(e) ==
    [k \in {j \in DOMAIN e.judgments : e.judgments[j].label \in RelevantLabels}
        |-> ExpectedLoss(e, k)]

ValidQuery(e, v) ==
    LET union == UNION {Range(e.hits[c]) : c \in DOMAIN e.hits}
        found == {k \in union : e.judgments[k].label \in RelevantLabels}
    IN /\ Judged(e)
       /\ DOMAIN e.hits = ChannelsOf(v)
       /\ \A c \in DOMAIN e.hits :
              /\ Len(e.hits[c]) <= ChannelTopK
              /\ RankedItems(e, e.hits[c])
              /\ e.hits[c] = Search(e.judgments, c)
              /\ e.channels[c] = RecomputedMetrics(e, e.hits[c])
       /\ RankedItems(e, e.fused) /\ e.fused = Fuse(e.judgments, e.hits, v)
       /\ RankedItems(e, e.coarse) /\ e.coarse = CoarseRank(e.judgments, e.fused)
       /\ e.fusion = RecomputedMetrics(e, e.fused)
       /\ e.ranking = RecomputedMetrics(e, e.coarse)
       /\ e.coverage = (Unit * Cardinality(found)) \div e.relevant
       /\ e.lineage = ExpectedLineage(e)

(* The aggregates, counted over the queries once more.                      *)
Losses(run, s) ==
    LET Lost(e) == {k \in DOMAIN ExpectedLineage(e) : ExpectedLoss(e, k) = s}
    IN SumOver([q \in DOMAIN run.queries |-> Cardinality(Lost(run.queries[q]))])

OnlyIn(e, c, others) ==
    {k \in DOMAIN e.judgments :
        /\ e.judgments[k].label \in RelevantLabels
        /\ k \in Range(e.hits[c])
        /\ \A d \in others : k \notin Range(e.hits[d])}

Contribution(run, c, others) ==
    SumOver([q \in DOMAIN run.queries |-> Cardinality(OnlyIn(run.queries[q], c, others))])

StageTotals(metrics) ==
    [m \in MetricNames |-> SumOver([q \in DOMAIN metrics |-> metrics[q][m]])]

ValidAggregate(run) ==
  LET Each(Value(_)) == [q \in DOMAIN run.queries |-> Value(run.queries[q])] IN
    /\ run.losses = [s \in LossStages |-> Losses(run, s)]
    /\ run.exact_unique = Contribution(run, "exact", {"title"})
    /\ \A c \in DOMAIN run.unique :
           run.unique[c] = Contribution(run, c, ChannelsOf(run.variant) \ {c})
    /\ run.zero_result = Cardinality({q \in DOMAIN run.queries : run.queries[q].fused = <<>>})
    /\ \A c \in DOMAIN run.channels :
           run.channels[c] = StageTotals(Each(LAMBDA e : e.channels[c]))
    /\ run.fusion = StageTotals(Each(LAMBDA e : e.fusion))
    /\ run.ranking = StageTotals(Each(LAMBDA e : e.ranking))
    /\ run.coverage = SumOver(Each(LAMBDA e : e.coverage))
    /\ run.judged = SumOver(Each(LAMBDA e : Len(e.judgments)))

ValidRun(run) ==
    /\ run.variant \in Variants
    /\ run.queries # <<>>
    /\ \A q \in DOMAIN run.queries : ValidQuery(run.queries[q], run.variant)
    /\ DOMAIN run.channels = ChannelsOf(run.variant)
    /\ DOMAIN run.unique = ChannelsOf(run.variant)
    /\ ValidAggregate(run)
=============================================================================
