-------------------------- MODULE RetrievalHarness --------------------------
(***************************************************************************)
(* The query-scoped search pipeline (retrieval/, ranking/bm25.py) and the  *)
(* harness that runs it over judged pools and writes the evidence of a run *)
(* (evaluation/retrieval.py).                                              *)
(*                                                                         *)
(* A pool is the sequence of the products judged for one query, in the     *)
(* order of their keys, and a product is named by its position.  Text is   *)
(* reduced to the score that a query gives the product in each channel,    *)
(* zero when the channel does not return it; `rescored' is the score of    *)
(* the title within a fused set that also holds products whose title has   *)
(* no token of the query, since the ranker weighs its terms by that set.   *)
(* Scores are compared and nothing else, so small integers stand for them. *)
(* A mean over the queries is kept as the sum, as all runs that are        *)
(* compared have the same queries.                                         *)
(***************************************************************************)
EXTENDS RankingMetrics

CONSTANTS ChannelTopK, FusionTopK, CoarseTopK,  \* results each stage keeps
          RrfK,                                 \* the rank offset of the fusion
          RrfScale,                             \* the integer that stands for 1.0 there
          Cutoff, ShortCutoff                   \* the ranks metrics look at: 10 and 5

ASSUME HarnessAssumption ==
    /\ {ChannelTopK, FusionTopK, CoarseTopK, RrfK, RrfScale,
        Cutoff, ShortCutoff} \subseteq Nat \ {0}
    /\ CoarseTopK <= FusionTopK
    /\ {ChannelTopK, FusionTopK, Cutoff, ShortCutoff} \subseteq 1..Len(Discounts)
    /\ \A r \in 1..ChannelTopK : RrfScale % (RrfK + r) = 0

Candidates == {"uniform", "conservative", "aggressive"}
Variants   == {"baseline"} \cup Candidates

ChannelsOf(v) == {"title", "exact"} \cup IF v \in Candidates THEN {"fields"} ELSE {}

(* Weights in twentieths.                                                  *)
Weight(v, c) ==
    CASE v = "conservative" /\ c = "fields" -> 2
      [] v = "aggressive"   /\ c = "fields" -> 5
      [] v = "aggressive"   /\ c = "exact"  -> 10
      [] OTHER                              -> 20

(* What a judged product is to a query: its label, and its scores.  A title *)
(* with a token of the query also matches in the fields; an exact match is  *)
(* an identifier or has all the tokens in the title.                        *)
JudgedProduct ==
    [label : Labels, title : Nat, exact : Nat, fields : Nat, rescored : Nat]
Identifier == 8
Consistent(p) ==
    /\ p.title > 0 => p.fields > 0
    /\ p.exact > 0 => p.exact = Identifier \/ p.title > 0
    /\ p.title > 0 <=> p.rescored > 0

Relevant(pool) == {k \in DOMAIN pool : pool[k].label \in RelevantLabels}
Evaluable(pool) ==
    /\ pool \in Seq(JudgedProduct) /\ Relevant(pool) # {}
    /\ \A k \in DOMAIN pool : Consistent(pool[k])
-----------------------------------------------------------------------------
(* Best score first, equal scores by key.                                  *)
Ranked(keys, score) == Listed(keys, ByValue(score))

(* The three retrievers; a product without a score is left out.            *)
Search(pool, c) ==
    LET score == [k \in DOMAIN pool |-> pool[k][c]]
    IN Cut(Ranked({k \in DOMAIN pool : score[k] > 0}, score), ChannelTopK)

Returned(hits) == UNION {Range(hits[c]) : c \in DOMAIN hits}

(* Reciprocal-rank fusion of what the channels returned.                   *)
Fuse(pool, hits, v) ==
    LET RankIn(c, k) == CHOOSE r \in DOMAIN hits[c] : hits[c][r] = k
        Share(c, k)  == Weight(v, c) * (RrfScale \div (RrfK + RankIn(c, k)))
        By(k)        == {c \in DOMAIN hits : k \in Range(hits[c])}
        score        == [k \in DOMAIN pool |-> SumFunction([c \in By(k) |-> Share(c, k)])]
    IN Cut(Ranked(Returned(hits), score), FusionTopK)

(* The coarse ranker orders everything that was fused, by the title alone. *)
(* It weighs the terms within that set.  Of these scores the model has two: *)
(* when all that was fused matches in the title, and when not.             *)
CoarseRank(pool, fused) ==
    LET mixed == \E k \in Range(fused) : pool[k].title = 0
        score == [k \in DOMAIN pool |-> IF mixed THEN pool[k].rescored ELSE pool[k].title]
    IN Cut(Ranked(Range(fused), score), CoarseTopK)

Retrieve(pool, v) ==
    LET hits  == [c \in ChannelsOf(v) |-> Search(pool, c)]
        fused == Fuse(pool, hits, v)
    IN [hits |-> hits, union |-> Returned(hits), fused |-> fused,
        coarse |-> CoarseRank(pool, fused)]

(* What the pipeline's own contract demands of a result.                   *)
WithinContract(result) ==
    /\ \A c \in DOMAIN result.hits : IsInjective(result.hits[c])
    /\ IsInjective(result.fused) /\ IsInjective(result.coarse)
    /\ result.union = Returned(result.hits)
    /\ Range(result.fused) \subseteq result.union
    /\ Range(result.coarse) \subseteq Range(result.fused)
-----------------------------------------------------------------------------
(* Evidence of one query.                                                  *)

MetricNames == {"recall_short", "recall", "mrr", "ndcg"}

Scored(relevant, gains, judged, total) ==
    [recall_short |-> Recall(relevant, total, ShortCutoff),
     recall       |-> Recall(relevant, total, Cutoff),
     mrr          |-> ReciprocalRank(relevant, Cutoff),
     ndcg         |-> Ndcg(gains, judged, Cutoff)]

StageMetrics(pool, list) ==
    Scored([r \in DOMAIN list |-> pool[list[r]].label \in RelevantLabels],
           [r \in DOMAIN list |-> Gain[pool[list[r]].label]],
           [k \in DOMAIN pool |-> Gain[pool[k].label]],
           Cardinality(Relevant(pool)))

(* The metrics refuse a list that is not a ranking of the judged products.  *)
Rankable(pool, list) ==
    Measurable([r \in DOMAIN list |-> Gain[pool[list[r]].label]],
               [k \in DOMAIN pool |-> Gain[pool[k].label]], Cutoff)

LossStages == {"recall", "fusion", "coarse_rank", "retained"}
(* Deviation: traced from the end, a fusion loss looks like a ranking loss. *)
LossFromTheEnd(result, k) ==
    IF k \in Range(result.coarse)      THEN "retained"
    ELSE IF k \notin result.union      THEN "recall"
    ELSE "coarse_rank"

FirstLoss(result, k) ==
    IF k \notin result.union              THEN "recall"
    ELSE IF k \notin Range(result.fused)  THEN "fusion"
    ELSE IF k \notin Range(result.coarse) THEN "coarse_rank"
    ELSE "retained"

(* The relevant products that one channel alone returned.                  *)
Unique(pool, hits, c) ==
    LET others == UNION {Range(hits[d]) : d \in DOMAIN hits \ {c}}
    IN (Relevant(pool) \cap Range(hits[c])) \ others

QueryEvidence(pool, v) ==
    LET result == Retrieve(pool, v)
    IN [judgments |-> pool,
        relevant  |-> Cardinality(Relevant(pool)),
        hits      |-> result.hits,
        fused     |-> result.fused,
        coarse    |-> result.coarse,
        channels  |-> [c \in ChannelsOf(v) |-> StageMetrics(pool, result.hits[c])],
        fusion    |-> StageMetrics(pool, result.fused),
        ranking   |-> StageMetrics(pool, result.coarse),
        coverage  |-> (Unit * Cardinality(result.union \cap Relevant(pool)))
                          \div Cardinality(Relevant(pool)),
        lineage   |-> [k \in Relevant(pool) |-> FirstLoss(result, k)],
        accepted  |-> /\ WithinContract(result)
                      /\ \A list \in Range(result.hits) \cup {result.fused, result.coarse} :
                             Rankable(pool, list)]
-----------------------------------------------------------------------------
(* The run over all the queries of the profile.                            *)

SumOver(value) == SumFunction(value)

MetricSums(metrics) ==
    [m \in MetricNames |-> SumOver([q \in DOMAIN metrics |-> metrics[q][m]])]

Run(pools, v) ==
    LET queries == [q \in DOMAIN pools |-> QueryEvidence(pools[q], v)]
        Each(Value(_)) == [q \in DOMAIN queries |-> Value(queries[q])]
        Count(Keys(_)) == SumOver(Each(LAMBDA e : Cardinality(Keys(e))))
    IN [variant   |-> v,
        queries   |-> queries,
        channels  |-> [c \in ChannelsOf(v) |-> MetricSums(Each(LAMBDA e : e.channels[c]))],
        fusion    |-> MetricSums(Each(LAMBDA e : e.fusion)),
        ranking   |-> MetricSums(Each(LAMBDA e : e.ranking)),
        coverage  |-> SumOver(Each(LAMBDA e : e.coverage)),
        losses    |-> [s \in LossStages |->
                          Count(LAMBDA e : {k \in DOMAIN e.lineage : e.lineage[k] = s})],
        unique    |-> [c \in ChannelsOf(v) |->
                          Count(LAMBDA e : Unique(e.judgments, e.hits, c))],
        exact_unique |->
            Count(LAMBDA e : (Relevant(e.judgments) \cap Range(e.hits["exact"]))
                                 \ Range(e.hits["title"])),
        zero_result |-> Cardinality({q \in DOMAIN queries : queries[q].fused = <<>>}),
        judged      |-> SumOver(Each(LAMBDA e : Len(e.judgments)))]

(* The run is written only when no pipeline and no metric refused.          *)
Produced(run) == \A q \in DOMAIN run.queries : run.queries[q].accepted
=============================================================================
