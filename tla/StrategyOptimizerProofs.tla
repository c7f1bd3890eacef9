----------------------- MODULE StrategyOptimizerProofs -----------------------
(***************************************************************************)
(* That crashes, retries and competing approvals leave one decision per    *)
(* proposal, that the active strategy is what the catalog lists and the    *)
(* last of a lineage of improvements, and that no stale proposal is        *)
(* served or activated: for any number of proposals, requests and code     *)
(* revisions.                                                              *)
(*                                                                         *)
(* The search is a computation over sums and sorted lists.  What the       *)
(* catalog needs of it is stated by SearchFits and SearchImproves, and     *)
(* proved from the definition of the search for every body of judged       *)
(* queries: the numbers are numbers (a sum's recursion has a solution, a   *)
(* list of scores can be sorted), so the candidates have a winner; and the *)
(* worst regression is one of those the gates see.                         *)
(***************************************************************************)
EXTENDS StrategyOptimizer, RankingMetricsProofs, SequenceTheorems

(* Decisions: holds whatever the search computes.                           *)

DecisionTypes ==
    /\ body = [p \in Proposals |-> body[p]]
    /\ intent \in [Proposals -> Verdicts \cup {Absent}]
    /\ records \subseteq Proposals \X Verdicts
    /\ history \in Seq(Proposals \cup {Legacy})
    /\ decided \in [Proposals -> Verdicts \cup {Absent}]

(* An approval is written for a proposal that passed its gate.              *)
ApprovalsAreReady ==
    \A p \in Proposals : intent[p] = "approve" => Stored(p) /\ body[p].kind = "ready"

DecisionInv == DecisionTypes /\ ApprovalsAreReady /\ OneDecision
-----------------------------------------------------------------------------
(* Proposals: what is stored, seen, cached and active.                      *)

Ready(p) == Stored(p) /\ body[p].kind = "ready"

(* A ready proposal was made for what was active, and is not the same.      *)
BodyFits(p) ==
    Stored(p) =>
       /\ body[p].parent \in Proposals => Ready(body[p].parent)
       /\ body[p].kind = "ready" =>
             body[p].strategy \in Strategies \ {StrategyOf(body[p].parent)}

ActiveFits(a) == a \in Proposals => Ready(a)

(* What a request has seen was active; what it has stored is for that, and  *)
(* by the code that runs.  Only a cached process looks up and checks again. *)
RequestFits(t) ==
    /\ at[t] \in {"lookup", "recheck"} => t \in Cached
    /\ at[t] \in {"check", "store"} => call[t].seen # Legacy /\ ActiveFits(call[t].seen)
    /\ at[t] \in {"latest", "recheck"} =>
          /\ call[t].result \in Proposals
          /\ Stored(call[t].result)
          /\ body[call[t].result].code = deployed

CacheFits == \A a \in Actives : cache[a] # Absent => Stored(cache[a])

ProposalInv ==
    /\ TypeOK
    /\ \A p \in Proposals : BodyFits(p)
    /\ ActiveFits(active)
    /\ \A t \in Threads : RequestFits(t)
    /\ CacheFits
    /\ CacheIsFresh
-----------------------------------------------------------------------------
(* The lineage of the active strategy.                                      *)

Improving(p) ==
    Ready(p) => <<world[body[p].code], StrategyOf(body[p].parent), body[p].strategy>>
                   \in Improvements

AllImprove == \A p \in Proposals : Improving(p)

LineageInv ==
    /\ ProposalInv
    /\ DecisionInv
    /\ AllImprove
    /\ HistoryIsLineage

-----------------------------------------------------------------------------
(* The search: what it computes from judged queries.                        *)

LEMMA MetricsAreNumbers ==
    ASSUME NEW q, JudgedQuery(q), NEW s \in Baselines
    PROVE  \A m \in MetricNames : Metrics(q, s)[m] \in Int
<1> DEFINE n        == Len(q.products)
           Product  == [label : Labels, bm25 : Nat, terms : SUBSET q.terms,
                        phrase : BOOLEAN]
           score    == [k \in DOMAIN q.products |-> Score(q, q.products[k], s)]
           list     == Ranking(q, s)
           label(k) == q.products[k].label
           gains    == [r \in DOMAIN list |-> Gain[label(list[r])]]
           relevant == [r \in DOMAIN list |-> label(list[r]) \in RelevantLabels]
<1>1. q.products \in Seq(Product) /\ n \in Nat /\ DOMAIN q.products = 1 .. n
  BY DEF JudgedQuery
<1>2. \A k \in 1 .. n : q.products[k] \in Product
  <2> HIDE DEF Product
  <2> QED
    BY <1>1
<1>3. \A k \in 1 .. n : Score(q, q.products[k], s) \in Int
  <2> SUFFICES ASSUME NEW p \in Product PROVE Score(q, p, s) \in Int
    BY <1>2
  <2>1. /\ IsFiniteSet(q.terms) /\ IsFiniteSet(q.numeric)
        /\ IsFiniteSet(p.terms) /\ IsFiniteSet(p.terms \cap q.numeric)
    BY FS_Subset DEF JudgedQuery
  <2>2. /\ Cardinality(q.terms) \in Int /\ Cardinality(q.numeric) \in Int
        /\ Cardinality(p.terms) \in Int /\ Cardinality(p.terms \cap q.numeric) \in Int
    BY <2>1, FS_CardinalityType
  <2>3. Boosts(s) \in [coverage : Int, numeric : Int, phrase : Int]
    BY DEF Boosts, Boost, Baselines, Strategies, CandidateFor, Conservative, Baseline,
           LegacyStrategy
  <2> DEFINE size    == Cardinality(q.terms)
             numbers == IF q.numeric = {} THEN 1 ELSE Cardinality(q.numeric)
             bonus   == IF p.phrase THEN Boosts(s).phrase ELSE 0
             a       == numbers * Boosts(s).coverage
             b       == size * Boosts(s).numeric
  <2>4. /\ size \in Int /\ numbers \in Int /\ bonus \in Int /\ p.bm25 \in Int
        /\ Boosts(s).coverage \in Int /\ Boosts(s).numeric \in Int
    BY <2>2, <2>3
  <2>5. /\ size * numbers * (p.bm25 + bonus) \in Int /\ a \in Int /\ b \in Int
    BY <2>4
  <2>6. a * Cardinality(p.terms) \in Int /\ b * Cardinality(p.terms \cap q.numeric) \in Int
    BY <2>2, <2>5
  <2>7. Score(q, p, s) = size * numbers * (p.bm25 + bonus) + a * Cardinality(p.terms)
                         + b * Cardinality(p.terms \cap q.numeric)
    BY DEF Score
  <2> HIDE DEF a, b, size, numbers, bonus
  <2> QED
    BY <2>5, <2>6, <2>7
<1>4. score \in [1 .. n -> Int]
  BY <1>1, <1>3
<1>5. list \in [1 .. n -> 1 .. n]
  BY <1>1, <1>4, DescendingPermutes DEF Ranking
<1> HIDE DEF list
<1>6. gains \in [1 .. n -> Nat]
  BY <1>2, <1>5 DEF Gain, Labels
<1>7. relevant \in [1 .. n -> BOOLEAN]
  BY <1>5
<1>8. Metrics(q, s) =
        [ndcg          |-> Ndcg(gains, gains, Cutoff),
         ndcg_short    |-> Ndcg(gains, gains, ShortCutoff),
         mrr           |-> ReciprocalRank(relevant, Cutoff),
         success_1     |-> Success(relevant, 1),
         success_short |-> Success(relevant, ShortCutoff)]
  BY DEF Metrics, list
<1> HIDE DEF gains, relevant, n
<1>9. Ndcg(gains, gains, Cutoff) \in Int /\ Ndcg(gains, gains, ShortCutoff) \in Int
  BY <1>1, <1>6, NdcgIsNumber, SearchAssumption
<1>10. ReciprocalRank(relevant, Cutoff) \in Int
  <2>1. Cutoff \in Nat
    BY SearchAssumption
  <2> QED
    BY <1>1, <1>7, <2>1, ReciprocalRankIsNumber
<1>11. Success(relevant, 1) \in Int /\ Success(relevant, ShortCutoff) \in Int
  BY MetricsAssumption DEF Success
<1> QED
  BY <1>8, <1>9, <1>10, <1>11 DEF MetricNames

(* Judged queries, and two strategies that are compared on them.            *)
JudgedQueries(queries) ==
    /\ queries \in Seq(Range(queries))
    /\ \A i \in DOMAIN queries : JudgedQuery(queries[i])

LEMMA DeltasAreNumbers ==
    ASSUME NEW queries, JudgedQueries(queries), NEW s0 \in Baselines, NEW s1 \in Baselines
    PROVE  /\ DOMAIN Deltas(queries, s0, s1) = DOMAIN queries
           /\ \A i \in DOMAIN queries, m \in MetricNames :
                /\ Deltas(queries, s0, s1)[i][m] =
                      Metrics(queries[i], s1)[m] - Metrics(queries[i], s0)[m]
                /\ Deltas(queries, s0, s1)[i][m] \in Int
<1>1. DOMAIN Deltas(queries, s0, s1) = DOMAIN queries
  BY DEF Deltas
<1>2. ASSUME NEW i \in DOMAIN queries, NEW m \in MetricNames
      PROVE  Deltas(queries, s0, s1)[i][m] =
                Metrics(queries[i], s1)[m] - Metrics(queries[i], s0)[m]
  BY DEF Deltas
<1>3. ASSUME NEW i \in DOMAIN queries, NEW m \in MetricNames
      PROVE  Metrics(queries[i], s1)[m] \in Int /\ Metrics(queries[i], s0)[m] \in Int
  BY MetricsAreNumbers DEF JudgedQueries
<1> QED
  BY <1>1, <1>2, <1>3

(* Everything that is known of a comparison when it is summarised.          *)
Comparison(deltas) ==
    /\ deltas \in Seq(Range(deltas))
    /\ \A i \in DOMAIN deltas, m \in MetricNames : deltas[i][m] \in Int

LEMMA DeltasAreAComparison ==
    ASSUME NEW queries, JudgedQueries(queries), NEW s0 \in Baselines, NEW s1 \in Baselines
    PROVE  Comparison(Deltas(queries, s0, s1)) /\ Len(Deltas(queries, s0, s1)) = Len(queries)
<1> DEFINE deltas == Deltas(queries, s0, s1)
<1>1. /\ DOMAIN deltas = DOMAIN queries
      /\ \A i \in DOMAIN deltas, m \in MetricNames : deltas[i][m] \in Int
  BY DeltasAreNumbers
<1>2. deltas = [i \in DOMAIN deltas |-> deltas[i]]
  BY DEF Deltas
<1>3. Len(queries) \in Nat /\ DOMAIN queries = 1 .. Len(queries)
  BY DEF JudgedQueries
<1> HIDE DEF deltas
<1>4. \A i \in 1 .. Len(queries) : deltas[i] \in Range(deltas)
  BY <1>1, <1>3 DEF Range
<1>5. deltas \in Seq(Range(deltas)) /\ Len(deltas) = Len(queries)
  BY <1>1, <1>2, <1>3, <1>4
<1> QED
  BY <1>1, <1>5 DEF Comparison, deltas

LEMMA RegressionsAreFinite ==
    ASSUME NEW deltas, Comparison(deltas)
    PROVE  /\ IsFiniteSet(DOMAIN deltas)
           /\ Regressed(deltas) \subseteq DOMAIN deltas
           /\ NamedRegressions(deltas) \subseteq Regressed(deltas)
           /\ IsFiniteSet(Regressed(deltas)) /\ IsFiniteSet(NamedRegressions(deltas))
           /\ \A i \in DOMAIN deltas : i \in Nat /\ deltas[i].ndcg \in Int
<1>1. Len(deltas) \in Nat /\ DOMAIN deltas = 1 .. Len(deltas)
  BY DEF Comparison
<1>2. IsFiniteSet(DOMAIN deltas)
  BY <1>1, FS_Interval
<1>3. /\ Regressed(deltas) \subseteq DOMAIN deltas
      /\ NamedRegressions(deltas) \subseteq Regressed(deltas)
  BY DEF Regressed, NamedRegressions
<1>4. \A i \in DOMAIN deltas : i \in Nat /\ deltas[i].ndcg \in Int
  <2>1. "ndcg" \in MetricNames
    BY DEF MetricNames
  <2>2. \A i \in DOMAIN deltas : deltas[i]["ndcg"] \in Int
    BY <2>1 DEF Comparison
  <2> QED
    BY <1>1, <2>2
<1> QED
  BY <1>2, <1>3, <1>4, FS_Subset

LEMMA WorstIsNumber ==
    ASSUME NEW deltas, Comparison(deltas)
    PROVE  /\ Worst(Payload(deltas)) \in Int
           /\ \A i \in NamedRegressions(deltas) : -(deltas[i].ndcg) <= Worst(Payload(deltas))
<1> DEFINE losses == {0} \cup {-d : d \in {deltas[i].ndcg : i \in NamedRegressions(deltas)}}
<1>1. /\ IsFiniteSet(NamedRegressions(deltas))
      /\ \A i \in NamedRegressions(deltas) : deltas[i].ndcg \in Int
  BY RegressionsAreFinite
<1>2. losses = {0} \cup {-(deltas[i].ndcg) : i \in NamedRegressions(deltas)}
  OBVIOUS
<1>3. IsFiniteSet({-(deltas[i].ndcg) : i \in NamedRegressions(deltas)})
  <2> DEFINE f == [i \in NamedRegressions(deltas) |-> -(deltas[i].ndcg)]
  <2>1. IsFiniteSet({f[i] : i \in NamedRegressions(deltas)})
    <3> HIDE DEF f
    <3> QED
      BY <1>1, ImageIsFinite
  <2> QED
    BY <2>1
<1>4. IsFiniteSet({0})
  BY FS_Singleton
<1>5. IsFiniteSet(losses)
  BY <1>2, <1>3, <1>4, FS_Union
<1>6. losses # {} /\ losses \subseteq Int
  BY <1>1, <1>2
<1>7. Worst(Payload(deltas)) = Max(losses)
  BY DEF Worst, Payload
<1>8. \A i \in NamedRegressions(deltas) : -(deltas[i].ndcg) \in losses
  OBVIOUS
<1> HIDE DEF losses
<1>9. Max(losses) \in losses /\ \A y \in losses : Max(losses) >= y
  BY <1>5, <1>6, LargestExists
<1>10. \A y \in losses : y \in Int /\ Max(losses) \in Int
  BY <1>6, <1>9
<1>11. \A i \in NamedRegressions(deltas) : -(deltas[i].ndcg) <= Max(losses)
  BY <1>8, <1>9, <1>10
<1> QED
  BY <1>6, <1>7, <1>9, <1>11

LEMMA TotalsAreNumbers ==
    ASSUME NEW deltas, Comparison(deltas), NEW m \in MetricNames
    PROVE  Payload(deltas).aggregate[m] \in Int
<1> DEFINE f == [i \in DOMAIN deltas |-> deltas[i][m]]
<1>1. IsFiniteSet(DOMAIN f) /\ \A i \in DOMAIN f : f[i] \in Int
  BY RegressionsAreFinite DEF Comparison
<1>2. Payload(deltas).aggregate[m] = SumFunction(f)
  BY DEF Payload
<1> HIDE DEF f
<1> QED
  BY <1>1, <1>2, SumIsNumber

LEMMA ScoreIsNumber ==
    ASSUME NEW deltas, Comparison(deltas)
    PROVE  SelectionScore(Payload(deltas)) \in Int
<1> DEFINE payload == Payload(deltas)
           total   == payload.aggregate
<1>1. /\ total.ndcg \in Int /\ total.ndcg_short \in Int /\ total.mrr \in Int
      /\ total.success_1 \in Int /\ total.success_short \in Int
  <2>1. \A m \in MetricNames : total[m] \in Int
    BY TotalsAreNumbers
  <2> HIDE DEF total
  <2> QED
    BY <2>1 DEF MetricNames
<1>2. payload.queries \in Int
  BY DEF Comparison, Payload
<1>3. payload.regressed \in Int
  BY RegressionsAreFinite, FS_CardinalityType DEF Payload
<1>4. Worst(payload) \in Int
  BY WorstIsNumber
<1> HIDE DEF payload
<1>5. Unit * payload.regressed \in Int /\ payload.queries * Worst(payload) \in Int
  BY <1>2, <1>3, <1>4, MetricsAssumption
<1>6. SelectionScore(payload) \in Int
  BY <1>1, <1>5 DEF SelectionScore
<1> QED
  BY <1>6 DEF payload

(* The evaluated candidates have a winner.                                  *)
Evaluated == [strategy : Strategies, score : Int, gain : Int,
              kind : {"ready", "gate_failed"}]

Outranks(e, f) ==
    \/ e.kind = "ready" /\ f.kind # "ready"
    \/ e.kind = f.kind /\ Before(e, f)

LEMMA FamilyIsFour ==
    /\ Strategies = {"exact-numeric-v1", "exact-coverage-v1", "exact-phrase-v1",
                     "exact-conservative-v1"}
    /\ IsFiniteSet(Strategies)
    /\ \A s \in Strategies : Complexity(s) \in Nat
    /\ \A s, t \in Strategies : Complexity(s) = Complexity(t) => s = t
    /\ Strategies \subseteq Baselines
<1>1. Strategies = {"exact-numeric-v1", "exact-coverage-v1", "exact-phrase-v1",
                    "exact-conservative-v1"}
  <2>1. DOMAIN CandidateFor = {"numeric_token", "coverage_gap", "exact_phrase_displaced"}
    BY DEF CandidateFor
  <2>2. /\ CandidateFor["numeric_token"] = "exact-numeric-v1"
        /\ CandidateFor["coverage_gap"] = "exact-coverage-v1"
        /\ CandidateFor["exact_phrase_displaced"] = "exact-phrase-v1"
    BY DEF CandidateFor
  <2> QED
    BY <2>1, <2>2 DEF Strategies, Conservative
<1>2. IsFiniteSet(Strategies)
  <2> DEFINE names == <<"exact-numeric-v1", "exact-coverage-v1", "exact-phrase-v1",
                        "exact-conservative-v1">>
  <2>1. Strategies = {names[i] : i \in 1 .. 4}
    BY <1>1
  <2>2. IsFiniteSet(1 .. 4)
    <3>1. 1 \in Int /\ 4 \in Int
      OBVIOUS
    <3> QED
      BY <3>1, FS_Interval
  <2> HIDE DEF names
  <2> QED
    BY <2>1, <2>2, ImageIsFinite
<1>3. /\ Complexity("exact-numeric-v1") = 36
      /\ Complexity("exact-coverage-v1") = 34
      /\ Complexity("exact-phrase-v1") = 32
      /\ Complexity("exact-conservative-v1") = 8
  BY DEF Complexity, Boosts, Boost, Baseline, LegacyStrategy, Conservative
<1>4. /\ \A s \in Strategies : Complexity(s) \in Nat
      /\ \A s, t \in Strategies : Complexity(s) = Complexity(t) => s = t
  BY <1>1, <1>3
<1> QED
  BY <1>1, <1>2, <1>4 DEF Baselines

LEMMA WinnerExists ==
    ASSUME NEW S, IsFiniteSet(S), S # {}, S \subseteq Evaluated,
           \A e, f \in S : e.strategy = f.strategy => e = f
    PROVE  Selected(S) \in S
<1> DEFINE R == {p \in S \X S : Outranks(p[1], p[2])}
<1>1. \A e, f \in S : <<e, f>> \in R <=> Outranks(e, f)
  OBVIOUS
<1>2. \A e \in S : /\ e.strategy \in Strategies /\ e.score \in Int /\ e.gain \in Int
                   /\ e.kind \in {"ready", "gate_failed"}
                   /\ Complexity(e.strategy) \in Nat
  BY FamilyIsFour DEF Evaluated
<1>3. ASSUME NEW e \in S, NEW f \in S, e # f
      PROVE  Outranks(e, f) \/ Outranks(f, e)
  <2>1. Complexity(e.strategy) # Complexity(f.strategy)
    BY <1>2, <1>3, FamilyIsFour
  <2> QED
    BY <1>2, <2>1 DEF Outranks, Before
<1>4. ASSUME NEW e \in S, NEW f \in S, NEW g \in S, Outranks(e, f), Outranks(f, g)
      PROVE  Outranks(e, g)
  BY <1>2, <1>4 DEF Outranks, Before
<1>5. Total(S, R)
  BY <1>1, <1>3, <1>4 DEF Total
<1> HIDE DEF R
<1>6. PICK e \in S : \A f \in S \ {e} : <<e, f>> \in R
  BY <1>5, FirstExists DEF HasFirst
<1>7. \A f \in S \ {e} : Outranks(e, f)
  BY <1>1, <1>6
<1> QED
  BY <1>7 DEF Selected, Outranks

(* What is evaluated of one candidate.                                      *)
LEMMA CandidatesAreEvaluated ==
    ASSUME NEW queries, JudgedQueries(queries), NEW s0 \in Baselines
    PROVE  LET evaluation == [s \in Strategies \ {s0} |->
                   Evaluation([strategy |-> s, payload |-> Payload(Deltas(queries, s0, s))])]
               chosen     == SelectedCandidates(queries, s0) \ {s0}
           IN /\ {Evaluation(x) : x \in Experiments(queries, s0)} =
                    {evaluation[s] : s \in chosen}
              /\ chosen \in SUBSET (Strategies \ {s0})
              /\ \A s \in Strategies \ {s0} :
                   evaluation[s] \in Evaluated /\ evaluation[s].strategy = s
<1> DEFINE evaluation == [s \in Strategies \ {s0} |->
               Evaluation([strategy |-> s, payload |-> Payload(Deltas(queries, s0, s))])]
           chosen     == SelectedCandidates(queries, s0) \ {s0}
<1>1. chosen \in SUBSET (Strategies \ {s0})
  BY DEF SelectedCandidates, Strategies
<1>2. {Evaluation(x) : x \in Experiments(queries, s0)} = {evaluation[s] : s \in chosen}
  <2> DEFINE trial(s) == [strategy |-> s, payload |-> Payload(Deltas(queries, s0, s))]
  <2>1. Experiments(queries, s0) = {trial(s) : s \in chosen}
    BY DEF Experiments
  <2> HIDE DEF chosen
  <2>2. \A s \in chosen : evaluation[s] = Evaluation(trial(s))
    BY <1>1
  <2> HIDE DEF evaluation, trial
  <2>3. {Evaluation(x) : x \in {trial(s) : s \in chosen}} = {Evaluation(trial(s)) : s \in chosen}
    OBVIOUS
  <2>4. {Evaluation(trial(s)) : s \in chosen} = {evaluation[s] : s \in chosen}
    BY <2>2
  <2> QED
    BY <2>1, <2>3, <2>4
<1>3. ASSUME NEW s \in Strategies \ {s0}
      PROVE  evaluation[s] \in Evaluated /\ evaluation[s].strategy = s
  <2> DEFINE payload == Payload(Deltas(queries, s0, s))
  <2>1. s \in Baselines
    BY FamilyIsFour
  <2>2. Comparison(Deltas(queries, s0, s))
    BY <2>1, DeltasAreAComparison
  <2>3. SelectionScore(payload) \in Int
    BY <2>2, ScoreIsNumber
  <2>4. payload.aggregate.ndcg \in Int
    <3>1. "ndcg" \in MetricNames
      BY DEF MetricNames
    <3> QED
      BY <2>2, <3>1, TotalsAreNumbers
  <2>5. evaluation[s] = [strategy |-> s, score |-> SelectionScore(payload),
                         gain |-> payload.aggregate.ndcg,
                         kind |-> IF GatesPass(payload) THEN "ready" ELSE "gate_failed"]
    BY DEF Evaluation
  <2> HIDE DEF payload, evaluation
  <2> QED
    BY <2>3, <2>4, <2>5 DEF Evaluated
<1> QED
  BY <1>1, <1>2, <1>3

(* What the search finds: nothing to test, or the winner of the tests.      *)
LEMMA SearchFinds ==
    ASSUME NEW queries, JudgedQueries(queries), NEW s0 \in Baselines
    PROVE  LET found == Search(queries, s0)
           IN \/ found = [kind |-> "terminal", strategy |-> Engineering]
              \/ \E s \in Strategies \ {s0} :
                    /\ found.strategy = s
                    /\ found.kind = IF GatesPass(Payload(Deltas(queries, s0, s)))
                                    THEN "ready" ELSE "gate_failed"
<1> DEFINE evaluation == [s \in Strategies \ {s0} |->
               Evaluation([strategy |-> s, payload |-> Payload(Deltas(queries, s0, s))])]
           chosen     == SelectedCandidates(queries, s0) \ {s0}
           tested     == {evaluation[s] : s \in chosen}
           found      == Search(queries, s0)
<1>1. tested = {Evaluation(x) : x \in Experiments(queries, s0)}
  BY CandidatesAreEvaluated
<1>2. /\ chosen \in SUBSET (Strategies \ {s0})
      /\ \A s \in Strategies \ {s0} :
            evaluation[s] \in Evaluated /\ evaluation[s].strategy = s
  BY CandidatesAreEvaluated
<1>3. found = IF tested = {} THEN [kind |-> "terminal", strategy |-> Engineering]
              ELSE [k \in {"kind", "strategy"} |-> Selected(tested)[k]]
  BY <1>1 DEF Search, Restrict
<1>4. \A s \in Strategies \ {s0} : evaluation[s].kind =
         IF GatesPass(Payload(Deltas(queries, s0, s))) THEN "ready" ELSE "gate_failed"
  BY DEF Evaluation
<1> HIDE DEF evaluation, chosen, found
<1>5. CASE tested = {}
  BY <1>3, <1>5 DEF found
<1>6. CASE tested # {}
  <2>1. IsFiniteSet(chosen)
    BY <1>2, FamilyIsFour, FS_Subset
  <2>2. IsFiniteSet(tested)
    BY <2>1, ImageIsFinite
  <2>3. tested \subseteq Evaluated /\ \A e, f \in tested : e.strategy = f.strategy => e = f
    BY <1>2
  <2>4. Selected(tested) \in tested
    BY <1>6, <2>2, <2>3, WinnerExists
  <2>5. PICK s \in chosen : Selected(tested) = evaluation[s]
    BY <2>4
  <2>6. found.strategy = evaluation[s].strategy /\ found.kind = evaluation[s].kind
    BY <1>3, <1>6, <2>5
  <2> QED
    BY <1>2, <1>4, <2>5, <2>6 DEF found
<1> QED
  BY <1>5, <1>6

LEMMA WorldsAreJudged ==
    ASSUME NEW w \in DOMAIN Worlds
    PROVE  JudgedQueries(Worlds[w])
BY OptimizerAssumption DEF JudgedQueries

THEOREM SearchAlwaysFits == SearchFits
<1> SUFFICES ASSUME NEW w \in DOMAIN Worlds, NEW s0 \in Baselines
             PROVE  LET found == Searches[w][s0]
                    IN /\ found.kind \in Kinds
                       /\ found.strategy \in Strategies \cup {Engineering}
                       /\ found.kind = "ready" => found.strategy \in Strategies \ {s0}
  BY DEF SearchFits
<1>1. Searches[w][s0] = Search(Worlds[w], s0)
  BY DEF Searches
<1> QED
  BY <1>1, WorldsAreJudged, SearchFinds DEF Kinds

(* The worst regression is among those a comparison names, so that nothing  *)
(* that is lost goes beyond the loss the gates see.                         *)
LEMMA WorstIsNamed ==
    ASSUME NEW deltas, Comparison(deltas), NEW i \in Regressed(deltas)
    PROVE  -(deltas[i].ndcg) <= Worst(Payload(deltas))
<1> DEFINE S == Regressed(deltas)
           worse(j, k) == \/ deltas[j].ndcg < deltas[k].ndcg
                          \/ deltas[j].ndcg = deltas[k].ndcg /\ j < k
           R == {p \in S \X S : worse(p[1], p[2])}
<1>1. /\ IsFiniteSet(S) /\ S # {}
      /\ \A j \in S : j \in Nat /\ deltas[j].ndcg \in Int
  BY RegressionsAreFinite
<1>2. \A j, k \in S : <<j, k>> \in R <=> worse(j, k)
  OBVIOUS
<1> HIDE DEF S, R
<1>3. \A j, k \in S : j # k => worse(j, k) \/ worse(k, j)
  BY <1>1
<1>4. \A j, k, l \in S : worse(j, k) /\ worse(k, l) => worse(j, l)
  BY <1>1
<1>5. Total(S, R)
  <2> HIDE DEF worse
  <2> QED
    BY <1>2, <1>3, <1>4 DEF Total
<1>6. PICK w \in S : \A j \in S \ {w} : <<w, j>> \in R
  BY <1>1, <1>5, FirstExists DEF HasFirst
<1>7. \A j \in S \ {w} : worse(w, j)
  BY <1>2, <1>6
<1>8. {j \in S : worse(j, w)} = {}
  BY <1>1, <1>7
<1>9. Cardinality({j \in S : worse(j, w)}) < ExampleLimit
  <2>1. 0 < ExampleLimit
    BY SearchAssumption
  <2>2. Cardinality({}) = 0
    BY FS_EmptySet
  <2> HIDE DEF worse
  <2> QED
    BY <1>8, <2>1, <2>2
<1>10. w \in NamedRegressions(deltas)
  BY <1>9 DEF NamedRegressions, S
<1>11. -(deltas[w].ndcg) <= Worst(Payload(deltas)) /\ Worst(Payload(deltas)) \in Int
  BY <1>10, WorstIsNumber
<1>12. deltas[w].ndcg <= deltas[i].ndcg /\ deltas[w].ndcg \in Int /\ deltas[i].ndcg \in Int
  <2>1. i \in S
    BY DEF S
  <2>2. CASE i = w
    BY <1>1, <2>1, <2>2
  <2>3. CASE i # w
    BY <1>1, <1>7, <2>1, <2>3
  <2> QED
    BY <2>2, <2>3
<1> QED
  BY <1>11, <1>12

(* The gates see a summary; what passes them improves the queries.          *)
LEMMA PassingImproves ==
    ASSUME NEW queries, JudgedQueries(queries), NEW s0 \in Baselines, NEW s1 \in Baselines,
           GatesPass(Payload(Deltas(queries, s0, s1)))
    PROVE  Improves(queries, s0, s1)
<1> DEFINE deltas  == Deltas(queries, s0, s1)
           payload == Payload(deltas)
           gain    == [i \in DOMAIN queries |->
                          Metrics(queries[i], s1).ndcg - Metrics(queries[i], s0).ndcg]
           lost    == {i \in DOMAIN gain : gain[i] < 0}
<1>1. Comparison(deltas) /\ Len(deltas) = Len(queries)
  BY DeltasAreAComparison
<1>2. /\ DOMAIN deltas = DOMAIN queries
      /\ \A i \in DOMAIN queries : deltas[i].ndcg = gain[i]
  <2>1. "ndcg" \in MetricNames
    BY DEF MetricNames
  <2>2. /\ DOMAIN deltas = DOMAIN queries
        /\ \A i \in DOMAIN queries : deltas[i]["ndcg"] =
              Metrics(queries[i], s1)["ndcg"] - Metrics(queries[i], s0)["ndcg"]
    BY <2>1, DeltasAreNumbers
  <2> HIDE DEF deltas
  <2> QED
    BY <2>2
<1>3. DOMAIN gain = DOMAIN queries
  OBVIOUS
<1>4. gain = [i \in DOMAIN queries |-> gain[i]]
  OBVIOUS
<1> HIDE DEF deltas, gain
<1>5. [i \in DOMAIN deltas |-> deltas[i].ndcg] = gain
  BY <1>2, <1>4
<1>6. payload.aggregate.ndcg = SumFunction(gain)
  <2>1. payload.aggregate = [m \in MetricNames |->
                               SumFunction([i \in DOMAIN deltas |-> deltas[i][m]])]
    BY DEF Payload
  <2>2. payload.aggregate["ndcg"] = SumFunction([i \in DOMAIN deltas |-> deltas[i]["ndcg"]])
    <3>1. "ndcg" \in MetricNames
      BY DEF MetricNames
    <3> HIDE DEF payload
    <3> QED
      BY <2>1, <3>1
  <2> QED
    BY <1>5, <2>2
<1>7. lost = Regressed(deltas)
  BY <1>2, <1>3 DEF Regressed
<1>8. payload.regressed = Cardinality(lost) /\ payload.queries = Len(queries)
  BY <1>1, <1>7 DEF Payload
<1>9. /\ payload.aggregate.ndcg > 0
      /\ 100 * payload.regressed <= RateCeiling * payload.queries
      /\ Worst(payload) <= WorstLoss
  BY DEF GatesPass, deltas
<1>10. ASSUME NEW i \in lost
       PROVE  -gain[i] <= WorstLoss
  <2>1. i \in Regressed(deltas) /\ i \in DOMAIN queries /\ deltas[i].ndcg = gain[i]
    BY <1>2, <1>3, <1>7
  <2>2. -(deltas[i].ndcg) <= Worst(payload)
    BY <1>1, <2>1, WorstIsNamed
  <2>3. deltas[i].ndcg \in Int /\ Worst(payload) \in Int /\ WorstLoss \in Int
    BY <1>1, <1>2, <2>1, RegressionsAreFinite, WorstIsNumber, SearchAssumption
  <2> HIDE DEF payload
  <2> QED
    BY <1>9, <2>1, <2>2, <2>3
<1> HIDE DEF payload
<1>11. /\ SumFunction(gain) > 0
       /\ 100 * Cardinality(lost) <= RateCeiling * Len(queries)
       /\ \A i \in lost : -gain[i] <= WorstLoss
  BY <1>6, <1>8, <1>9, <1>10
<1> QED
  BY <1>11 DEF Improves, gain

THEOREM SearchAlwaysImproves == SearchImproves
<1> SUFFICES ASSUME NEW w \in DOMAIN Worlds, NEW s0 \in Baselines,
                    Searches[w][s0].kind = "ready"
             PROVE  <<w, s0, Searches[w][s0].strategy>> \in Improvements
  BY DEF SearchImproves
<1>1. Searches[w][s0] = Search(Worlds[w], s0)
  BY DEF Searches
<1>2. PICK s \in Strategies \ {s0} :
         /\ Searches[w][s0].strategy = s
         /\ GatesPass(Payload(Deltas(Worlds[w], s0, s)))
  BY <1>1, WorldsAreJudged, SearchFinds
<1>3. Improves(Worlds[w], s0, s)
  BY <1>2, FamilyIsFour, WorldsAreJudged, PassingImproves
<1>4. s \in Better(w, s0)
  BY <1>3 DEF Better
<1> DEFINE x == <<w, s0>>
<1>5. x \in (DOMAIN Worlds) \X Baselines /\ x[1] = w /\ x[2] = s0
  OBVIOUS
<1> HIDE DEF x
<1>6. <<w, s0, s>> \in {<<x[1], x[2], t>> : t \in Better(x[1], x[2])}
  BY <1>4, <1>5
<1>7. <<w, s0, s>> \in Improvements
  BY <1>5, <1>6 DEF Improvements
<1> QED
  BY <1>2, <1>7

-----------------------------------------------------------------------------
(* Lemmas about the history.                                                *)

LEMMA AppendLists ==
    ASSUME NEW S, NEW h \in Seq(S), NEW p \in S
    PROVE  /\ p \in ToSet(Append(h, p))
           /\ \A q : q \in ToSet(h) => q \in ToSet(Append(h, p))
  BY DEF ToSet

LEMMA BaseTypes ==
    ASSUME history \in Seq(Proposals \cup {Legacy})
    PROVE  /\ HistoryBase \in Seq(Proposals \cup {Legacy})
           /\ \A q : q \in ToSet(history) => q \in ToSet(HistoryBase)
           /\ history # <<>> => HistoryBase = history
<1>1. CASE history = <<>> /\ catalog[LegacyStrategy] = Legacy
  <2>1. HistoryBase = <<Legacy>> /\ <<Legacy>> \in Seq(Proposals \cup {Legacy})
    BY <1>1 DEF HistoryBase
  <2>2. \A q : q \notin ToSet(history)
    BY <1>1 DEF ToSet
  <2> QED
    BY <1>1, <2>1, <2>2
<1>2. CASE ~ (history = <<>> /\ catalog[LegacyStrategy] = Legacy)
  <2>1. HistoryBase = history
    BY <1>2 DEF HistoryBase
  <2> QED
    BY <2>1
<1> QED
  BY <1>1, <1>2

LEMMA ExtensionLists ==
    ASSUME history \in Seq(Proposals \cup {Legacy}), NEW p \in Proposals
    PROVE  /\ ExtendHistory(p) \in Seq(Proposals \cup {Legacy})
           /\ p \in ToSet(ExtendHistory(p))
           /\ \A q : q \in ToSet(history) => q \in ToSet(ExtendHistory(p))
<1>1. /\ HistoryBase \in Seq(Proposals \cup {Legacy})
      /\ \A q : q \in ToSet(history) => q \in ToSet(HistoryBase)
  BY BaseTypes
<1>2. CASE p \in ToSet(HistoryBase)
  BY <1>1, <1>2 DEF ExtendHistory
<1>3. CASE p \notin ToSet(HistoryBase)
  <2>1. ExtendHistory(p) = Append(HistoryBase, p)
    BY <1>3 DEF ExtendHistory
  <2>2. /\ p \in ToSet(Append(HistoryBase, p))
        /\ \A q : q \in ToSet(HistoryBase) => q \in ToSet(Append(HistoryBase, p))
    BY <1>1, AppendLists
  <2>3. Append(HistoryBase, p) \in Seq(Proposals \cup {Legacy})
    BY <1>1
  <2> QED
    BY <1>1, <2>1, <2>2, <2>3
<1> QED
  BY <1>2, <1>3

-----------------------------------------------------------------------------
(* Decisions.                                                               *)

(* A stored proposal keeps its content.                                     *)
LEMMA BodiesStay ==
    ASSUME [Next]_vars, body = [p \in Proposals |-> body[p]]
    PROVE  /\ body' = [p \in Proposals |-> body'[p]]
           /\ \A p \in Proposals : Stored(p) => body'[p] = body[p] /\ Stored(p)'
<1>1. CASE UNCHANGED body
  BY <1>1 DEF Stored
<1>2. ASSUME NEW t \in Threads, StoreProposal(t)
      PROVE  /\ body' = [p \in Proposals |-> body'[p]]
             /\ \A p \in Proposals : Stored(p) => body'[p] = body[p] /\ Stored(p)'
  <2>1. PICK p \in Proposals, b \in {Proposal(call[t].seen, StrategyOf(call[t].seen), deployed)} :
           /\ body[p] = b \/ body[p] = Absent
           /\ body' = [body EXCEPT ![p] = b]
    BY <1>2 DEF StoreProposal
  <2> QED
    BY <2>1 DEF Stored
<1>3. UNCHANGED body \/ \E t \in Threads : StoreProposal(t)
  BY DEF Next, vars, stored, Generate, Begin, Lookup, ReadActive, CheckParent,
         WriteLatest, CacheResult, GenerationFails, Decide, MigrateLegacy,
         ClearCache, Deploy
<1> QED
  BY <1>1, <1>2, <1>3

(* What only a decision does.                                               *)
LEMMA OnlyDecisionsDecide ==
    ASSUME [Next]_vars
    PROVE  \/ UNCHANGED <<intent, records, catalog, history, decided>> /\ served \subseteq served'
           \/ \E p \in Proposals, v \in Verdicts, n \in 0 .. 5 :
                 Decidable(p, v) /\ WriteFiles(p, v, n) /\ UNCHANGED <<world, stored, calls, deployed, cache, lock>>
  BY DEF Next, vars, stored, decision, process, calls, Generate, Begin, Lookup,
         ReadActive, CheckParent, StoreProposal, WriteLatest, CacheResult,
         GenerationFails, Decide, MigrateLegacy, ClearCache, Deploy

(* An approval that stopped half way can be completed: its proposal is ready. *)
LEMMA ReadyIsRepairable == ApprovalsAreReady => HalfDoneIsRepairable
  BY DEF ApprovalsAreReady, HalfDoneIsRepairable, Decidable

LEMMA InitDecides == Init => DecisionInv
<1> SUFFICES ASSUME Init PROVE DecisionInv
  OBVIOUS
<1>1. DecisionTypes /\ ApprovalsAreReady
  BY OptimizerAssumption
  DEF Init, DecisionTypes, ApprovalsAreReady, Verdicts
<1>2. OneDecision
  BY <1>1, ReadyIsRepairable DEF Init, OneDecision
<1> QED
  BY <1>1, <1>2 DEF DecisionInv

(* A decision writes a prefix of its five files.                            *)
LEMMA DecisionHolds ==
    ASSUME DecisionInv, NEW p \in Proposals, NEW v \in Verdicts, NEW n \in 0 .. 5,
           Decidable(p, v), WriteFiles(p, v, n), UNCHANGED stored
    PROVE  DecisionInv'
<1> USE DEF stored
<1>1. DecisionTypes /\ ApprovalsAreReady /\ OneDecision /\ UNCHANGED body
  BY DEF DecisionInv
<1>2. /\ intent' = IF n >= 1 THEN [intent EXCEPT ![p] = v] ELSE intent
      /\ records' = IF n >= 2 THEN records \cup {<<p, v>>} ELSE records
      /\ history' = IF n >= 3 /\ v = "approve" THEN ExtendHistory(p) ELSE history
      /\ active' = IF n >= 4 /\ v = "approve" THEN p ELSE active
      /\ served' = served \cup {active'}
      /\ decided' = IF n >= 5 THEN [decided EXCEPT ![p] = v] ELSE decided
  BY DEF WriteFiles
<1>3. /\ Stored(p) /\ decided[p] = Absent /\ intent[p] \in {Absent, v}
      /\ v = "approve" => body[p].kind = "ready"
  BY DEF Decidable
<1>4. /\ history' \in Seq(Proposals \cup {Legacy})
      /\ \A q : q \in ToSet(history) => q \in ToSet(history')
      /\ n >= 3 /\ v = "approve" => p \in ToSet(history')
  BY <1>1, <1>2, ExtensionLists DEF DecisionTypes
<1>5. DecisionTypes'
  <2>1. records' \subseteq Proposals \X Verdicts
    BY <1>1, <1>2 DEF DecisionTypes
  <2>2. /\ intent' \in [Proposals -> Verdicts \cup {Absent}]
        /\ decided' \in [Proposals -> Verdicts \cup {Absent}]
    BY <1>1, <1>2 DEF DecisionTypes
  <2> QED
    BY <1>1, <1>4, <2>1, <2>2 DEF DecisionTypes
<1>6. ApprovalsAreReady'
  BY <1>1, <1>2, <1>3 DEF ApprovalsAreReady, DecisionTypes, Stored
<1>7. \A r \in records' : intent'[r[1]] = r[2]
  <2> SUFFICES ASSUME NEW r \in records' PROVE intent'[r[1]] = r[2]
    OBVIOUS
  <2>1. CASE r \in records
    <3>1. intent[r[1]] = r[2] /\ r[1] \in Proposals /\ r[2] \in Verdicts
      BY <1>1, <2>1 DEF OneDecision, DecisionTypes
    <3>2. r[1] = p => r[2] = v
      BY <1>3, <3>1, OptimizerAssumption
    <3> QED
      BY <1>1, <1>2, <3>1, <3>2 DEF DecisionTypes
  <2>2. CASE r \notin records
    <3>1. n >= 2 /\ r = <<p, v>>
      BY <1>2, <2>2
    <3>2. n >= 1
      BY <3>1
    <3> QED
      BY <1>1, <1>2, <3>1, <3>2 DEF DecisionTypes
  <2> QED
    BY <2>1, <2>2
<1>8. ASSUME NEW q \in Proposals, decided'[q] # Absent
      PROVE  /\ <<q, decided'[q]>> \in records'
             /\ decided'[q] = "approve" => q \in ToSet(history') /\ q \in served'
  <2>1. CASE decided[q] # Absent
    <3>1. /\ q # p /\ decided'[q] = decided[q]
          /\ <<q, decided[q]>> \in records
          /\ decided[q] = "approve" => q \in ToSet(history) /\ q \in served
      BY <1>1, <1>2, <1>3, <2>1 DEF OneDecision, DecisionTypes
    <3> QED
      BY <1>2, <1>4, <3>1
  <2>2. CASE decided[q] = Absent
    <3>1. n >= 5 /\ q = p /\ decided'[q] = v
      BY <1>1, <1>2, <1>8, <2>2 DEF DecisionTypes
    <3>2. n >= 2 /\ n >= 3 /\ n >= 4
      BY <3>1
    <3> QED
      BY <1>2, <1>4, <3>1, <3>2
  <2> QED
    BY <2>1, <2>2
<1>9. OneDecision'
  <2>1. HalfDoneIsRepairable'
    BY <1>6, ReadyIsRepairable, PTL
  <2> QED
    BY <1>7, <1>8, <2>1 DEF OneDecision
<1> QED
  BY <1>5, <1>6, <1>9 DEF DecisionInv

LEMMA StepDecides == DecisionInv /\ [Next]_vars => DecisionInv'
<1> SUFFICES ASSUME DecisionInv, [Next]_vars PROVE DecisionInv'
  OBVIOUS
<1>1. CASE \E p \in Proposals, v \in Verdicts, n \in 0 .. 5 :
              Decidable(p, v) /\ WriteFiles(p, v, n) /\ UNCHANGED <<world, stored, calls, deployed, cache, lock>>
  BY <1>1, DecisionHolds
<1>2. CASE UNCHANGED <<intent, records, catalog, history, decided>> /\ served \subseteq served'
  <2>1. /\ body' = [p \in Proposals |-> body'[p]]
        /\ \A p \in Proposals : Stored(p) => body'[p] = body[p] /\ Stored(p)'
    BY BodiesStay DEF DecisionInv, DecisionTypes
  <2>2. DecisionTypes' /\ ApprovalsAreReady'
    BY <1>2, <2>1 DEF DecisionInv, DecisionTypes, ApprovalsAreReady
  <2>3. HalfDoneIsRepairable'
    BY <2>2, ReadyIsRepairable, PTL
  <2>4. OneDecision'
    BY <1>2, <2>3 DEF DecisionInv, OneDecision
  <2> QED
    BY <2>2, <2>4 DEF DecisionInv
<1> QED
  BY <1>1, <1>2, OnlyDecisionsDecide

(* Whatever the search computes: one decision per proposal, complete when   *)
(* it is reported, and repairable when it is not.                           *)
THEOREM DecisionsAreFinal == Spec => []OneDecision
<1>1. DecisionInv => OneDecision
  BY DEF DecisionInv
<1> QED
  BY <1>1, InitDecides, StepDecides, PTL DEF Spec

(* Whatever the search computes: the active strategy moves only to a ready  *)
(* proposal for it, made by the deployed code and approved on disk.         *)
THEOREM ActivationsAreApproved == Spec => ActiveMovesByApproval
<1>1. ASSUME [Next]_vars, active' # active
      PROVE  \/ active = Legacy /\ active' = Migrated
             \/ /\ active' \in Proposals
                /\ body[active'].parent = active
                /\ body[active'].kind = "ready"
                /\ body[active'].code = deployed
                /\ <<active', "approve">> \in records'
  <2>1. ASSUME NEW p \in Proposals, NEW v \in Verdicts, Decide(p, v)
        PROVE  /\ active' = p /\ p # active
               /\ body[p].parent = active
               /\ body[p].kind = "ready" /\ body[p].code = deployed
               /\ <<p, "approve">> \in records'
    <3>1. PICK n \in 0 .. 5 : Decidable(p, v) /\ WriteFiles(p, v, n)
      BY <1>1, <2>1 DEF Decide, decision
    <3>2. n >= 4 /\ v = "approve" /\ active' = p
      BY <1>1, <3>1 DEF WriteFiles
    <3>3. n >= 2
      BY <3>2
    <3>4. <<p, "approve">> \in records'
      BY <3>1, <3>2, <3>3 DEF WriteFiles
    <3> QED
      BY <1>1, <3>1, <3>2, <3>4 DEF Decidable
  <2>2. \/ active = Legacy /\ active' = Migrated
        \/ \E p \in Proposals, v \in Verdicts : Decide(p, v)
    BY <1>1
    DEF Next, vars, stored, decision, process, calls, Generate, Begin, Lookup,
        ReadActive, CheckParent, StoreProposal, WriteLatest, CacheResult,
        GenerationFails, MigrateLegacy, ClearCache, Deploy
  <2> QED
    BY <2>1, <2>2
<1> QED
  BY <1>1, PTL DEF Spec, ActiveMovesByApproval
-----------------------------------------------------------------------------
(* Proposals.                                                               *)

(* Stored proposals and what was made for them stay what they are.          *)
LEMMA ProposalsStay ==
    ASSUME ProposalInv, [Next]_vars
    PROVE  /\ \A a \in Actives : ActiveFits(a) => ActiveFits(a)' /\ StrategyOf(a)' = StrategyOf(a)
           /\ \A p \in Proposals : Stored(p) => BodyFits(p)'
<1>1. \A p \in Proposals : Stored(p) => body'[p] = body[p] /\ Stored(p)'
  BY BodiesStay DEF ProposalInv, TypeOK
<1>2. ASSUME NEW a \in Actives, ActiveFits(a)
      PROVE  ActiveFits(a)' /\ StrategyOf(a)' = StrategyOf(a)
  <2>1. a \in Proposals => Ready(a) /\ Ready(a)' /\ body'[a] = body[a]
    BY <1>1, <1>2 DEF ActiveFits, Ready
  <2>2. StrategyOf(a)' = StrategyOf(a)
    <3>1. CASE a \in Proposals
      BY <2>1, <3>1 DEF StrategyOf
    <3>2. CASE a \notin Proposals
      BY <3>2 DEF StrategyOf, Actives
    <3> QED
      BY <3>1, <3>2
  <2> QED
    BY <2>1, <2>2 DEF ActiveFits
<1>3. ASSUME NEW p \in Proposals, Stored(p)
      PROVE  BodyFits(p)'
  <2>1. /\ BodyFits(p) /\ Stored(p)' /\ body'[p] = body[p]
    BY <1>1, <1>3 DEF ProposalInv
  <2>2. PICK a \in Actives : a = body[p].parent
    BY <1>3 DEF ProposalInv, TypeOK, Body, Stored
  <2>3. a = body'[p].parent
    BY <2>1, <2>2
  <2>4. ActiveFits(a)
    BY <1>3, <2>1, <2>2 DEF BodyFits, ActiveFits
  <2>5. ActiveFits(a)' /\ StrategyOf(a)' = StrategyOf(a)
    BY <1>2, <2>4
  <2>6. body'[p].kind = "ready" =>
           body'[p].strategy \in Strategies \ {StrategyOf(body[p].parent)'}
    <3>1. StrategyOf(body[p].parent) = StrategyOf(a)
      BY <2>2
    <3>2. StrategyOf(body[p].parent)' = StrategyOf(a)'
      BY <2>3
    <3> QED
      BY <1>3, <2>1, <2>5, <3>1, <3>2 DEF BodyFits
  <2>7. body'[p].parent \in Proposals => Ready(body[p].parent)'
    BY <2>3, <2>5 DEF ActiveFits
  <2> QED
    BY <2>6, <2>7 DEF BodyFits
<1> QED
  BY <1>2, <1>3

LEMMA StrategyIsBaseline ==
    ASSUME ProposalInv, NEW a \in Actives, ActiveFits(a)
    PROVE  StrategyOf(a) \in Baselines
<1>1. CASE a \in Proposals
  BY <1>1 DEF ActiveFits, Ready, ProposalInv, BodyFits, StrategyOf, Baselines
<1>2. CASE a \notin Proposals
  BY <1>2 DEF Actives, StrategyOf, Baselines
<1> QED
  BY <1>1, <1>2

(* A proposal for what a request has seen is well formed, and records it.   *)
LEMMA NewProposal ==
    ASSUME ProposalInv, NEW t \in Threads, at[t] = "store"
    PROVE  LET seen == call[t].seen
               b    == Proposal(seen, StrategyOf(seen), deployed)
           IN /\ b \in Body
              /\ b.parent = seen /\ b.code = deployed
              /\ ActiveFits(seen)
              /\ b.kind = "ready" => b.strategy \in Strategies \ {StrategyOf(seen)}
<1> DEFINE seen  == call[t].seen
           s     == StrategyOf(seen)
           w     == world[deployed]
           found == Searches[w][s]
           b     == Proposal(seen, s, deployed)
<1>1. /\ seen \in Actives \ {Legacy} /\ ActiveFits(seen)
      /\ deployed \in Codes /\ w \in DOMAIN Worlds
  BY DEF ProposalInv, TypeOK, RequestFits, Call
<1>2. s \in Baselines
  BY <1>1, StrategyIsBaseline
<1> HIDE DEF s, w
<1>4. b = [parent |-> seen, code |-> deployed, kind |-> found.kind,
           strategy |-> found.strategy]
  BY DEF Proposal, w
<1>5. /\ found.kind \in Kinds
      /\ found.strategy \in Strategies \cup {Engineering}
      /\ found.kind = "ready" => found.strategy \in Strategies \ {s}
  BY <1>1, <1>2, SearchAlwaysFits DEF SearchFits
<1> HIDE DEF found, b, seen
<1>6. b \in Body
  BY <1>1, <1>4, <1>5 DEF Body
<1> QED
  BY <1>1, <1>4, <1>5, <1>6 DEF s, b, seen

LEMMA InitProposes == Init => ProposalInv
<1> SUFFICES ASSUME Init PROVE ProposalInv
  OBVIOUS
<1>1. TypeOK
  <2>1. <<>> \in Seq(Proposals \cup {Legacy})
    OBVIOUS
  <2>2. NoCall \in Call
    BY DEF NoCall, Call, Actives
  <2>3. catalog \in [Strategies \cup {LegacyStrategy} -> Proposals \cup {Legacy, Absent}]
    BY DEF Init
  <2> QED
    BY <2>1, <2>2, <2>3 DEF Init, TypeOK, EmptyCache, Actives, Steps
<1> QED
  BY <1>1, OptimizerAssumption
  DEF Init, ProposalInv, BodyFits, ActiveFits, RequestFits, CacheFits, CacheIsFresh,
      Stored, EmptyCache, Actives

(* Ending or starting over a request keeps the types.                       *)
LEMMA RequestTypes ==
    ASSUME TypeOK, NEW t \in Threads
    PROVE  /\ \A p \in Proposals \cup {Absent} :
                 [NoCall EXCEPT !.result = p] \in Call
           /\ [NoCall EXCEPT !.attempt = 2] \in Call
           /\ NoCall \in Call
           /\ \A a \in Actives : /\ [call[t] EXCEPT !.key = a] \in Call
                                 /\ [call[t] EXCEPT !.seen = a] \in Call
           /\ \A p \in Proposals : [call[t] EXCEPT !.result = p] \in Call
  BY DEF TypeOK, NoCall, Call, Actives

LEMMA StepTypes ==
    ASSUME ProposalInv, [Next]_vars
    PROVE  TypeOK'
<1>1. TypeOK /\ \A t \in Threads : RequestFits(t)
  BY DEF ProposalInv
<1> USE DEF stored, decision, process, calls, Goto
<1>2. ASSUME NEW t \in Threads, NEW p \in Proposals \cup {Absent}, Return(t, p),
             lock' = lock \/ FreeLock(t), UNCHANGED <<world, stored, decision, deployed, clearing>>,
             cache' \in [Actives -> Proposals \cup {Absent}]
      PROVE  TypeOK'
  BY <1>1, <1>2, RequestTypes DEF Return, FreeLock, TypeOK, Steps
<1>3. ASSUME NEW t \in Threads, Again(t),
             UNCHANGED <<world, stored, decision, deployed, clearing, cache>>
      PROVE  TypeOK'
  <2>1. CASE call[t].attempt = 1
    BY <1>1, <1>3, <2>1, RequestTypes DEF Again, FreeLock, TypeOK, Steps
  <2>2. CASE call[t].attempt # 1
    BY <1>1, <1>2, <1>3, <2>2 DEF Again, TypeOK
  <2> QED
    BY <2>1, <2>2
<1>4. ASSUME NEW t \in Threads, Begin(t) PROVE TypeOK'
  BY <1>1, <1>4, RequestTypes DEF Begin, TypeOK, Steps
<1>5. ASSUME NEW t \in Threads, Lookup(t) PROVE TypeOK'
  <2>1. CASE cache[active] # Absent
    BY <1>1, <1>2, <1>5, <2>1 DEF Lookup, TypeOK
  <2>2. CASE cache[active] = Absent
    <3>1. call' = [call EXCEPT ![t] = [call[t] EXCEPT !.key = active]]
      BY <1>5, <2>2 DEF Lookup
    <3>2. t \in Cached
      BY <1>1, <1>5 DEF RequestFits, Lookup
    <3>3. [call[t] EXCEPT !.key = active] \in Call
      BY <1>1, RequestTypes DEF TypeOK
    <3> QED
      BY <1>1, <1>5, <2>2, <3>1, <3>2, <3>3 DEF Lookup, TypeOK, Steps
  <2> QED
    BY <2>1, <2>2
<1>6. ASSUME NEW t \in Threads, ReadActive(t) PROVE TypeOK'
  <2>1. call' = [call EXCEPT ![t] = [call[t] EXCEPT !.seen = active]]
    BY <1>6 DEF ReadActive
  <2>2. [call[t] EXCEPT !.seen = active] \in Call
    BY <1>1, RequestTypes DEF TypeOK
  <2> QED
    BY <1>1, <1>6, <2>1, <2>2 DEF ReadActive, TypeOK, Steps
<1>7. ASSUME NEW t \in Threads, CheckParent(t) PROVE TypeOK'
  <2>1. CASE active = call[t].seen
    BY <1>1, <1>7, <2>1 DEF CheckParent, TypeOK, Steps
  <2>2. CASE active # call[t].seen
    BY <1>3, <1>7, <2>2 DEF CheckParent
  <2> QED
    BY <2>1, <2>2
<1>8. ASSUME NEW t \in Threads, StoreProposal(t) PROVE TypeOK'
  <2> DEFINE b == Proposal(call[t].seen, StrategyOf(call[t].seen), deployed)
  <2>1. b \in Body
    BY <1>8, NewProposal DEF StoreProposal
  <2>2. PICK p \in Proposals :
           /\ body' = [body EXCEPT ![p] = b]
           /\ call' = [call EXCEPT ![t] = [call[t] EXCEPT !.result = p]]
    BY <1>8 DEF StoreProposal
  <2> HIDE DEF b
  <2>3. body' \in [Proposals -> Body \cup {Absent}]
    BY <1>1, <2>1, <2>2 DEF TypeOK
  <2>4. call' \in [Threads -> Call]
    BY <1>1, <2>2, RequestTypes DEF TypeOK
  <2> QED
    BY <1>1, <1>8, <2>3, <2>4 DEF StoreProposal, TypeOK, Steps
<1>9. ASSUME NEW t \in Threads, WriteLatest(t) PROVE TypeOK'
  <2>1. call[t].result \in Proposals
    BY <1>1, <1>9 DEF RequestFits, WriteLatest
  <2>2. call' \in [Threads -> Call] /\ at' \in [Threads -> Steps]
    <3>1. CASE t \in Cached
      BY <1>1, <1>9, <3>1 DEF WriteLatest, TypeOK, Steps
    <3>2. CASE t \notin Cached
      <4>1. Return(t, call[t].result)
        BY <1>9, <3>2 DEF WriteLatest
      <4>2. at' \in [Threads -> Steps]
        BY <1>1, <4>1 DEF TypeOK, Return, Steps
      <4>3. call' \in [Threads -> Call]
        BY <1>1, <2>1, <4>1, RequestTypes DEF TypeOK, Return
      <4> QED
        BY <4>2, <4>3
    <3> QED
      BY <3>1, <3>2
  <2> QED
    BY <1>1, <1>9, <2>1, <2>2 DEF WriteLatest, TypeOK
<1>10. ASSUME NEW t \in Threads, CacheResult(t) PROVE TypeOK'
  <2>1. CASE body[call[t].result].parent = call[t].key /\ active = call[t].key
    <3>1. call[t].result \in Proposals
      BY <1>1, <1>10 DEF RequestFits, CacheResult
    <3> QED
      BY <1>1, <1>2, <1>10, <2>1, <3>1 DEF CacheResult, TypeOK
  <2>2. CASE ~ (body[call[t].result].parent = call[t].key /\ active = call[t].key)
    BY <1>3, <1>10, <2>2 DEF CacheResult
  <2> QED
    BY <2>1, <2>2
<1>11. ASSUME NEW t \in Threads, GenerationFails(t) PROVE TypeOK'
  BY <1>1, <1>2, <1>11 DEF GenerationFails, TypeOK
<1>12. ASSUME NEW p \in Proposals, NEW v \in Verdicts, Decide(p, v) PROVE TypeOK'
  <2>1. CASE \E n \in 0 .. 5 : Decidable(p, v) /\ WriteFiles(p, v, n)
                               /\ clearing' = (clearing \/ n = 5)
    <3>1. PICK n \in 0 .. 5 : Decidable(p, v) /\ WriteFiles(p, v, n)
                              /\ clearing' = (clearing \/ n = 5)
      BY <2>1
    <3>2. UNCHANGED <<world, stored, deployed, cache, lock, calls>>
      BY <1>12, <3>1 DEF Decide
    <3>3. /\ intent' \in [Proposals -> Verdicts \cup {Absent}]
          /\ decided' \in [Proposals -> Verdicts \cup {Absent}]
          /\ records' \subseteq Proposals \X Verdicts
          /\ active' \in Actives /\ served' \subseteq Actives
      BY <1>1, <3>1 DEF WriteFiles, TypeOK, Actives
    <3>4. history' \in Seq(Proposals \cup {Legacy})
      BY <1>1, <3>1, ExtensionLists DEF WriteFiles, TypeOK
    <3>5. catalog' \in [Strategies \cup {LegacyStrategy} -> Proposals \cup {Legacy, Absent}]
      BY <1>1, <3>1 DEF WriteFiles, TypeOK
    <3> QED
      BY <1>1, <3>1, <3>2, <3>3, <3>4, <3>5 DEF TypeOK
  <2>2. CASE ~ \E n \in 0 .. 5 : Decidable(p, v) /\ WriteFiles(p, v, n)
                                 /\ clearing' = (clearing \/ n = 5)
    BY <1>1, <1>12, <2>2 DEF Decide, TypeOK
  <2> QED
    BY <2>1, <2>2
<1>13. CASE MigrateLegacy
  BY <1>1, <1>13 DEF MigrateLegacy, TypeOK, Actives
<1>14. CASE ClearCache
  BY <1>1, <1>14 DEF ClearCache, TypeOK, EmptyCache
<1>15. ASSUME NEW code \in Codes, Deploy(code) PROVE TypeOK'
  BY <1>1, <1>15, RequestTypes DEF Deploy, TypeOK, EmptyCache, Steps, NoCall, Call, Actives
<1>16. CASE UNCHANGED vars
  BY <1>1, <1>16 DEF vars, TypeOK
<1> QED
  BY <1>4, <1>5, <1>6, <1>7, <1>8, <1>9, <1>10, <1>11, <1>12, <1>13, <1>14, <1>15,
     <1>16
  DEF Next, Generate

LEMMA StepBodies ==
    ASSUME ProposalInv, [Next]_vars, NEW p \in Proposals
    PROVE  BodyFits(p)'
<1>1. CASE Stored(p)
  BY <1>1, ProposalsStay
<1>2. CASE ~ Stored(p)
  <2> SUFFICES ASSUME Stored(p)' PROVE BodyFits(p)'
    BY DEF BodyFits
  <2>1. PICK t \in Threads : StoreProposal(t)
    BY <1>2
    DEF Next, vars, stored, decision, process, calls, Stored, Generate, Begin, Lookup,
        ReadActive, CheckParent, WriteLatest, CacheResult, GenerationFails, Decide,
        MigrateLegacy, ClearCache, Deploy
  <2>2. PICK a \in Actives : a = call[t].seen
    BY DEF ProposalInv, TypeOK, Call
  <2> DEFINE b == Proposal(a, StrategyOf(a), deployed)
  <2>3. /\ b \in Body /\ b.parent = a /\ ActiveFits(a)
        /\ b.kind = "ready" => b.strategy \in Strategies \ {StrategyOf(a)}
    BY <2>1, <2>2, NewProposal DEF StoreProposal
  <2>4. \E q \in Proposals : body' = [body EXCEPT ![q] = b]
    BY <2>1, <2>2 DEF StoreProposal
  <2>5. body'[p] = b
    BY <1>2, <2>4 DEF Stored, ProposalInv, TypeOK
  <2>6. ActiveFits(a)' /\ StrategyOf(a)' = StrategyOf(a)
    BY <2>3, ProposalsStay
  <2> HIDE DEF b
  <2>7. PICK c : c = b
    OBVIOUS
  <2>8. /\ body'[p] = c /\ c.parent = a
        /\ c.kind = "ready" => c.strategy \in Strategies \ {StrategyOf(a)}
    BY <2>3, <2>5, <2>7
  <2>9. a = body'[p].parent
    BY <2>8
  <2>10. StrategyOf(body[p].parent)' = StrategyOf(a)'
    BY <2>9
  <2> QED
    BY <2>6, <2>8, <2>9, <2>10 DEF BodyFits, ActiveFits
<1> QED
  BY <1>1, <1>2

LEMMA StepActive ==
    ASSUME ProposalInv, [Next]_vars
    PROVE  ActiveFits(active)'
<1>1. CASE active' = active
  <2>1. PICK a \in Actives : a = active
    BY DEF ProposalInv, TypeOK
  <2>2. ActiveFits(a)'
    BY <2>1, ProposalsStay DEF ProposalInv
  <2> QED
    BY <1>1, <2>1, <2>2 DEF ActiveFits
<1>2. ASSUME NEW p \in Proposals, NEW v \in Verdicts, NEW n \in 0 .. 5,
             Decidable(p, v), WriteFiles(p, v, n), UNCHANGED body, active' # active
      PROVE  ActiveFits(active)'
  <2>1. v = "approve" /\ active' = p
    BY <1>2 DEF WriteFiles
  <2> QED
    BY <1>2, <2>1 DEF Decidable, ActiveFits, Ready, Stored
<1>3. CASE MigrateLegacy
  BY <1>3, OptimizerAssumption DEF MigrateLegacy, ActiveFits
<1>4. \/ active' = active
      \/ MigrateLegacy
      \/ \E p \in Proposals, v \in Verdicts, n \in 0 .. 5 :
            Decidable(p, v) /\ WriteFiles(p, v, n) /\ UNCHANGED body
  BY DEF Next, vars, stored, decision, process, calls, Generate, Begin, Lookup,
         ReadActive, CheckParent, StoreProposal, WriteLatest, CacheResult,
         GenerationFails, Decide, ClearCache, Deploy
<1> QED
  BY <1>1, <1>2, <1>3, <1>4

(* A step of one request, and of what it shares with the others.            *)
LEMMA StepRequests ==
    ASSUME ProposalInv, [Next]_vars, NEW u \in Threads
    PROVE  RequestFits(u)'
<1>1. TypeOK /\ RequestFits(u)
  BY DEF ProposalInv
<1>2. /\ \A a \in Actives : ActiveFits(a) => ActiveFits(a)'
      /\ \A p \in Proposals : Stored(p) => body'[p] = body[p] /\ Stored(p)'
  BY ProposalsStay, BodiesStay DEF ProposalInv, TypeOK
<1> USE DEF stored, decision, process, calls, Goto
<1>3. ASSUME UNCHANGED <<at[u], call[u], deployed>> PROVE RequestFits(u)'
  <2>1. PICK a \in Actives : a = call[u].seen
    BY <1>1 DEF TypeOK, Call
  <2>2. PICK p \in Proposals \cup {Absent} : p = call[u].result
    BY <1>1 DEF TypeOK, Call
  <2>3. at[u] \in {"check", "store"} => a # Legacy /\ ActiveFits(a)'
    BY <1>1, <1>2, <2>1 DEF RequestFits
  <2>4. at[u] \in {"latest", "recheck"} =>
           p \in Proposals /\ Stored(p)' /\ body'[p].code = deployed
    BY <1>1, <1>2, <2>2 DEF RequestFits
  <2>5. a = call'[u].seen /\ p = call'[u].result
    BY <1>3, <2>1, <2>2
  <2>6. at'[u] \in {"check", "store"} =>
           call'[u].seen # Legacy /\ ActiveFits(call[u].seen)'
    BY <1>3, <2>3, <2>5
  <2>7. at'[u] \in {"latest", "recheck"} =>
           call'[u].result \in Proposals /\ Stored(call[u].result)'
             /\ body'[call'[u].result].code = deployed'
    BY <1>3, <2>4, <2>5
  <2>8. at'[u] \in {"lookup", "recheck"} => u \in Cached
    BY <1>1, <1>3 DEF RequestFits
  <2> QED
    BY <2>6, <2>7, <2>8 DEF RequestFits
<1>4. ASSUME NEW t \in Threads, NEW x, Return(t, x), UNCHANGED deployed
      PROVE  RequestFits(u)'
  <2>1. CASE u = t
    BY <1>1, <1>4, <2>1 DEF Return, RequestFits, TypeOK
  <2>2. CASE u # t
    BY <1>1, <1>3, <1>4, <2>2 DEF Return, TypeOK
  <2> QED
    BY <2>1, <2>2
<1>5. ASSUME NEW t \in Threads, Again(t), UNCHANGED deployed
      PROVE  RequestFits(u)'
  <2>1. CASE call[t].attempt # 1
    BY <1>4, <1>5, <2>1 DEF Again
  <2>2. CASE call[t].attempt = 1 /\ u = t
    BY <1>1, <1>5, <2>2 DEF Again, RequestFits, TypeOK
  <2>3. CASE call[t].attempt = 1 /\ u # t
    BY <1>1, <1>3, <1>5, <2>3 DEF Again, TypeOK
  <2> QED
    BY <2>1, <2>2, <2>3
<1>6. ASSUME NEW t \in Threads, Begin(t) PROVE RequestFits(u)'
  <2>1. CASE u = t
    BY <1>1, <1>6, <2>1 DEF Begin, RequestFits, TypeOK
  <2>2. CASE u # t
    BY <1>1, <1>3, <1>6, <2>2 DEF Begin, TypeOK
  <2> QED
    BY <2>1, <2>2
<1>7. ASSUME NEW t \in Threads, Lookup(t) PROVE RequestFits(u)'
  <2>1. CASE cache[active] # Absent
    BY <1>4, <1>7, <2>1 DEF Lookup
  <2>2. CASE cache[active] = Absent /\ u = t
    BY <1>1, <1>7, <2>2 DEF Lookup, RequestFits, TypeOK
  <2>3. CASE cache[active] = Absent /\ u # t
    BY <1>1, <1>3, <1>7, <2>3 DEF Lookup, TypeOK
  <2> QED
    BY <2>1, <2>2, <2>3
<1>8. ASSUME NEW t \in Threads, ReadActive(t) PROVE RequestFits(u)'
  <2>1. CASE u = t
    <3>1. /\ at'[u] = "check"
          /\ call'[u].seen = active /\ active # Legacy
      BY <1>1, <1>8, <2>1 DEF ReadActive, TypeOK, Call
    <3>2. PICK a \in Actives : a = active
      BY <1>1 DEF TypeOK
    <3>3. ActiveFits(a)'
      BY <1>2, <3>2 DEF ProposalInv
    <3>4. a = call'[u].seen
      BY <3>1, <3>2
    <3>5. ActiveFits(call[u].seen)'
      BY <3>3, <3>4
    <3> QED
      BY <3>1, <3>2, <3>4, <3>5 DEF RequestFits
  <2>2. CASE u # t
    BY <1>1, <1>3, <1>8, <2>2 DEF ReadActive, TypeOK
  <2> QED
    BY <2>1, <2>2
<1>9. ASSUME NEW t \in Threads, CheckParent(t) PROVE RequestFits(u)'
  <2>1. CASE active # call[t].seen
    BY <1>5, <1>9, <2>1 DEF CheckParent
  <2>2. CASE active = call[t].seen /\ u = t
    <3>1. PICK a \in Actives : a = call[u].seen
      BY <1>1 DEF TypeOK, Call
    <3>2. /\ at'[u] = "store" /\ a # Legacy /\ ActiveFits(a)'
          /\ a = call'[u].seen
      BY <1>1, <1>2, <1>9, <2>2, <3>1 DEF CheckParent, RequestFits, TypeOK
    <3>3. ActiveFits(call[u].seen)'
      BY <3>2
    <3> QED
      BY <3>2, <3>3 DEF RequestFits
  <2>3. CASE active = call[t].seen /\ u # t
    BY <1>1, <1>3, <1>9, <2>3 DEF CheckParent, TypeOK
  <2> QED
    BY <2>1, <2>2, <2>3
<1>10. ASSUME NEW t \in Threads, StoreProposal(t) PROVE RequestFits(u)'
  <2>1. CASE u = t
    <3> DEFINE b == Proposal(call[t].seen, StrategyOf(call[t].seen), deployed)
    <3>1. b \in Body /\ b.code = deployed
      BY <1>10, NewProposal DEF StoreProposal
    <3>2. PICK p \in Proposals :
             /\ body' = [body EXCEPT ![p] = b]
             /\ call' = [call EXCEPT ![t] = [call[t] EXCEPT !.result = p]]
      BY <1>10 DEF StoreProposal
    <3> HIDE DEF b
    <3>3. b # Absent
      BY <3>1, OptimizerAssumption
    <3>4. /\ Stored(p)' /\ body'[p].code = deployed'
          /\ at'[u] = "latest" /\ call'[u].result = p
      BY <1>1, <1>10, <2>1, <3>1, <3>2, <3>3 DEF StoreProposal, Stored, TypeOK, Call
    <3> QED
      BY <3>4 DEF RequestFits
  <2>2. CASE u # t
    BY <1>1, <1>3, <1>10, <2>2 DEF StoreProposal, TypeOK
  <2> QED
    BY <2>1, <2>2
<1>11. ASSUME NEW t \in Threads, WriteLatest(t) PROVE RequestFits(u)'
  <2>1. CASE t \notin Cached
    BY <1>4, <1>11, <2>1 DEF WriteLatest
  <2>2. CASE t \in Cached /\ u = t
    BY <1>1, <1>11, <2>2 DEF WriteLatest, RequestFits, TypeOK, Stored
  <2>3. CASE t \in Cached /\ u # t
    BY <1>1, <1>3, <1>11, <2>3 DEF WriteLatest, TypeOK
  <2> QED
    BY <2>1, <2>2, <2>3
<1>12. ASSUME NEW t \in Threads, CacheResult(t) PROVE RequestFits(u)'
  BY <1>4, <1>5, <1>12 DEF CacheResult
<1>13. ASSUME NEW t \in Threads, GenerationFails(t) PROVE RequestFits(u)'
  BY <1>4, <1>13 DEF GenerationFails
<1>14. ASSUME NEW p \in Proposals, NEW v \in Verdicts, Decide(p, v) PROVE RequestFits(u)'
  BY <1>3, <1>14 DEF Decide
<1>15. CASE MigrateLegacy \/ ClearCache \/ UNCHANGED vars
  BY <1>3, <1>15 DEF MigrateLegacy, ClearCache, vars
<1>16. ASSUME NEW code \in Codes, Deploy(code) PROVE RequestFits(u)'
  BY <1>16 DEF Deploy, RequestFits
<1> QED
  BY <1>6, <1>7, <1>8, <1>9, <1>10, <1>11, <1>12, <1>13, <1>14, <1>15, <1>16
  DEF Next, Generate

LEMMA StepCache ==
    ASSUME ProposalInv, [Next]_vars
    PROVE  CacheFits' /\ CacheIsFresh'
<1>1. TypeOK /\ CacheFits /\ CacheIsFresh
  BY DEF ProposalInv
<1>2. \A p \in Proposals : Stored(p) => body'[p] = body[p] /\ Stored(p)'
  BY <1>1, BodiesStay DEF TypeOK
<1> USE DEF stored, decision, process, calls
<1>3. CASE UNCHANGED <<cache, deployed>>
  BY <1>1, <1>2, <1>3 DEF CacheFits, CacheIsFresh, TypeOK
<1>4. CASE cache' = EmptyCache
  BY <1>4 DEF CacheFits, CacheIsFresh, EmptyCache
<1>5. ASSUME NEW t \in Threads, CacheResult(t)
      PROVE  CacheFits' /\ CacheIsFresh'
  <2>1. CASE body[call[t].result].parent = call[t].key /\ active = call[t].key
    <3>1. /\ call[t].result \in Proposals /\ call[t].key \in Actives
          /\ Stored(call[t].result) /\ body[call[t].result].code = deployed
      BY <1>1, <1>5 DEF CacheResult, ProposalInv, RequestFits, TypeOK, Call
    <3>2. /\ cache' = [cache EXCEPT ![call[t].key] = call[t].result]
          /\ UNCHANGED <<body, deployed>>
      BY <1>5, <2>1 DEF CacheResult
    <3>3. ASSUME NEW a \in Actives, cache'[a] # Absent
          PROVE  /\ body'[cache'[a]] # Absent
                 /\ body'[cache'[a]].parent = a /\ body'[cache'[a]].code = deployed'
      <4>1. CASE a = call[t].key
        BY <1>1, <2>1, <3>1, <3>2, <4>1 DEF TypeOK, Stored
      <4>2. CASE a # call[t].key
        BY <1>1, <3>2, <3>3, <4>2 DEF TypeOK, CacheFits, CacheIsFresh, Stored
      <4> QED
        BY <4>1, <4>2
    <3> QED
      BY <3>3 DEF CacheFits, CacheIsFresh, Stored
  <2>2. CASE ~ (body[call[t].result].parent = call[t].key /\ active = call[t].key)
    BY <1>3, <1>5, <2>2 DEF CacheResult
  <2> QED
    BY <2>1, <2>2
<1>6. \/ UNCHANGED <<cache, deployed>> \/ cache' = EmptyCache
      \/ \E t \in Threads : CacheResult(t)
  BY DEF Next, vars, Generate, Begin, Lookup, ReadActive, CheckParent, StoreProposal,
         WriteLatest, GenerationFails, Decide, MigrateLegacy, ClearCache, Deploy
<1> QED
  BY <1>3, <1>4, <1>5, <1>6

LEMMA StepProposes ==
    ASSUME ProposalInv, [Next]_vars
    PROVE  ProposalInv'
<1>1. TypeOK' /\ ActiveFits(active)' /\ CacheFits' /\ CacheIsFresh'
  BY StepTypes, StepActive, StepCache
<1>2. \A p \in Proposals : BodyFits(p)'
  BY StepBodies
<1>3. \A t \in Threads : RequestFits(t)'
  BY StepRequests
<1> QED
  BY <1>1, <1>2, <1>3 DEF ProposalInv

(* Every proposal that is stored, seen, cached or active is one that was    *)
(* generated, and a ready one for what was active then.                     *)
THEOREM ProposalInvariant == Spec => []ProposalInv
<1>1. ProposalInv /\ [Next]_vars => ProposalInv'
  BY StepProposes
<1> QED
  BY <1>1, InitProposes, PTL DEF Spec

THEOREM OptimizerTypes == Spec => []TypeOK
<1>1. ProposalInv => TypeOK
  BY DEF ProposalInv
<1> QED
  BY <1>1, ProposalInvariant, PTL

(* Whatever is cached is for the strategy it is looked up with, and made by *)
(* the code that runs.                                                      *)
THEOREM NothingStaleIsServed == Spec => []CacheIsFresh
<1>1. ProposalInv => CacheIsFresh
  BY DEF ProposalInv
<1> QED
  BY <1>1, ProposalInvariant, PTL

-----------------------------------------------------------------------------
(* The lineage.                                                             *)

LEMMA WorldStays == [Next]_vars => world' = world
  BY DEF Next, vars, Generate, Begin, Lookup, ReadActive, CheckParent, StoreProposal,
         WriteLatest, CacheResult, GenerationFails, Decide, MigrateLegacy, ClearCache,
         Deploy

LEMMA NewImproves ==
    ASSUME ProposalInv, NEW t \in Threads, at[t] = "store"
    PROVE  LET seen == call[t].seen
               b    == Proposal(seen, StrategyOf(seen), deployed)
           IN b.kind = "ready" =>
                 <<world[deployed], StrategyOf(seen), b.strategy>> \in Improvements
<1> DEFINE seen  == call[t].seen
           s     == StrategyOf(seen)
           w     == world[deployed]
           found == Searches[w][s]
<1>1. seen \in Actives /\ ActiveFits(seen) /\ w \in DOMAIN Worlds
  BY DEF ProposalInv, TypeOK, RequestFits, Call
<1>2. s \in Baselines
  BY <1>1, StrategyIsBaseline
<1> HIDE DEF s, w
<1>4. found.kind = "ready" => <<w, s, found.strategy>> \in Improvements
  BY <1>1, <1>2, SearchAlwaysImproves DEF SearchImproves
<1> QED
  BY <1>4 DEF Proposal, w, s

LEMMA StepImproves ==
    ASSUME ProposalInv, [Next]_vars, NEW p \in Proposals,
           Improving(p)
    PROVE  Improving(p)'
<1> USE WorldStays
<1>1. CASE Stored(p)
  <2>1. body'[p] = body[p] /\ Stored(p)'
    BY <1>1, BodiesStay DEF ProposalInv, TypeOK
  <2>2. PICK a \in Actives : a = body[p].parent
    BY <1>1 DEF ProposalInv, TypeOK, Body, Stored
  <2>3. ActiveFits(a)
    BY <1>1, <2>2 DEF ProposalInv, BodyFits, ActiveFits
  <2>4. StrategyOf(a)' = StrategyOf(a)
    BY <2>3, ProposalsStay
  <2>5. StrategyOf(body[p].parent) = StrategyOf(a)
    BY <2>2
  <2>6. a = body'[p].parent
    BY <2>1, <2>2
  <2>7. StrategyOf(body[p].parent)' = StrategyOf(a)'
    BY <2>6
  <2> QED
    BY <1>1, <2>1, <2>4, <2>5, <2>7 DEF Improving, Ready
<1>2. CASE ~ Stored(p)
  <2> SUFFICES ASSUME Stored(p)' PROVE Improving(p)'
    BY DEF Improving, Ready
  <2>1. PICK t \in Threads : StoreProposal(t)
    BY <1>2
    DEF Next, vars, stored, decision, process, calls, Stored, Generate, Begin, Lookup,
        ReadActive, CheckParent, WriteLatest, CacheResult, GenerationFails, Decide,
        MigrateLegacy, ClearCache, Deploy
  <2>2. PICK a \in Actives : a = call[t].seen
    BY DEF ProposalInv, TypeOK, Call
  <2> DEFINE b == Proposal(a, StrategyOf(a), deployed)
  <2>3. /\ b.parent = a /\ b.code = deployed /\ ActiveFits(a)
        /\ b.kind = "ready" => <<world[deployed], StrategyOf(a), b.strategy>> \in Improvements
    BY <2>1, <2>2, NewProposal, NewImproves DEF StoreProposal
  <2>4. \E q \in Proposals : body' = [body EXCEPT ![q] = b]
    BY <2>1, <2>2 DEF StoreProposal
  <2>5. body'[p] = b
    BY <1>2, <2>4 DEF Stored, ProposalInv, TypeOK
  <2>6. StrategyOf(a)' = StrategyOf(a)
    BY <2>3, ProposalsStay
  <2> HIDE DEF b
  <2>7. PICK c : c = b
    OBVIOUS
  <2>8. /\ body'[p] = c /\ c.parent = a /\ c.code = deployed
        /\ c.kind = "ready" => <<world[c.code], StrategyOf(a), c.strategy>> \in Improvements
    BY <2>3, <2>5, <2>7
  <2>9. a = body'[p].parent
    BY <2>8
  <2>10. StrategyOf(body[p].parent)' = StrategyOf(a)'
    BY <2>9
  <2> QED
    BY <2>6, <2>8, <2>10 DEF Improving, Ready
<1> QED
  BY <1>1, <1>2

(* A record of adoptions: each once, approved, and after its parent.        *)
Lineage(h, approvals) ==
    /\ \A i, j \in 1 .. Len(h) : h[i] = h[j] => i = j
    /\ \A i \in 1 .. Len(h) : h[i] \in Proposals =>
          /\ <<h[i], "approve">> \in approvals
          /\ body[h[i]].parent \in Proposals =>
                \E j \in 1 .. i - 1 : h[j] = body[h[i]].parent

LEMMA LineageOfBase ==
    ASSUME NEW R, history \in Seq(Proposals \cup {Legacy}), Lineage(history, R)
    PROVE  Lineage(HistoryBase, R)
<1>1. CASE history = <<>> /\ catalog[LegacyStrategy] = Legacy
  <2>1. HistoryBase = <<Legacy>>
    BY <1>1 DEF HistoryBase
  <2>2. Len(<<Legacy>>) = 1 /\ <<Legacy>>[1] = Legacy /\ Legacy \notin Proposals
    BY OptimizerAssumption
  <2> QED
    BY <2>1, <2>2 DEF Lineage
<1>2. CASE ~ (history = <<>> /\ catalog[LegacyStrategy] = Legacy)
  <2>1. HistoryBase = history
    BY <1>2 DEF HistoryBase
  <2> QED
    BY <2>1
<1> QED
  BY <1>1, <1>2

LEMMA LineageGrows ==
    ASSUME NEW R, NEW h \in Seq(Proposals \cup {Legacy}), Lineage(h, R), NEW p \in Proposals,
           p \notin ToSet(h), <<p, "approve">> \in R,
           body[p].parent \in Proposals => body[p].parent \in ToSet(h)
    PROVE  Lineage(Append(h, p), R)
<1> DEFINE g == Append(h, p)
<1>1. /\ Len(g) = Len(h) + 1 /\ Len(h) \in Nat
      /\ g[Len(h) + 1] = p
      /\ \A i \in 1 .. Len(h) : g[i] = h[i] /\ h[i] # p
  BY DEF ToSet
<1> HIDE DEF g
<1>2. \A i, j \in 1 .. Len(g) : g[i] = g[j] => i = j
  BY <1>1 DEF Lineage
<1>3. ASSUME NEW i \in 1 .. Len(g), g[i] \in Proposals
      PROVE  /\ <<g[i], "approve">> \in R
             /\ body[g[i]].parent \in Proposals =>
                   \E j \in 1 .. i - 1 : g[j] = body[g[i]].parent
  <2>1. CASE i \in 1 .. Len(h)
    <3>1. g[i] = h[i] /\ \A j \in 1 .. i - 1 : g[j] = h[j]
      BY <1>1, <2>1
    <3> QED
      BY <1>3, <2>1, <3>1 DEF Lineage
  <2>2. CASE i = Len(h) + 1
    <3>1. body[p].parent \in ToSet(h) => \E j \in 1 .. Len(h) : h[j] = body[p].parent
      BY DEF ToSet
    <3>2. i - 1 = Len(h) /\ g[i] = p
      BY <1>1, <2>2
    <3> QED
      BY <1>1, <3>1, <3>2
  <2> QED
    BY <1>1, <2>1, <2>2
<1> QED
  BY <1>2, <1>3 DEF Lineage, g

LEMMA StrategyOfProposal ==
    ASSUME NEW a \in Proposals
    PROVE  StrategyOf(a) = body[a].strategy
<1>1. a \notin {Legacy, Migrated} /\ a # NoActive
  BY OptimizerAssumption
<1> QED
  BY <1>1, Zenon DEF StrategyOf

LEMMA LegacyIsNoCandidate == LegacyStrategy \notin Strategies
<1>1. DOMAIN CandidateFor = {"numeric_token", "coverage_gap", "exact_phrase_displaced"}
  BY DEF CandidateFor
<1>2. \A k \in DOMAIN CandidateFor : CandidateFor[k] # LegacyStrategy
  BY DEF CandidateFor, LegacyStrategy
<1> QED
  BY <1>2 DEF Strategies, Conservative, LegacyStrategy

LEMMA InitLineage ==
    ASSUME Init
    PROVE  LineageInv
<1>1. ProposalInv /\ DecisionInv
  BY InitProposes, InitDecides
<1>2. AllImprove
  BY DEF AllImprove, Init, Improving, Ready, Stored
<1>3. HistoryIsLineage
  <2>1. ActiveIsListed
    <3>1. active \in {NoActive, Legacy} /\ active \notin Proposals /\ active # Migrated
      BY OptimizerAssumption DEF Init
    <3>2. catalog = [s \in Strategies \cup {LegacyStrategy} |->
                        IF active = Legacy /\ s = LegacyStrategy THEN Legacy ELSE Absent]
      BY DEF Init
    <3>3. active = Legacy => catalog[LegacyStrategy] = Legacy
      BY <3>2
    <3> QED
      BY <3>1, <3>3 DEF ActiveIsListed
  <2>2. DOMAIN history = {}
    BY DEF Init
  <2> QED
    BY <2>1, <2>2 DEF HistoryIsLineage
<1> QED
  BY <1>1, <1>2, <1>3 DEF LineageInv

(* An approval puts its proposal in the place of its strategy; no proposal  *)
(* takes the place of the version 1 strategy, nor that of its own parent.   *)
LEMMA ApprovalListsActive ==
    ASSUME ProposalInv, ActiveIsListed, NEW p \in Proposals, NEW n \in 0 .. 5,
           Decidable(p, "approve"), WriteFiles(p, "approve", n), UNCHANGED stored, n >= 3
    PROVE  ActiveIsListed'
<1> USE DEF stored
<1>1. /\ Stored(p) /\ body[p].kind = "ready" /\ body' = body
      /\ active \in {p, body[p].parent}
  BY DEF Decidable
<1>2. PICK a \in Actives : a = body[p].parent
  BY <1>1 DEF ProposalInv, TypeOK, Body, Stored
<1>3. PICK s : s = body[p].strategy
  OBVIOUS
<1>4. s \in Strategies /\ s # StrategyOf(a)
  <2>1. s \in Strategies \ {StrategyOf(body[p].parent)}
    BY <1>1, <1>3 DEF ProposalInv, BodyFits
  <2> QED
    BY <1>2, <2>1
<1>5. s # LegacyStrategy
  BY <1>4, LegacyIsNoCandidate
<1>6. /\ catalog' = [catalog EXCEPT ![s] = p]
      /\ history' = ExtendHistory(p)
      /\ active' \in {p, active}
  BY <1>3 DEF WriteFiles
<1>7. /\ p \in ToSet(history')
      /\ \A q : q \in ToSet(history) => q \in ToSet(history')
  BY <1>6, ExtensionLists DEF ProposalInv, TypeOK
<1>8. catalog'[s] = p /\ catalog'[LegacyStrategy] = catalog[LegacyStrategy]
  BY <1>4, <1>5, <1>6 DEF ProposalInv, TypeOK
<1>9. CASE active' = p
  BY <1>1, <1>3, <1>7, <1>8, <1>9, OptimizerAssumption DEF ActiveIsListed
<1>10. CASE active' # p
  <2>1. active' = active /\ active = a /\ a \in Actives
    BY <1>1, <1>2, <1>6, <1>10
  <2>2. CASE a \in Proposals
    <3>1. body[a].strategy # s
      <4>1. StrategyOf(a) = body[a].strategy
        BY <2>2, StrategyOfProposal
      <4> QED
        BY <1>4, <4>1
    <3>2. catalog[body[a].strategy] = a /\ a \in ToSet(history)
      BY <2>1, <2>2 DEF ActiveIsListed
    <3>3. body[a].strategy \in Strategies
      BY <2>1, <2>2 DEF ProposalInv, ActiveFits, Ready, BodyFits
    <3>4. catalog'[body[a].strategy] = a
      BY <1>6, <3>1, <3>2, <3>3 DEF ProposalInv, TypeOK
    <3> QED
      BY <1>1, <1>7, <2>1, <2>2, <3>2, <3>4, OptimizerAssumption DEF ActiveIsListed
  <2>3. CASE a \notin Proposals
    BY <1>8, <2>1, <2>3 DEF ActiveIsListed
  <2> QED
    BY <2>2, <2>3
<1> QED
  BY <1>9, <1>10

LEMMA StepLists ==
    ASSUME ProposalInv, ActiveIsListed, [Next]_vars
    PROVE  ActiveIsListed'
<1>1. \A p \in Proposals : Stored(p) => body'[p] = body[p]
  BY BodiesStay DEF ProposalInv, TypeOK
<1>2. active \in Proposals => body'[active] = body[active]
  BY <1>1 DEF ProposalInv, ActiveFits, Ready
<1>3. CASE UNCHANGED <<active, catalog, history>>
  BY <1>2, <1>3 DEF ActiveIsListed
<1>4. CASE MigrateLegacy
  BY <1>4, OptimizerAssumption DEF MigrateLegacy, stored, ActiveIsListed
<1>5. ASSUME NEW p \in Proposals, NEW v \in Verdicts, NEW n \in 0 .. 5,
             Decidable(p, v), WriteFiles(p, v, n), UNCHANGED stored
      PROVE  ActiveIsListed'
  <2>1. CASE n >= 3 /\ v = "approve"
    BY <1>5, <2>1, ApprovalListsActive
  <2>2. CASE ~ (n >= 3 /\ v = "approve")
    <3>1. ~ (n >= 4 /\ v = "approve")
      BY <2>2
    <3>2. UNCHANGED <<active, catalog, history>>
      BY <1>5, <2>2, <3>1 DEF WriteFiles
    <3> QED
      BY <1>3, <3>2
  <2> QED
    BY <2>1, <2>2
<1>6. \/ UNCHANGED <<active, catalog, history>> \/ MigrateLegacy
      \/ \E p \in Proposals, v \in Verdicts, n \in 0 .. 5 :
            Decidable(p, v) /\ WriteFiles(p, v, n) /\ UNCHANGED stored
  BY DEF Next, vars, stored, decision, process, calls, Generate, Begin, Lookup,
         ReadActive, CheckParent, StoreProposal, WriteLatest, CacheResult,
         GenerationFails, Decide, ClearCache, Deploy
<1> QED
  BY <1>3, <1>4, <1>5, <1>6

LEMMA LineageStays ==
    ASSUME NEW R, NEW h \in Seq(Proposals \cup {Legacy}), Lineage(h, R), NEW S, R \subseteq S,
           \A i \in 1 .. Len(h) : h[i] \in Proposals => body'[h[i]] = body[h[i]]
    PROVE  Lineage(h, S)'
<1>1. Lineage(h, S)
  BY DEF Lineage
<1> QED
  BY <1>1 DEF Lineage

(* What is listed was approved, hence ready, hence stays as it is.          *)
LEMMA ListedIsReady ==
    ASSUME DecisionInv, NEW p \in Proposals, <<p, "approve">> \in records
    PROVE  Ready(p)
<1>1. intent[p] = "approve"
  <2>1. PICK r \in records : r = <<p, "approve">>
    OBVIOUS
  <2>2. intent[r[1]] = r[2]
    BY DEF DecisionInv, OneDecision
  <2> QED
    BY <2>1, <2>2
<1> QED
  BY <1>1 DEF DecisionInv, ApprovalsAreReady, Ready

LEMMA LineageIsHistory ==
    DecisionInv /\ ActiveIsListed /\ AllImprove =>
       (HistoryIsLineage <=> Lineage(history, records))
<1> SUFFICES ASSUME DecisionInv, ActiveIsListed, AllImprove
             PROVE  HistoryIsLineage <=> Lineage(history, records)
  OBVIOUS
<1>1. DOMAIN history = 1 .. Len(history)
  BY DEF DecisionInv, DecisionTypes
<1>2. ASSUME NEW p \in Proposals, <<p, "approve">> \in records
      PROVE  <<world[body[p].code], StrategyOf(body[p].parent), body[p].strategy>>
                \in Improvements
  <2>1. Improving(p)
    BY DEF AllImprove
  <2>2. Ready(p)
    BY <1>2, ListedIsReady
  <2> QED
    BY <2>1, <2>2 DEF Improving
<1>3. ASSUME Lineage(history, records) PROVE HistoryIsLineage
  <2> SUFFICES ASSUME NEW i \in DOMAIN history, history[i] \in Proposals
               PROVE  /\ <<history[i], "approve">> \in records
                      /\ <<world[body[history[i]].code], StrategyOf(body[history[i]].parent),
                           body[history[i]].strategy>> \in Improvements
                      /\ body[history[i]].parent \in Proposals =>
                            \E j \in 1 .. i - 1 : history[j] = body[history[i]].parent
    BY <1>1, <1>3 DEF HistoryIsLineage, Lineage
  <2>1. /\ <<history[i], "approve">> \in records
        /\ body[history[i]].parent \in Proposals =>
              \E j \in 1 .. i - 1 : history[j] = body[history[i]].parent
    BY <1>1, <1>3 DEF Lineage
  <2> QED
    BY <1>2, <2>1
<1>4. ASSUME HistoryIsLineage PROVE Lineage(history, records)
  BY <1>1, <1>4 DEF HistoryIsLineage, Lineage
<1> QED
  BY <1>3, <1>4

(* An approval adds its proposal behind its parent, which was active.       *)
LEMMA ApprovalExtends ==
    ASSUME LineageInv, NEW p \in Proposals, NEW n \in 0 .. 5,
           Decidable(p, "approve"), WriteFiles(p, "approve", n), UNCHANGED stored, n >= 3
    PROVE  Lineage(history, records)'
<1> USE DEF stored
<1>1. /\ ProposalInv /\ DecisionInv /\ ActiveIsListed /\ Lineage(history, records)
  BY LineageIsHistory DEF LineageInv, HistoryIsLineage
<1>2. PICK R : R = records \cup {<<p, "approve">>}
  OBVIOUS
<1>3. n >= 2
  OBVIOUS
<1>4. records' = R /\ history' = ExtendHistory(p) /\ body' = body
  BY <1>2, <1>3 DEF WriteFiles
<1>5. history \in Seq(Proposals \cup {Legacy})
  BY <1>1 DEF ProposalInv, TypeOK
<1>6. Lineage(history, R)
  BY <1>1, <1>2 DEF Lineage
<1>7. PICK h : h = HistoryBase
  OBVIOUS
<1>8. /\ h \in Seq(Proposals \cup {Legacy})
      /\ \A q : q \in ToSet(history) => q \in ToSet(h)
      /\ Lineage(h, R)
  BY <1>5, <1>6, <1>7, BaseTypes, LineageOfBase
<1>9. PICK g : g = ExtendHistory(p)
  OBVIOUS
<1>10. Lineage(g, R)
  <2>1. CASE p \in ToSet(h)
    BY <1>7, <1>8, <1>9, <2>1 DEF ExtendHistory
  <2>2. CASE p \notin ToSet(h)
    <3>1. g = Append(h, p)
      BY <1>7, <1>9, <2>2 DEF ExtendHistory
    <3>2. active # p
      BY <1>1, <1>8, <2>2 DEF ActiveIsListed
    <3>3. active = body[p].parent
      BY <3>2 DEF Decidable
    <3>4. body[p].parent \in Proposals => body[p].parent \in ToSet(h)
      BY <1>1, <1>8, <3>3 DEF ActiveIsListed
    <3> QED
      BY <1>2, <1>8, <2>2, <3>1, <3>4, LineageGrows
  <2> QED
    BY <2>1, <2>2
<1>11. Lineage(g, R)'
  BY <1>4, <1>10 DEF Lineage
<1>12. g = history' /\ R = records'
  BY <1>4, <1>9
<1> QED
  BY <1>11, <1>12

LEMMA StepLineage ==
    ASSUME LineageInv, [Next]_vars
    PROVE  LineageInv'
<1>1. /\ ProposalInv /\ DecisionInv /\ ActiveIsListed /\ Lineage(history, records)
  BY LineageIsHistory DEF LineageInv, HistoryIsLineage
<1>2. ProposalInv' /\ DecisionInv' /\ ActiveIsListed'
  BY <1>1, StepProposes, StepDecides, StepLists
<1>3. AllImprove'
  BY StepImproves DEF LineageInv, AllImprove
<1>4. \A p \in Proposals : Stored(p) => body'[p] = body[p]
  BY <1>1, BodiesStay DEF ProposalInv, TypeOK
<1>5. ASSUME UNCHANGED history, records \subseteq records'
      PROVE  Lineage(history, records)'
  <2>1. PICK h \in Seq(Proposals \cup {Legacy}) : h = history
    BY <1>1 DEF ProposalInv, TypeOK
  <2>2. PICK R : R = records
    OBVIOUS
  <2>3. PICK S : S = records'
    OBVIOUS
  <2>4. Lineage(h, R)
    BY <1>1, <2>1, <2>2
  <2>5. ASSUME NEW i \in 1 .. Len(h), h[i] \in Proposals
        PROVE  body'[h[i]] = body[h[i]]
    <3>1. <<h[i], "approve">> \in records
      BY <2>2, <2>4, <2>5 DEF Lineage
    <3> QED
      BY <1>1, <1>4, <2>5, <3>1, ListedIsReady DEF Ready
  <2>6. Lineage(h, S)'
    BY <1>5, <2>2, <2>3, <2>4, <2>5, LineageStays
  <2>7. h = history' /\ S = records'
    BY <1>5, <2>1, <2>3
  <2> QED
    BY <2>6, <2>7
<1>6. ASSUME NEW p \in Proposals, NEW v \in Verdicts, NEW n \in 0 .. 5,
             Decidable(p, v), WriteFiles(p, v, n), UNCHANGED stored
      PROVE  Lineage(history, records)'
  <2>1. CASE n >= 3 /\ v = "approve"
    BY <1>6, <2>1, ApprovalExtends
  <2>2. CASE ~ (n >= 3 /\ v = "approve")
    BY <1>5, <1>6, <2>2 DEF WriteFiles
  <2> QED
    BY <2>1, <2>2
<1>7. Lineage(history, records)'
  BY <1>5, <1>6, OnlyDecisionsDecide
<1>8. HistoryIsLineage'
  BY <1>2, <1>3, <1>7, LineageIsHistory, PTL
<1> QED
  BY <1>2, <1>3, <1>8 DEF LineageInv

(* Crashes, retries and competing approvals: the catalog lists the active   *)
(* strategy, and the history is a record of approved improvements, each     *)
(* once and after the one it was built on.                                  *)
THEOREM HistoryIsALineage == Spec => []HistoryIsLineage
<1>1. LineageInv /\ [Next]_vars => LineageInv'
  BY StepLineage
<1>2. Init => LineageInv
  BY InitLineage
<1>3. LineageInv => HistoryIsLineage
  BY DEF LineageInv
<1> QED
  BY <1>1, <1>2, <1>3, PTL DEF Spec
=============================================================================
