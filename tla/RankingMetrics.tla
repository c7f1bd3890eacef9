--------------------------- MODULE RankingMetrics ---------------------------
(***************************************************************************)
(* The metrics of one ranked list: evaluation/metrics.py, and the labels'  *)
(* gains and relevance of evaluation/relevance.py with the policy file     *)
(* configs/evaluation/esci-primary-v1.json.                                *)
(*                                                                         *)
(* Reals are scaled to integers: a gain counts hundredths, a discount      *)
(* 1 / log2(rank + 1) is given in thousandths by the constant Discounts,   *)
(* and every metric is a number of Units.                                  *)
(***************************************************************************)
EXTENDS Integers, Sequences, FiniteSets, FiniteSetsExt, Functions, TLC

CONSTANTS Unit,       \* the integer that stands for 1.0
          Discounts   \* the discount of each rank a list can have

ASSUME MetricsAssumption ==
    /\ Unit \in Nat \ {0}
    /\ Discounts \in Seq(Nat \ {0})
    /\ \A r \in 2..Len(Discounts) : Discounts[r] < Discounts[r - 1]

Labels         == {"E", "S", "C", "I"}
Gain           == [E |-> 100, S |-> 10, C |-> 1, I |-> 0]
RelevantLabels == {"E", "S"}

Cut(list, k) == SubSeq(list, 1, Min({k, Len(list)}))

Dcg(gains, k) ==
    SumFunction([r \in DOMAIN Cut(gains, k) |-> gains[r] * Discounts[r]])

(* The members of a finite set, from first to last in an order that is      *)
(* linear on it; and the positions of a list of numbers, the largest number *)
(* first and equal ones in the order of the list.                           *)
Place(S, R, x) == Cardinality({y \in S : <<y, x>> \in R})
Listed(S, R)   == [r \in 1..Cardinality(S) |-> CHOOSE x \in S : Place(S, R, x) = r]

ByValue(values) ==
    {p \in (DOMAIN values) \X (DOMAIN values) :
        \/ values[p[1]] > values[p[2]]
        \/ values[p[1]] = values[p[2]] /\ p[1] <= p[2]}
Descending(values) == Listed(DOMAIN values, ByValue(values))

(* A list is measured against the best order of everything that was judged; *)
(* a list that beats it is not a ranking of the judged products.            *)
Ideal(judged, k) ==
    Dcg([r \in DOMAIN judged |-> judged[Descending(judged)[r]]], k)
Measurable(gains, judged, k) == Dcg(gains, k) <= Ideal(judged, k)
Ndcg(gains, judged, k) ==
    IF Ideal(judged, k) = 0 THEN 0
    ELSE (Unit * Dcg(gains, k)) \div Ideal(judged, k)

ReciprocalRank(relevant, k) ==
    LET first == {r \in DOMAIN Cut(relevant, k) : relevant[r]}
    IN IF first = {} THEN 0 ELSE Unit \div Min(first)

(* The hits cannot exceed the total the caller declares.                    *)
Hits(relevant, k)          == Cardinality({r \in DOMAIN Cut(relevant, k) : relevant[r]})
Recall(relevant, total, k) == (Unit * Hits(relevant, k)) \div total
Success(relevant, k)       == IF Hits(relevant, k) > 0 THEN Unit ELSE 0
=============================================================================
