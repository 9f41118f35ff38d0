--------------------------- MODULE RunComparison ---------------------------
(***************************************************************************)
(* Two evaluation results are compared (comparison.py): first whether they *)
(* may be compared at all, then every metric they share, over the whole    *)
(* dataset and query by query.                                             *)
(*                                                                         *)
(* A result is a record                                                    *)
(*   run       its identifier                                              *)
(*   manifest  field |-> value, Missing or Bad (present, but no such value)*)
(*   metrics   retriever |-> (<<metric, cutoff>> |-> value)                *)
(*   queries   retriever |-> (query |-> [metrics, latency])                *)
(*   latency   retriever |-> (statistic |-> value), or Missing             *)
(*   gates     the quality gates attached to it                            *)
(* Values are whole numbers of one unit, One of them make 1.0; queries are *)
(* numbered in the order of their identifiers.                             *)
(***************************************************************************)
EXTENDS Integers

CONSTANTS
    Missing,  \* an absent field, value or run
    Bad,      \* a manifest value of the wrong type, empty or repeated
    One       \* 1.0 in units

ASSUME OneAssumption == One \in Nat \ {0}

NoCutoff == 0
LatencyStatistics == {"latency_mean_ms", "latency_p50_ms", "latency_p95_ms",
                      "latency_max_ms"}
Timed == {<<statistic, NoCutoff>> : statistic \in LatencyStatistics}

MeanLatency == <<"latency_mean_ms", NoCutoff>>

---------------------------------------------------------------------------
(* Values *)

Abs(x) == IF x < 0 THEN -x ELSE x
Larger(x, y) == IF x < y THEN y ELSE x

\* math.isclose with absolute units and a relative part of num/den.
Within(x, y, absolute, tolerance) ==
    \/ Abs(x - y) <= absolute
    \/ Abs(x - y) * tolerance.den <= tolerance.num * Larger(Abs(x), Abs(y))

\* The fraction n/d and t are equal within the tolerance.
CloseTo(n, d, t, tolerance) == Within(n, t * d, tolerance.absolute * d, tolerance)

Close(left, right, tolerance) == CloseTo(left, 1, right, tolerance)

LowerIsBetter(key) == key \in Timed

Directional(key, left, right) ==
    IF LowerIsBetter(key) THEN left - right ELSE right - left

\* Mutant: the tolerance is relative to the baseline alone.
ClassificationByBaseline(key, left, right, tolerance) ==
    IF \/ Abs(right - left) <= tolerance.absolute
       \/ Abs(right - left) * tolerance.den <= tolerance.num * Abs(left)
    THEN "unchanged"
    ELSE IF Directional(key, left, right) > 0 THEN "improved" ELSE "regressed"

Classification(key, left, right, tolerance) ==
    IF Close(left, right, tolerance) THEN "unchanged"
    ELSE IF Directional(key, left, right) > 0 THEN "improved" ELSE "regressed"

\* What the classification is when the runs change places.
Mirrored(classification) ==
    CASE classification = "improved" -> "regressed"
      [] classification = "regressed" -> "improved"
      [] OTHER -> "unchanged"

\* right relative to left, as a fraction of units; undefined for a zero left.
Relative(left, right) ==
    IF left # 0
    THEN [status |-> "defined", n |-> One * (right - left), d |-> Abs(left)]
    ELSE [status |-> IF right = 0 THEN "baseline_zero_both_zero" ELSE "baseline_zero",
          n |-> 0, d |-> 1]

Delta(key, left, right, tolerance) ==
    [baseline |-> left, candidate |-> right,
     directional |-> Directional(key, left, right),
     relative |-> Relative(left, right),
     classification |-> Classification(key, left, right, tolerance)]

---------------------------------------------------------------------------
(* Comparability *)

Names(result) == DOMAIN result.metrics
CommonRetrievers(left, right) == Names(left) \cap Names(right)
Shape(result, retriever) == DOMAIN result.metrics[retriever]
Cutoffs(result, retriever) == {key[2] : key \in Shape(result, retriever)}
QueriesOf(result, retriever) == DOMAIN result.queries[retriever]
QueryShape(result, retriever, query) ==
    DOMAIN result.queries[retriever][query].metrics

Given(result, field) == result.manifest[field] \notin {Missing, Bad}
StrictFields == {"dataset_hash", "relevance_level", "metric_version", "top_k"}

StrictIssue(left, right, field) ==
    \/ ~ Given(left, field)
    \/ ~ Given(right, field)
    \/ left.manifest[field] # right.manifest[field]

\* The cutoffs a manifest names are those every common retriever was measured at.
CutoffIssue(left, right) ==
    \E result \in {left, right}, retriever \in CommonRetrievers(left, right) :
        Cutoffs(result, retriever) # result.manifest["top_k"]

\* Judgments of chunks mean nothing for other chunks.
ChunkIssue(left, right) ==
    /\ "chunk" \in {left.manifest["relevance_level"], right.manifest["relevance_level"]}
    /\ StrictIssue(left, right, "chunk_hash")

\* Every result holds the queries of its manifest, and both hold the same.
QueryIssue(left, right) ==
    \/ StrictIssue(left, right, "query_ids")
    \/ \E result \in {left, right}, retriever \in CommonRetrievers(left, right) :
           QueriesOf(result, retriever) # result.manifest["query_ids"]

\* Mutant: nobody looks at the metrics of a query.
QueryShapeUnread(left, right) == FALSE

\* Every query was measured by the metrics of its aggregate, on both sides.
QueryShapeIssue(left, right) ==
    \E retriever \in CommonRetrievers(left, right) :
        \/ \E result \in {left, right} : \E query \in QueriesOf(result, retriever) :
               QueryShape(result, retriever, query) # Shape(result, retriever)
        \/ QueriesOf(left, retriever) # QueriesOf(right, retriever)
        \/ \E query \in QueriesOf(left, retriever) :
               QueryShape(left, retriever, query) # QueryShape(right, retriever, query)

AggregateShapeIssue(left, right) ==
    \E retriever \in CommonRetrievers(left, right) :
        Shape(left, retriever) # Shape(right, retriever)

Issues(left, right) ==
    {field \in StrictFields : StrictIssue(left, right, field)}
      \cup (IF /\ ~ StrictIssue(left, right, "top_k") /\ CutoffIssue(left, right)
            THEN {"top_k"} ELSE {})
      \cup (IF ChunkIssue(left, right) THEN {"chunk_hash"} ELSE {})
      \cup (IF QueryIssue(left, right) THEN {"query_ids"} ELSE {})
      \cup (IF CommonRetrievers(left, right) = {} THEN {"retrievers"} ELSE {})
      \cup (IF QueryShapeIssue(left, right) \/ AggregateShapeIssue(left, right)
            THEN {"metric_shape"} ELSE {})

Comparable(left, right) == Issues(left, right) = {}

HasLatency(result) == result.latency # Missing
Untimed(result, retriever) ==
    {query \in QueriesOf(result, retriever) :
        result.queries[retriever][query].latency = Missing}

\* What a comparison leaves out without refusing to compare.
Diagnostics(left, right) ==
    IF HasLatency(left) # HasLatency(right) THEN {"latency"}
    ELSE IF ~ HasLatency(left) THEN {}
    ELSE {retriever \in CommonRetrievers(left, right) :
             Untimed(left, retriever) \cup Untimed(right, retriever) # {}}

---------------------------------------------------------------------------
(* Comparison *)

\* The value of one query, or Missing.
QueryValue(result, retriever, query, key) ==
    LET evaluation == result.queries[retriever][query] IN
    IF key \in Timed THEN evaluation.latency
    ELSE IF key \in DOMAIN evaluation.metrics THEN evaluation.metrics[key]
    ELSE Missing

\* Statistics other than the mean say nothing of a single query.
PerQuery(key) == key \notin Timed \/ key = MeanLatency

Paired(left, right, retriever, key) ==
    {query \in QueriesOf(left, retriever) \cap QueriesOf(right, retriever) :
        /\ PerQuery(key)
        /\ QueryValue(left, retriever, query, key) # Missing
        /\ QueryValue(right, retriever, query, key) # Missing}

\* Mutant: the change of the value, whichever direction is better.
ExtremeOfValues(deltas, sign) ==
    LET change(query) == deltas[query].candidate - deltas[query].baseline IN
    IF DOMAIN deltas = {} THEN Missing
    ELSE CHOOSE query \in DOMAIN deltas : \A other \in DOMAIN deltas :
             \/ sign * change(query) < sign * change(other)
             \/ change(query) = change(other) /\ query <= other

\* The query whose directional change is least (sign 1) or greatest (sign -1);
\* of several, the first by identifier.
Extreme(deltas, sign) ==
    IF DOMAIN deltas = {} THEN Missing
    ELSE CHOOSE query \in DOMAIN deltas : \A other \in DOMAIN deltas :
             \/ sign * deltas[query].directional < sign * deltas[other].directional
             \/ /\ deltas[query].directional = deltas[other].directional
                /\ query <= other

MetricComparison(left, right, retriever, key, values, tolerance) ==
    LET deltas == [query \in Paired(left, right, retriever, key) |->
                     Delta(key, QueryValue(left, retriever, query, key),
                           QueryValue(right, retriever, query, key), tolerance)]
    IN  [aggregate |-> Delta(key, values[1], values[2], tolerance),
         queries |-> deltas,
         best |-> Extreme(deltas, -1),
         worst |-> Extreme(deltas, 1)]

AggregateValue(result, retriever, key) ==
    IF key \in Timed THEN result.latency[retriever][key[1]]
    ELSE result.metrics[retriever][key]

ComparedKeys(left, right, retriever) ==
    (Shape(left, retriever) \cap Shape(right, retriever))
      \cup (IF HasLatency(left) /\ HasLatency(right) THEN Timed ELSE {})

\* compare_runs of two comparable results.
CompareRuns(left, right, tolerance) ==
    [retriever \in CommonRetrievers(left, right) |->
       [key \in ComparedKeys(left, right, retriever) |->
          MetricComparison(left, right, retriever, key,
              <<AggregateValue(left, retriever, key),
                AggregateValue(right, retriever, key)>>, tolerance)]]
=============================================================================
