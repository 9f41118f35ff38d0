-------------------------- MODULE GatedComparison --------------------------
(***************************************************************************)
(* What a caller does with two evaluation results: compare them, evaluate  *)
(* quality gates, attach the report to the candidate, save the candidate   *)
(* and load it again. The same configuration may be run again in between:  *)
(* the run identifier does not cover latency, so the new result has the    *)
(* old identifier and other latencies.                                     *)
(***************************************************************************)
EXTENDS GateChecks, FiniteSets, FiniteSetsExt, Functions

CONSTANTS
    Measured,     \* results as a runner produces them, none with gates
    Constructed,  \* results a caller builds, or an older version saved
    Policies,     \* sequences of gates
    Tolerances,   \* [absolute, num, den]
    MaxBytes,     \* the limit that a load is called with
    FileSizes     \* how large the file of a result may get

VARIABLES
    baseline, candidate, tolerance,
    comparison,  \* Missing, or what compare_runs returned
    report,      \* Missing, or [gates, against, report]
    file,        \* Missing, or [bytes, dict]: the candidate as it was saved
    error        \* the error that ended the sequence of calls, or ""
vars == <<baseline, candidate, tolerance, comparison, report, file, error>>

Results == Measured \cup Constructed

IsMeasured(result) == WithGates(result, << >>) \in Measured

---------------------------------------------------------------------------
(* What the constructors of these objects insist on *)

\* Measures of one query or of the dataset, by metrics that are no latency.
AreMetrics(values) ==
    \A key \in DOMAIN values : key \notin Timed /\ values[key] \in Int

\* Every retriever has aggregates and queries, and latency statistics if any has.
IsResult(result) ==
    /\ result = [run |-> result.run, gates |-> result.gates,
                 manifest |-> result.manifest,
                 metrics |-> [retriever \in Names(result) |-> result.metrics[retriever]],
                 queries |-> [retriever \in Names(result) |-> result.queries[retriever]],
                 latency |-> IF HasLatency(result)
                             THEN [retriever \in Names(result) |-> result.latency[retriever]]
                             ELSE Missing]
    /\ Names(result) # {}
    /\ \A retriever \in Names(result) :
           /\ AreMetrics(result.metrics[retriever])
           /\ HasLatency(result) => result.latency[retriever] \in [LatencyStatistics -> Nat]
           /\ QueriesOf(result, retriever) \in SUBSET Nat
           /\ IsFiniteSet(QueriesOf(result, retriever))
           /\ \A query \in QueriesOf(result, retriever) :
                  /\ AreMetrics(result.queries[retriever][query].metrics)
                  /\ result.queries[retriever][query].latency \in Nat \cup {Missing}

\* An absent value is told from every number, fraction and statistic.
ASSUME MissingAssumption ==
    /\ Missing \notin Int
    /\ Missing \notin [n : Int, d : Int]
    /\ Missing \notin [LatencyStatistics -> Nat]

ASSUME ResultsAssumption ==
    \A result \in Results : IsResult(result) /\ result.gates = << >>

ASSUME PoliciesAssumption ==
    \A gates \in Policies : \A i \in DOMAIN gates :
        /\ WellFormed(gates[i])
        /\ \A constraint \in DOMAIN gates[i].limits :
               constraint \in Constraints /\ gates[i].limits[constraint] \in Int

ASSUME SizesAssumption == MaxBytes \in Nat \ {0} /\ FileSizes \subseteq Nat \ {0}

ToleranceType == [absolute : Nat, num : Nat, den : Nat \ {0}]
ASSUME TolerancesAssumption == Tolerances \subseteq ToleranceType

\* The constructors accept any finite metric, but none of the library's is
\* negative. The theorems about gates on drops and about getting better need it.
ASSUME ValuesAssumption ==
    \A result \in Results : \A retriever \in Names(result) :
    \A key \in Shape(result, retriever) : result.metrics[retriever][key] >= 0

\* Then a negative upper bound is met only within a relative tolerance of one
\* or more. The theorem about getting better leaves that combination out.
ASSUME BoundsAssumption ==
    \A gates \in Policies : \A i \in DOMAIN gates : \A allowed \in Tolerances :
        "max_value" \in DOMAIN gates[i].limits =>
            gates[i].limits["max_value"] >= 0 \/ allowed.num < allowed.den

Init ==
    /\ tolerance \in Tolerances
    /\ \/ baseline \in Measured /\ candidate \in Measured
       \/ baseline \in Results /\ candidate \in Constructed
       \/ baseline \in Constructed /\ candidate \in Results
    /\ comparison = Missing
    /\ report = Missing
    /\ file = Missing
    /\ error = ""

---------------------------------------------------------------------------
(* What a runner aggregates: a mean over the queries, and nearest ranks *)

Mean(values) == SumFunction(values) \div Cardinality(DOMAIN values)

\* aggregate_metrics
Macro(queries) ==
    [key \in UNION {DOMAIN queries[query].metrics : query \in DOMAIN queries} |->
        Mean([query \in DOMAIN queries |-> queries[query].metrics[key]])]

\* The one-based nearest rank: the least value that percentile hundredths of
\* the sample do not exceed.
NearestRank(values, percentile) ==
    LET rank == Larger(1, (percentile * Cardinality(DOMAIN values) + 99) \div 100)
    IN  Min({value \in {values[query] : query \in DOMAIN values} :
                Cardinality({query \in DOMAIN values : values[query] <= value}) >= rank})

\* LatencyStats.from_samples
FromSamples(values) ==
    [latency_mean_ms |-> Mean(values),
     latency_p50_ms |-> NearestRank(values, 50),
     latency_p95_ms |-> NearestRank(values, 95),
     latency_max_ms |-> Max({values[query] : query \in DOMAIN values})]

---------------------------------------------------------------------------
(* Saving and loading *)

\* to_dict: latency goes under the retriever it belongs to.
ToDict(result) ==
    [id |-> result.run, manifest |-> result.manifest, gates |-> result.gates,
     retrievers |-> [retriever \in Names(result) |->
        [metrics |-> result.metrics[retriever],
         per_query |-> result.queries[retriever],
         latency |-> IF HasLatency(result) THEN result.latency[retriever]
                                           ELSE Missing]]]

\* Mutant: latency is not read back.
FromDictUntimed(dict) ==
    [run |-> dict.id, manifest |-> dict.manifest, gates |-> dict.gates,
     metrics |-> [retriever \in DOMAIN dict.retrievers |->
                    dict.retrievers[retriever].metrics],
     queries |-> [retriever \in DOMAIN dict.retrievers |->
                    dict.retrievers[retriever].per_query],
     latency |-> Missing]

FromDict(dict) ==
    [run |-> dict.id, manifest |-> dict.manifest, gates |-> dict.gates,
     metrics |-> [retriever \in DOMAIN dict.retrievers |->
                    dict.retrievers[retriever].metrics],
     queries |-> [retriever \in DOMAIN dict.retrievers |->
                    dict.retrievers[retriever].per_query],
     latency |-> IF \A r \in DOMAIN dict.retrievers : dict.retrievers[r].latency = Missing
                 THEN Missing
                 ELSE [retriever \in DOMAIN dict.retrievers |->
                         dict.retrievers[retriever].latency]]

\* An aggregate is the mean of its queries.
IsMean(entry) ==
    \A key \in DOMAIN entry.metrics :
        entry.metrics[key] * Cardinality(DOMAIN entry.per_query) =
            SumFunction([query \in DOMAIN entry.per_query |->
                            entry.per_query[query].metrics[key]])

\* What result_from_dict insists on, and the constructor after it.
Readable(dict) ==
    LET entries == {dict.retrievers[r] : r \in DOMAIN dict.retrievers} IN
    /\ \A entry, other \in entries :
           /\ DOMAIN entry.per_query = DOMAIN other.per_query
           /\ DOMAIN entry.metrics = DOMAIN other.metrics
           /\ (entry.latency = Missing) = (other.latency = Missing)
    /\ \A entry \in entries :
           /\ \A query \in DOMAIN entry.per_query :
                  DOMAIN entry.per_query[query].metrics = DOMAIN entry.metrics
           /\ IsMean(entry)
    /\ AcceptsGates(FromDict(dict), dict.gates)

\* A runner times every search, asks every retriever the same queries, one at
\* least, measures all of them in the same way, and aggregates what it measured.
ASSUME MeasuredAssumption ==
    \A result \in Measured :
        /\ HasLatency(result)
        /\ \A retriever, other \in Names(result) :
               /\ QueriesOf(result, retriever) = QueriesOf(result, other)
               /\ Shape(result, retriever) = Shape(result, other)
        /\ \A retriever \in Names(result) :
               LET queries == result.queries[retriever] IN
               /\ DOMAIN queries # {}
               /\ \A query \in DOMAIN queries :
                      /\ QueryShape(result, retriever, query) = Shape(result, retriever)
                      /\ queries[query].latency # Missing
               /\ IsMean(ToDict(result).retrievers[retriever])
               /\ result.latency[retriever].latency_mean_ms =
                      Mean([query \in DOMAIN queries |-> queries[query].latency])

\* A save has no limit of its own; one that fails leaves the path as it was.
Save ==
    /\ error = "" /\ file = Missing
    /\ \/ /\ \E bytes \in FileSizes :
                 file' = [bytes |-> bytes, dict |-> ToDict(candidate)]
          /\ UNCHANGED error
       \/ error' = "EvaluationError" /\ UNCHANGED file
    /\ UNCHANGED <<baseline, candidate, tolerance, comparison, report>>

\* _read_bounded
Fits == file.bytes <= MaxBytes

Load ==
    /\ error = "" /\ file # Missing
    /\ IF Fits /\ Readable(file.dict)
       THEN candidate' = FromDict(file.dict) /\ UNCHANGED error
       ELSE error' = "EvaluationError" /\ UNCHANGED candidate
    /\ UNCHANGED <<baseline, tolerance, comparison, report, file>>

---------------------------------------------------------------------------
(* Comparing, and evaluating gates *)

Compare ==
    /\ error = "" /\ comparison = Missing /\ report = Missing /\ file = Missing
    /\ IF Comparable(baseline, candidate)
       THEN /\ comparison' = CompareRuns(baseline, candidate, tolerance)
            /\ UNCHANGED error
       ELSE error' = "IncomparableRunError" /\ UNCHANGED comparison
    /\ UNCHANGED <<baseline, candidate, tolerance, report, file>>

EvaluatePolicy ==
    /\ error = "" /\ comparison = Missing /\ report = Missing /\ file = Missing
    /\ \E gates \in Policies, against \in {Missing, baseline} :
           /\ error' = GateError(candidate, gates, against)
           /\ report' = IF error' # "" THEN Missing
                        ELSE [gates |-> gates, against |-> against,
                              report |-> EvaluateGates(candidate, gates, against,
                                                       tolerance)]
    /\ UNCHANGED <<baseline, candidate, tolerance, comparison, file>>

\* with_quality_gates
Attach ==
    /\ error = "" /\ report # Missing /\ file = Missing
    /\ IF AcceptsGates(candidate, report.report.results)
       THEN candidate' = WithGates(candidate, report.report.results)
            /\ UNCHANGED error
       ELSE error' = "EvaluationError" /\ UNCHANGED candidate
    /\ UNCHANGED <<baseline, tolerance, comparison, report, file>>

\* The experiment is run once more, and its result takes the old one's place.
Rerun ==
    /\ error = "" /\ report # Missing /\ file = Missing
    /\ \E result \in Measured :
           /\ result.run = candidate.run /\ result.queries # candidate.queries
           /\ result.metrics = candidate.metrics
           /\ candidate' = result
    /\ UNCHANGED <<baseline, tolerance, comparison, report, file, error>>

Next == Save \/ Load \/ Compare \/ EvaluatePolicy \/ Attach \/ Rerun

Spec == Init /\ [][Next]_vars

---------------------------------------------------------------------------
(* Properties *)

TypeOK ==
    /\ WithGates(candidate, << >>) \in Results
    /\ baseline \in Results
    /\ tolerance \in Tolerances
    /\ error \in {"", "EvaluationError", "ConfigurationError", "IncomparableRunError"}

\* The gates a result carries are those its policy gives on this very result:
\* only a drop of latency, whose baseline and whose run are not at hand, may
\* come from an earlier run of the same identifier.
AttachedAreOwn ==
    candidate.gates # << >> =>
        LET again == EvaluateGates(candidate, report.gates, report.against, tolerance)
        IN  \A i \in DOMAIN candidate.gates :
                \/ report.gates[i].key \in Timed /\ IsDrop(report.gates[i])
                \/ candidate.gates[i] = again.results[i]

\* The type invariant and the honesty of attached gates.
GatesInv == TypeOK /\ AttachedAreOwn

\* Two results that may be compared are compared completely: every metric both
\* retrievers' aggregates hold and every query of the manifest is paired; a
\* latency is left out only if a diagnostic says so.
NothingSkipped ==
    comparison # Missing =>
        \A retriever \in Names(baseline) \cap Names(candidate) :
            /\ Shape(baseline, retriever) \cup Shape(candidate, retriever)
                   \subseteq DOMAIN comparison[retriever]
            /\ \A key \in DOMAIN comparison[retriever] \ Timed :
                   DOMAIN comparison[retriever][key].queries =
                       baseline.manifest["query_ids"]
            /\ \/ "latency" \in Diagnostics(baseline, candidate)
               \/ ~ HasLatency(baseline) /\ ~ HasLatency(candidate)
               \/ Timed \subseteq DOMAIN comparison[retriever]
            /\ \/ Timed \cap DOMAIN comparison[retriever] = {}
               \/ retriever \in Diagnostics(baseline, candidate)
               \/ DOMAIN comparison[retriever][MeanLatency].queries =
                      baseline.manifest["query_ids"]

\* Comparing the other way round turns every improvement into a regression and
\* the best query into one as bad as the worst, and refuses the same results.
SwapMirrors ==
    /\ (comparison # Missing \/ error = "IncomparableRunError") =>
           Comparable(candidate, baseline) = (comparison # Missing)
    /\ comparison # Missing =>
           LET back == CompareRuns(candidate, baseline, tolerance) IN
           \A retriever \in DOMAIN comparison :
           \A key \in DOMAIN comparison[retriever] :
               LET there == comparison[retriever][key]
                   here == back[retriever][key]
               IN  /\ here.aggregate.classification =
                          Mirrored(there.aggregate.classification)
                   /\ there.best # Missing =>
                          here.queries[here.worst].directional =
                              - there.queries[there.best].directional

\* If a metric of two measured runs got worse over the whole dataset, the query
\* shown as the worst did get worse, and likewise the best.
CulpritShown ==
    comparison # Missing /\ IsMeasured(baseline) /\ IsMeasured(candidate) =>
        \A retriever \in DOMAIN comparison :
        \A key \in DOMAIN comparison[retriever] :
            LET here == comparison[retriever][key] IN
            PerQuery(key) =>
                /\ here.aggregate.classification = "regressed" =>
                       here.queries[here.worst].directional < 0
                /\ here.aggregate.classification = "improved" =>
                       here.queries[here.best].directional > 0

\* A gate that allows no drop, absolute or relative, passes exactly if the
\* comparison does not call the metric regressed. A relative drop is compared
\* within the same tolerance: of a baseline greater than 1.0 it may be less
\* than an absolute tolerance that the drop itself exceeds, unless the relative
\* tolerance is at least as large, as it is by default.
RelativeDropCounts(baselineValue) ==
    \/ baselineValue <= One
    \/ tolerance.absolute * tolerance.den <= tolerance.num * One
DropGatesMatchComparison ==
    report # Missing =>
        \A i \in DOMAIN report.gates :
        \A constraint \in DOMAIN report.gates[i].limits \cap DropConstraints :
            LET gate == report.gates[i]
                results == EvaluateGates(candidate, report.gates, report.against,
                                         tolerance).results
                compared == CompareRuns(report.against, candidate, tolerance)
                                [gate.retriever][gate.key].aggregate
            IN  /\ gate.limits[constraint] = 0
                /\ constraint = "max_relative_drop" => RelativeDropCounts(compared.baseline)
                =>
                    results[i].checks[constraint].passed =
                        (compared.classification # "regressed")

\* The candidate with another value of one metric.
WithValue(result, retriever, key, value) ==
    IF key \in Timed THEN [result EXCEPT !.latency[retriever][key[1]] = value]
    ELSE [result EXCEPT !.metrics[retriever][key] = value]

\* Getting better at a metric never makes a gate on it fail, but for one that
\* says how good the metric may be at most.
BetterNeverFails ==
    report # Missing =>
        \A i \in DOMAIN report.gates :
            LET gate == report.gates[i] IN
            Available(candidate, gate) =>
            \A value \in 0 .. AggregateValue(candidate, gate.retriever, gate.key) + One :
                LET now == EvaluateGates(candidate, report.gates, report.against, tolerance)
                    other == WithValue(candidate, gate.retriever, gate.key, value)
                    then == EvaluateGates(other, report.gates, report.against, tolerance)
                    bound == IF LowerIsBetter(gate.key) THEN "min_value" ELSE "max_value"
                IN  Directional(gate.key,
                        AggregateValue(candidate, gate.retriever, gate.key), value) >= 0 =>
                    \A constraint \in DOMAIN gate.limits \ {bound} :
                        now.results[i].checks[constraint].passed =>
                            then.results[i].checks[constraint].passed

\* A saved result loads as it was, attached gates included, or not at all; one
\* that a runner measured is refused only if its file exceeds the caller's limit.
ReloadsAsSaved ==
    file # Missing =>
        /\ Readable(file.dict) => FromDict(file.dict) = candidate
        /\ IsMeasured(candidate) => Readable(file.dict) /\ (Fits => error = "")
=============================================================================
