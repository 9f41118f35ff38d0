---------------------------- MODULE GateChecks ----------------------------
(***************************************************************************)
(* Quality gates (quality.py, domain/gates.py) and what a result accepts   *)
(* as its own (domain/results.py).                                         *)
(*                                                                         *)
(* A gate names a retriever, a metric and one or more constraints:         *)
(*   [retriever, key, limits]   limits: constraint |-> threshold in units  *)
(* A check of a constraint holds the value it looked at, a fraction        *)
(* [n, d] of units, or Missing where a relative drop from zero is          *)
(* undefined.                                                              *)
(***************************************************************************)
EXTENDS RunComparison, Sequences

Constraints == {"min_value", "max_value", "max_absolute_drop", "max_relative_drop"}
DropConstraints == {"max_absolute_drop", "max_relative_drop"}

\* The gates a QualityGateConfig accepts.
WellFormed(gate) ==
    /\ DOMAIN gate.limits # {}
    /\ \A constraint \in DOMAIN gate.limits \cap DropConstraints :
           gate.limits[constraint] >= 0
    /\ {"min_value", "max_value"} \subseteq DOMAIN gate.limits =>
           gate.limits["min_value"] <= gate.limits["max_value"]

Whole(n) == [n |-> n, d |-> 1]

---------------------------------------------------------------------------
(* One check *)

\* At the boundary a value passes, from either side.
BoundaryPasses(actual, threshold, constraint, tolerance) ==
    \/ CloseTo(actual.n, actual.d, threshold, tolerance)
    \/ IF constraint = "min_value"
       THEN actual.n >= threshold * actual.d
       ELSE actual.n <= threshold * actual.d

\* Mutant: an improvement counts as much as a drop.
AbsoluteChange(key, left, right, tolerance) ==
    IF Close(left, right, tolerance) THEN 0 ELSE Abs(right - left)

AbsoluteRegression(key, left, right, tolerance) ==
    IF Close(left, right, tolerance) THEN 0
    ELSE Larger(- Directional(key, left, right), 0)

\* Mutant: a drop from zero is none.
RelativeRegressionZeroed(delta) ==
    IF delta.classification # "regressed" \/ delta.relative.status = "baseline_zero"
    THEN Whole(0)
    ELSE [n |-> Abs(delta.relative.n), d |-> delta.relative.d]

\* Undefined only where the metric got worse from a baseline of zero.
RelativeRegression(delta) ==
    IF delta.classification # "regressed" THEN Whole(0)
    ELSE IF delta.relative.status = "baseline_zero" THEN Missing
    ELSE [n |-> Abs(delta.relative.n), d |-> delta.relative.d]

\* The value a constraint looks at.
Actual(constraint, key, left, right, tolerance) ==
    CASE constraint \in {"min_value", "max_value"} -> Whole(right)
      [] constraint = "max_absolute_drop" ->
             Whole(AbsoluteRegression(key, left, right, tolerance))
      [] constraint = "max_relative_drop" ->
             RelativeRegression(Delta(key, left, right, tolerance))

Check(constraint, threshold, key, left, right, tolerance) ==
    LET actual == Actual(constraint, key, left, right, tolerance) IN
    [actual |-> actual, threshold |-> threshold,
     passed |-> /\ actual # Missing
                /\ BoundaryPasses(actual, threshold, constraint, tolerance)]

---------------------------------------------------------------------------
(* All gates of a policy *)

IsDrop(gate) == DOMAIN gate.limits \cap DropConstraints # {}
HasDrop(gates) == \E i \in DOMAIN gates : IsDrop(gates[i])

Available(result, gate) ==
    /\ gate.retriever \in Names(result)
    /\ IF gate.key \in Timed THEN HasLatency(result)
       ELSE gate.key \in Shape(result, gate.retriever)

InComparison(left, right, gate) ==
    /\ gate.retriever \in CommonRetrievers(left, right)
    /\ gate.key \in ComparedKeys(left, right, gate.retriever)

\* Why the gates cannot be evaluated, in the order the code finds out; "" if
\* they can. candidate_value is read before the comparison's delta, but both
\* end in the same error.
GateError(candidate, gates, baseline) ==
    IF HasDrop(gates) /\ baseline = Missing THEN "ConfigurationError"
    ELSE IF HasDrop(gates) /\ ~ Comparable(baseline, candidate)
         THEN "IncomparableRunError"
    ELSE IF \E i \in DOMAIN gates :
                \/ ~ Available(candidate, gates[i])
                \/ IsDrop(gates[i]) /\ ~ InComparison(baseline, candidate, gates[i])
         THEN "ConfigurationError"
    ELSE ""

GateResult(candidate, gate, baseline, tolerance) ==
    LET right == AggregateValue(candidate, gate.retriever, gate.key)
        left == IF IsDrop(gate) THEN AggregateValue(baseline, gate.retriever, gate.key)
                                ELSE right
        checks == [constraint \in DOMAIN gate.limits |->
                     Check(constraint, gate.limits[constraint], gate.key,
                           left, right, tolerance)]
    IN  [retriever |-> gate.retriever, key |-> gate.key, checks |-> checks,
         passed |-> \A constraint \in DOMAIN checks : checks[constraint].passed,
         candidate |-> candidate.run,
         baseline |-> IF baseline = Missing THEN Missing ELSE baseline.run]

\* evaluate_quality_gates where GateError is "".
EvaluateGates(candidate, gates, baseline, tolerance) ==
    [candidate |-> candidate.run,
     baseline |-> IF baseline = Missing THEN Missing ELSE baseline.run,
     results |-> [i \in DOMAIN gates |->
                    GateResult(candidate, gates[i], baseline, tolerance)]]

GatesPass(results) == \A i \in DOMAIN results : results[i].passed

---------------------------------------------------------------------------
(* Gates attached to a result *)

\* Mutant: the values that were checked are not looked at.
AcceptsGatesOfRun(result, gates) ==
    \A i \in DOMAIN gates :
        gates[i].candidate = result.run /\ Available(result, gates[i])

\* What a result accepts as its own gates: of its own run, about metrics it
\* has, and absolute checks of the very values it holds. A drop is not looked
\* at again: its baseline is not at hand.
AcceptsGates(result, gates) ==
    \A i \in DOMAIN gates :
        /\ gates[i].candidate = result.run
        /\ Available(result, gates[i])
        /\ \A constraint \in DOMAIN gates[i].checks \ DropConstraints :
               gates[i].checks[constraint].actual =
                   Whole(AggregateValue(result, gates[i].retriever, gates[i].key))

WithGates(result, gates) == [result EXCEPT !.gates = gates]
=============================================================================
