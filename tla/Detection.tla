------------------------------ MODULE Detection ------------------------------
(***************************************************************************)
(* What an evaluation of a monitor decides: the pairs a window holds, the  *)
(* metrics of their confusion counts, the rule of the monitor, and the     *)
(* verdict on a recovery.  A window is the record of its counts; a ratio   *)
(* is a numerator and a denominator, Undefined where the code has None; a  *)
(* feature's sample is how often each value occurs in it.                  *)
(*                                                                         *)
(* Abstracted: floating-point rounding, the evidence texts, and the size   *)
(* of a PSI score (its terms are (c - b) * log(c / b), which is zero when  *)
(* a bucket's ratios agree, once raised to epsilon, and positive           *)
(* otherwise).                                                             *)
(***************************************************************************)
EXTENDS Integers, FiniteSets, Functions

CONSTANTS
  MaxCount,     \* bound: pairs of a kind in a window
  Thresholds,   \* thresholds of monitors, as ratios
  MinimumSample,
  Points,       \* values of a feature, a finite set of integers
  MaxWeight,    \* bound: how often a value occurs in a sample
  Bins,
  Names,        \* versions and features
  Unset         \* None

ASSUME ThresholdsType == Thresholds \subseteq Int \X (Nat \ {0})
ASSUME BinsType == Bins \in Nat /\ Bins >= 2
ASSUME UnsetType == Unset \notin Names
ASSUME CountsType == {MaxCount, MaxWeight, MinimumSample} \subseteq Nat
ASSUME PointsType == Points \subseteq Int /\ IsFiniteSet(Points)

-----------------------------------------------------------------------------
(* Ratios.                                                                 *)

Undefined == <<0, 0>>
Ratio(n, d) == IF d = 0 THEN Undefined ELSE <<n, d>>
Less(p, q) == p[1] * q[2] < q[1] * p[2]
Same(p, q) == p[1] * q[2] = q[1] * p[2]
Minus(p, q) == <<p[1] * q[2] - q[1] * p[2], p[2] * q[2]>>
AtLeast(p, q) == ~Less(p, q)

-----------------------------------------------------------------------------
(* calculate_binary_metrics.                                               *)

Counts == [tp : 0 .. MaxCount, fp : 0 .. MaxCount, fn : 0 .. MaxCount, tn : 0 .. MaxCount]
Size(c) == c.tp + c.fp + c.fn + c.tn

Precision(c) == Ratio(c.tp, c.tp + c.fp)

\* Mutant of Recall: the share of positive predictions.
RecallOfPredicted(c) == Ratio(c.tp, c.tp + c.fp)

Recall(c) == Ratio(c.tp, c.tp + c.fn)

\* 2 * precision * recall / (precision + recall), as fractions.
F1(c) ==
  LET p == Precision(c)
      r == Recall(c)
  IN IF p = Undefined \/ r = Undefined \/ p[1] + r[1] = 0 THEN Undefined
     ELSE <<2 * p[1] * r[1], p[1] * r[2] + r[1] * p[2]>>

BinaryMetrics(c) ==
  [precision |-> Precision(c), recall |-> Recall(c), f1 |-> F1(c),
   false_positive_rate |-> Ratio(c.fp, c.fp + c.tn),
   false_negative_rate |-> Ratio(c.fn, c.fn + c.tp),
   accuracy |-> Ratio(c.tp + c.tn, Size(c))]

Metric == {"precision", "recall", "f1", "false_positive_rate", "false_negative_rate",
           "accuracy"}
LowerIsBetter == {"false_positive_rate", "false_negative_rate"}

-----------------------------------------------------------------------------
(* binary_pairs: predictions of a version in [start, end) joined with the  *)
(* labels known before end, each by the latest row of its prediction_id.   *)

Latest(rows, id) ==
  CHOOSE r \in rows : r.id = id /\ \A q \in rows : q.id = id => q.at <= r.at

BinaryPairs(predictions, actuals, version, start, end) ==
  LET made == {p \in predictions : /\ p.version = version
                                   /\ start <= p.at /\ p.at < end
                                   /\ p.positive # Unset}
      known == {a \in actuals : a.at < end}
      joined == {p.id : p \in made} \cap {a.id : a \in known}
  IN {[id |-> i, predicted |-> Latest(made, i).positive,
       actual |-> Latest(known, i).positive] :
        i \in {j \in joined : Latest(known, j).positive # Unset}}

CountsOf(pairs) ==
  LET Count(predicted, actual) ==
        Cardinality({p \in pairs : p.predicted = predicted /\ p.actual = actual})
  IN [tp |-> Count(TRUE, TRUE), fp |-> Count(TRUE, FALSE),
      fn |-> Count(FALSE, TRUE), tn |-> Count(FALSE, FALSE)]

-----------------------------------------------------------------------------
(* population_stability_index.                                             *)

Samples == [Points -> 0 .. MaxWeight]
Weight(s, points) == FoldFunctionOnSet(+, 0, s, points)
Total(s) == Weight(s, Points)

\* The value at index i, from 0, of the sample in order.
Sorted(s, i) ==
  CHOOSE v \in Points : /\ Weight(s, {u \in Points : u < v}) <= i
                        /\ i < Weight(s, {u \in Points : u <= v})

\* Mutant of Boundaries: the last quantile is left out.
BoundariesBelow(s) == {Sorted(s, (i * Total(s)) \div Bins) : i \in 1 .. Bins - 2}

Boundaries(s) == {Sorted(s, (i * Total(s)) \div Bins) : i \in 1 .. Bins - 1}

\* bisect_right.
Bucket(boundaries, v) == Cardinality({b \in boundaries : b <= v})
InBucket(boundaries, j) == {v \in Points : Bucket(boundaries, v) = j}

\* A share of at most epsilon, 10^-6.
Tiny(s, points) == Weight(s, points) * 1000000 <= Total(s)

SameShare(s, t, points) ==
  \/ Weight(s, points) * Total(t) = Weight(t, points) * Total(s)
  \/ Tiny(s, points) /\ Tiny(t, points)

\* Whether the score is positive.  A constant baseline has two buckets: its
\* value, and all others.
Shifted(baseline, current) ==
  LET seen == {v \in Points : baseline[v] > 0}
      bs == Boundaries(baseline)
  IN /\ Total(baseline) > 0 /\ Total(current) > 0
     /\ IF Cardinality(seen) = 1
        THEN Weight(current, seen) # Total(current)
        ELSE \E j \in 0 .. Cardinality(bs) : ~SameShare(baseline, current, InBucket(bs, j))

-----------------------------------------------------------------------------
(* Monitors.                                                               *)

Operator == {"lt", "lte", "gt", "gte", "change", "decrease", "increase"}
Signal == {"performance", "feature_drift"}
MonitorRow == [enabled : BOOLEAN, signal : Signal, metric : Metric \cup {"psi"},
               operator : Operator, threshold : Thresholds,
               version : Names \cup {Unset}, reference : Names \cup {Unset},
               feature : Names \cup {Unset}]

\* Mutant of Valid: any operator goes with any metric.
ValidFields(m) ==
  IF m.signal = "feature_drift"
  THEN m.metric = "psi" /\ m.operator \in {"gt", "gte"} /\ m.feature # Unset
       /\ m.reference = Unset
  ELSE /\ m.feature = Unset /\ m.metric \in Metric
       /\ m.reference # Unset => m.version \notin {Unset, m.reference}

\* validate_metric.
Valid(m) ==
  IF m.signal = "feature_drift"
  THEN m.metric = "psi" /\ m.operator \in {"gt", "gte"} /\ m.feature # Unset
       /\ m.reference = Unset
  ELSE /\ m.feature = Unset /\ m.metric \in Metric
       /\ m.reference # Unset => m.version \notin {Unset, m.reference}
       /\ m.operator = "decrease" => m.metric \notin LowerIsBetter
       /\ m.operator = "increase" => m.metric \in LowerIsBetter

\* _matches.
Matches(operator, observed, threshold, baseline) ==
  \/ operator = "lt" /\ Less(observed, threshold)
  \/ operator = "lte" /\ AtLeast(threshold, observed)
  \/ operator = "gt" /\ Less(threshold, observed)
  \/ operator = "gte" /\ AtLeast(observed, threshold)
  \/ /\ baseline # Undefined
     /\ \/ /\ operator \in {"change", "decrease"}
           /\ AtLeast(Minus(baseline, observed), threshold)
        \/ /\ operator \in {"change", "increase"}
           /\ AtLeast(Minus(observed, baseline), threshold)

\* _comparison.
Direction(metric, baseline, observed) ==
  IF baseline = Undefined \/ observed = Undefined THEN "unavailable"
  ELSE IF Same(baseline, observed) THEN "unchanged"
  ELSE IF Less(observed, baseline) = (metric \notin LowerIsBetter) THEN "degraded"
  ELSE "improved"

Result(m, sufficient, baseline, observed) ==
  [status |-> IF sufficient THEN "evaluated" ELSE "insufficient_data",
   triggered |-> /\ sufficient /\ observed # Undefined
                 /\ Matches(m.operator, observed, m.threshold, baseline),
   observed |-> observed, baseline |-> baseline,
   direction |-> Direction(m.metric, baseline, observed)]

\* Mutant of Performance: only positive predictions count as samples.
PerformanceOfPositives(m, baseline, current) ==
  Result(m, /\ baseline.tp + baseline.fp >= MinimumSample
            /\ current.tp + current.fp >= MinimumSample,
         BinaryMetrics(baseline)[m.metric], BinaryMetrics(current)[m.metric])

\* evaluate_performance (baseline: the window before), and
\* evaluate_performance_against_version (baseline: the other version's window).
Performance(m, baseline, current) ==
  Result(m, Size(baseline) >= MinimumSample /\ Size(current) >= MinimumSample,
         BinaryMetrics(baseline)[m.metric], BinaryMetrics(current)[m.metric])

\* evaluate_feature_drift: whether it triggers, where a positive score may reach
\* any threshold.
FeatureDrift(m, baseline, current) ==
  IF Total(baseline) < MinimumSample \/ Total(current) < MinimumSample THEN {FALSE}
  ELSE {Matches(m.operator, <<0, 1>>, m.threshold, <<0, 1>>)}
       \cup (IF Shifted(baseline, current) THEN {TRUE} ELSE {})

-----------------------------------------------------------------------------
(* MonitorEvaluationService.                                               *)

Refused == [status |-> "refused"]

\* _configured_value.
Conflict(stored, supplied) == stored # Unset /\ supplied # Unset /\ stored # supplied
Configured(stored, supplied) == IF stored # Unset THEN stored ELSE supplied

\* Mutant of FromRecord: what the request supplies is not validated.
FromRecordAsIs(m, feature, reference) ==
  IF Conflict(m.feature, feature) \/ Conflict(m.reference, reference) THEN Refused
  ELSE [m EXCEPT !.feature = Configured(@, feature), !.reference = Configured(@, reference)]

\* _monitor_from_record: the stored row with what the request supplies.
FromRecord(m, feature, reference) ==
  LET merged == [m EXCEPT !.feature = Configured(@, feature),
                          !.reference = Configured(@, reference)]
  IN IF Conflict(m.feature, feature) \/ Conflict(m.reference, reference) \/ ~Valid(merged)
     THEN Refused ELSE merged

\* What evaluate asks of the monitor: enabled, and of the signal the caller expects.
Expected(m, signal) ==
  IF m = Refused \/ ~m.enabled \/ signal \notin {Unset, m.signal} THEN Refused ELSE m

\* _resolve_version: the one active version, unless the monitor names its own.
Resolved(m, active) ==
  IF m = Refused \/ (m.version = Unset /\ Cardinality(active) # 1) THEN Refused
  ELSE IF m.version # Unset THEN m
  ELSE [m EXCEPT !.version = CHOOSE v \in active : TRUE]

\* The monitor that evaluate hands to the engine.
Evaluated(m, feature, reference, signal, active) ==
  Resolved(Expected(FromRecord(m, feature, reference), signal), active)

\* Mutant of RecoveryPerformance: a threshold that is met exactly has recovered.
RecoveryBeyond(m, incidentBaseline, current) ==
  LET observed == BinaryMetrics(current)[m.metric]
  IN [status |-> IF Size(current) >= MinimumSample /\ observed # Undefined
                 THEN "evaluated" ELSE "insufficient_data",
      triggered |-> /\ observed # Undefined
                    /\ Matches(m.operator, observed, m.threshold, incidentBaseline)
                    /\ ~Same(Minus(incidentBaseline, observed), m.threshold)]

\* evaluate_recovery_performance: the window since the remediation against the
\* baseline of the incident.
RecoveryPerformance(m, incidentBaseline, current) ==
  LET observed == BinaryMetrics(current)[m.metric]
  IN Result(m, Size(current) >= MinimumSample /\ observed # Undefined,
            incidentBaseline, observed)

Passed(result) == result.status = "evaluated" /\ ~result.triggered

(***************************************************************************)
(* RecoveryEvaluator's last check: a rolled back model is compared with    *)
(* the baseline of the incident, a rolled back release is evaluated as any *)
(* pass of the monitor would, with the window before as its baseline.      *)
(***************************************************************************)
ModelRecovered(m, incidentBaseline, current) ==
  /\ incidentBaseline # Undefined
  /\ Passed(RecoveryPerformance(m, incidentBaseline, current))

ReleaseRecovered(m, before, current) == Passed(Performance(m, before, current))

=============================================================================
