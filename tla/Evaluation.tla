------------------------------ MODULE Evaluation ------------------------------
(***************************************************************************)
(* The evaluations of one monitor: a request or a worker's pass reads its  *)
(* row, the windows of telemetry are measured and judged; when an incident *)
(* opens, a rollback of the manifest is rendered and served, and later     *)
(* windows are judged for the recovery.  The windows are whatever traffic  *)
(* brings.                                                                 *)
(*                                                                         *)
(* Abstracted: which worker does it and when (MonitorSchedule), the        *)
(* approval and execution of the rollback (ControlPlane, GitOps), and what *)
(* follows an incident of a drift monitor.                                 *)
(***************************************************************************)
EXTENDS Detection

CONSTANTS
  FeatureBaselines, FeatureWindows   \* the samples a feature's windows may be

CONSTANTS
  Assets,            \* assets of features
  BranchManifests    \* what the branch may hold when a rollback is rendered

INSTANCE Manifests

ASSUME SamplesType == FeatureBaselines \cup FeatureWindows \subseteq Samples
ASSUME BranchType == BranchManifests \subseteq {m \in ManifestRow : ValidManifest(m)}

VARIABLES
  step,
  monitor,    \* the row, then the monitor that is evaluated
  before,     \* the baseline's window: earlier, or of the reference version
  window,     \* the current window
  features,   \* the samples of a drift monitor's feature
  baseline,   \* the baseline_value of the incident
  remedy,     \* what is rolled back
  rollback    \* the rollback that is proposed: the manifest it changes, and to what

vars == <<step, monitor, before, window, features, baseline, remedy, rollback>>

Steps == {"request", "measure", "judge", "quiet", "incident", "rendered", "remedied",
          "recovered", "refused"}
Remedies == {"none", "model", "release"}
NoTraffic == [tp |-> 0, fp |-> 0, fn |-> 0, tn |-> 0]
NoRollback == [action |-> Unset, from |-> Unset, to |-> Unset]
NoSamples == [before |-> [v \in Points |-> 0], current |-> [v \in Points |-> 0]]

Init ==
  /\ step = "request"
  /\ monitor \in {m \in MonitorRow : Valid(m)}
  /\ before = NoTraffic /\ window = NoTraffic
  /\ features = NoSamples
  /\ baseline = Undefined
  /\ remedy = "none"
  /\ rollback = NoRollback

\* evaluate, up to the call of the engine.
Configure(feature, reference, signal, active) ==
  /\ step = "request"
  /\ monitor' = Evaluated(monitor, feature, reference, signal, active)
  /\ step' = IF monitor' = Refused THEN "refused" ELSE "measure"
  /\ UNCHANGED <<before, window, features, baseline, remedy, rollback>>

\* binary_pairs, for both windows.
Measure(b, c) ==
  /\ step = "measure" /\ monitor.signal = "performance"
  /\ before' = b /\ window' = c
  /\ step' = "judge"
  /\ UNCHANGED <<monitor, features, baseline, remedy, rollback>>

\* feature_values, for both windows.
MeasureFeature(b, c) ==
  /\ step = "measure" /\ monitor.signal = "feature_drift"
  /\ features' = [before |-> b, current |-> c]
  /\ step' = "judge"
  /\ UNCHANGED <<monitor, before, window, baseline, remedy, rollback>>

\* The engine's verdict; an event opens an incident with its baseline.
Judge ==
  /\ step = "judge" /\ monitor.signal = "performance"
  /\ LET result == Performance(monitor, before, window)
     IN /\ step' = IF result.triggered THEN "incident" ELSE "quiet"
        /\ baseline' = IF result.triggered THEN result.baseline ELSE baseline
  /\ UNCHANGED <<monitor, before, window, features, remedy, rollback>>

\* The verdict on a drift, whose baseline is a score of 0.
JudgeFeature(triggered) ==
  /\ step = "judge" /\ monitor.signal = "feature_drift"
  /\ triggered \in FeatureDrift(monitor, features.before, features.current)
  /\ step' = IF triggered THEN "incident" ELSE "quiet"
  /\ baseline' = IF triggered THEN <<0, 1>> ELSE baseline
  /\ UNCHANGED <<monitor, before, window, features, remedy, rollback>>

\* render_rollback, for the proposed action; an unsafe one ends as failed.
Render(m, a) ==
  /\ step = "incident" /\ monitor.signal = "performance"
  /\ a.type # "rollback_release" => a.version = monitor.version
  /\ rollback' = [action |-> a, from |-> m, to |-> RenderRollback(m, a)]
  /\ step' = IF rollback'.to = UnsafeRollback THEN "refused" ELSE "rendered"
  /\ UNCHANGED <<monitor, before, window, features, baseline, remedy>>

\* The approved rollback is served.  Of the windows only the current one may be
\* looked at again, as the one before the next.
Serve ==
  /\ step = "rendered"
  /\ remedy' = IF rollback.action.type = "rollback_release" THEN "release" ELSE "model"
  /\ rollback' = NoRollback
  /\ before' = NoTraffic
  /\ step' = "remedied"
  /\ UNCHANGED <<monitor, window, features, baseline>>

(***************************************************************************)
(* RecoveryEvaluator.evaluate, on the traffic c of the next window: what   *)
(* was current is now the window before, or b is the reference version's.  *)
(* A recovery that is not verified is tried again.                         *)
(***************************************************************************)
Verify(b, c) ==
  /\ step = "remedied"
  /\ monitor.reference = Unset => b = window
  /\ window' = c
  /\ step' = IF \/ remedy = "model" /\ ModelRecovered(monitor, baseline, c)
                \/ remedy = "release" /\ ReleaseRecovered(monitor, b, c)
             THEN "recovered" ELSE "remedied"
  /\ UNCHANGED <<monitor, before, features, baseline, remedy, rollback>>

Next ==
  \/ \E feature, reference \in Names \cup {Unset}, signal \in Signal \cup {Unset},
       active \in SUBSET Names : Configure(feature, reference, signal, active)
  \/ \E b, c \in Counts : Measure(b, c) \/ Verify(b, c)
  \/ \E b \in FeatureBaselines, c \in FeatureWindows : MeasureFeature(b, c)
  \/ \E m \in BranchManifests, a \in RollbackAction : Render(m, a)
  \/ \E triggered \in BOOLEAN : JudgeFeature(triggered)
  \/ Judge \/ Serve

Spec == Init /\ [][Next]_vars

-----------------------------------------------------------------------------
TypeOK ==
  /\ step \in Steps
  /\ monitor \in MonitorRow \cup {Refused}
  /\ before \in Counts /\ window \in Counts
  /\ features \in [before : Samples, current : Samples]
  /\ baseline \in Int \X Nat
  /\ remedy \in Remedies
  /\ rollback = NoRollback \/ rollback \in [action : RollbackAction, from : BranchManifests,
                                            to : ManifestRow \cup {UnsafeRollback}]

Observed == BinaryMetrics(window)[monitor.metric]

(***************************************************************************)
(* calculate_binary_metrics agrees with the textbook: f1 is                *)
(* 2tp / (2tp + fp + fn), recall and the false negative rate add up to 1,  *)
(* and both are undefined together; but f1 is undefined, not 0, as soon as *)
(* there is no true positive.                                              *)
(***************************************************************************)
MetricsAgree ==
  LET x == BinaryMetrics(window)
      tp == window.tp
      wrong == window.fp + window.fn
  IN /\ IF tp = 0 THEN x.f1 = Undefined ELSE Same(x.f1, <<2 * tp, 2 * tp + wrong>>)
     /\ IF tp + window.fn = 0
        THEN x.recall = Undefined /\ x.false_negative_rate = Undefined
        ELSE Same(Minus(<<1, 1>>, x.recall), x.false_negative_rate)

(***************************************************************************)
(* A monitor for an increase or a decrease that validate_metric accepted   *)
(* opens an incident only on what the comparison calls a degradation.      *)
(***************************************************************************)
TriggerIsDegradation ==
  /\ step = "incident" /\ monitor.operator \in {"decrease", "increase"}
  /\ Less(<<0, 1>>, monitor.threshold)
  => Direction(monitor.metric, baseline, Observed) = "degraded"

\* Monitors that look for a metric that gets worse, or is bad.
Watching(m) ==
  m.operator \in IF m.metric \in LowerIsBetter THEN {"gt", "gte", "increase"}
                                             ELSE {"lt", "lte", "decrease"}

\* One prediction that was right is wrong instead.
Spoilt(c) ==
  {d \in {[c EXCEPT !.tp = @ - 1, !.fn = @ + 1], [c EXCEPT !.tn = @ - 1, !.fp = @ + 1]} :
     d.tp >= 0 /\ d.tn >= 0}

(***************************************************************************)
(* A model that gets worse does not silence its monitor: where a window    *)
(* opens an incident, so does the window with one prediction less that was *)
(* right, unless the metric is then undefined (precision without positive  *)
(* predictions, f1 without true positives).                                *)
(***************************************************************************)
SpoiltStillTriggers ==
  step = "incident" /\ monitor.signal = "performance" /\ Watching(monitor) =>
    \A d \in Spoilt(window) :
      \/ Performance(monitor, before, d).triggered
      \/ BinaryMetrics(d)[monitor.metric] = Undefined

\* The window measured last triggers against the baseline of the incident.
StillBad ==
  Observed # Undefined /\ Matches(monitor.operator, Observed, monitor.threshold, baseline)

(***************************************************************************)
(* The recovery of a rolled back model is verified only with a window that *)
(* has a metric, and would not trigger against the baseline of the         *)
(* incident: no retry, and no threshold met exactly, makes it pass.        *)
(***************************************************************************)
RecoveryIsQuiet ==
  step = "recovered" /\ remedy = "model" => Observed # Undefined /\ ~StillBad

(***************************************************************************)
(* The recovery of a rolled back release is verified only with a window    *)
(* that would not trigger against the baseline of the incident, for a      *)
(* monitor that compares windows in time and looks for degradation.        *)
(***************************************************************************)
ReleaseRecoveryIsQuiet ==
  /\ step = "recovered" /\ remedy = "release"
  /\ Watching(monitor) /\ monitor.reference = Unset
  => ~StillBad

Serving(m) ==
  {r.version : r \in {q \in {m.stable} \cup (IF HasCandidate(m) THEN {m.candidate} ELSE {}) :
                       q.traffic > 0}}

(***************************************************************************)
(* A rollback is bounded.  The manifest it renders is valid; of a model,   *)
(* it leaves one version serving, which is not the target (unless the      *)
(* manifest names the target as its own rollback) and was the stable one   *)
(* or its declared rollback, and the features alone; of a feature's        *)
(* release, it leaves the model and the other features alone.              *)
(***************************************************************************)
RollbackIsBounded ==
  step = "rendered" =>
    LET a == rollback.action
        from == rollback.from
        to == rollback.to
    IN /\ ValidManifest(to) /\ a.here
       /\ IF a.type = "rollback_release"
          THEN /\ to.stable = from.stable /\ to.candidate = from.candidate
               /\ \A b \in Assets \ {a.asset} : to.features[b] = from.features[b]
               /\ to.features[a.asset].version = from.features[a.asset].rollback
          ELSE /\ to.features = from.features
               /\ Serving(to) = {to.stable.version}
               /\ to.stable.version \in {from.stable.version, from.stable.rollback}
               /\ a.version \in Serving(to) => from.stable.rollback = a.version

(***************************************************************************)
(* A rollback is not repeated: rendered again on its own result, it is     *)
(* refused or changes nothing, so a retried proposal undoes no more than   *)
(* the first.                                                              *)
(***************************************************************************)
RollbackOnce ==
  step = "rendered" =>
    RenderRollback(rollback.to, rollback.action) \in {UnsafeRollback, rollback.to}

(***************************************************************************)
(* A feature whose values all lie above those of the baseline has a PSI,   *)
(* if more than the last quantile of the baseline lies above its least     *)
(* value (a baseline that is mostly its least value has one bucket).       *)
(***************************************************************************)
ShiftIsSeen ==
  LET b == features.before
      c == features.current
      seen == {v \in Points : b[v] > 0}
  IN /\ Total(b) > 0 /\ Total(c) > 0
     /\ \A v \in Points : c[v] > 0 => \A u \in seen : u < v
     /\ \A v \in seen : (\E u \in seen : u # v) /\ (\A u \in seen : v <= u)
                       => Bins * b[v] <= (Bins - 1) * Total(b)
     => Shifted(b, c)

(***************************************************************************)
(* What the service hands to the engine the engine does not refuse: it is  *)
(* enabled, the version is known, the reference is another one, and a      *)
(* drift monitor has its feature, whatever was stored and whatever the     *)
(* request supplied.                                                       *)
(***************************************************************************)
EngineNeverRefuses ==
  step \notin {"request", "refused"} =>
    /\ monitor.enabled /\ monitor.version \notin {Unset, monitor.reference}
    /\ monitor.signal = "feature_drift" => monitor.feature # Unset

=============================================================================
