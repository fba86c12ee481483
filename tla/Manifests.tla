------------------------------ MODULE Manifests ------------------------------
(***************************************************************************)
(* The deployment manifest of a model and the rollbacks rendered from it.  *)
(* A release has a version, its share of the traffic and the version it    *)
(* may be rolled back to; so has a feature, but for the traffic.           *)
(*                                                                         *)
(* Abstracted: YAML, and what goes with a version (its artifact, its       *)
(* configuration); the names of the model and of the runtime.              *)
(***************************************************************************)
EXTENDS Integers

CONSTANTS
  Names,    \* versions
  Unset,    \* None
  Assets    \* the features' assets

Release == [version : Names, traffic : 0 .. 100, rollback : Names \cup {Unset}]
FeatureRelease == [version : Names, rollback : Names \cup {Unset}]

\* The payload that pydantic parses.
ManifestRow == [stable : Release, candidate : Release \cup {Unset},
                features : [Assets -> FeatureRelease \cup {Unset}]]

HasCandidate(m) == m.candidate # Unset
CandidateTraffic(m) == IF HasCandidate(m) THEN m.candidate.traffic ELSE 0

\* validate_traffic.  That no asset has two releases is the type of features.
ValidManifest(m) ==
  /\ m.stable.traffic + CandidateTraffic(m) = 100
  /\ m.stable.traffic > 0
  /\ HasCandidate(m) => m.candidate.version # m.stable.version

\* here: the deployment, model and environment of the target are this manifest's.
RollbackAction == [type : {"stop_canary", "rollback_model", "rollback_release"},
                   version : Names, asset : Assets, here : BOOLEAN]

UnsafeRollback == [stable |-> Unset, candidate |-> Unset, features |-> Unset]

\* Mutant of StopCanary: the canary is promoted.
PromoteCanary(m, v) ==
  IF ~HasCandidate(m) \/ m.candidate.version # v THEN UnsafeRollback
  ELSE [m EXCEPT !.candidate = Unset, !.stable.version = v, !.stable.traffic = 100]

\* Mutant of StopCanary: the canary keeps half of its traffic.
StepDownCanary(m, v) ==
  IF ~HasCandidate(m) \/ m.candidate.version # v THEN UnsafeRollback
  ELSE LET half == m.candidate.traffic \div 2
       IN [m EXCEPT !.stable = [@ EXCEPT !.traffic = 100 - half],
                    !.candidate = [@ EXCEPT !.traffic = half]]

\* _stop_canary.
StopCanary(m, v) ==
  IF ~HasCandidate(m) \/ m.candidate.version # v THEN UnsafeRollback
  ELSE [m EXCEPT !.stable = [@ EXCEPT !.traffic = 100],
                 !.candidate = [@ EXCEPT !.traffic = 0]]

\* _rollback_model.
RollbackModel(m, v) ==
  IF m.stable.version # v \/ m.stable.rollback = Unset THEN UnsafeRollback
  ELSE [m EXCEPT !.stable = [version |-> m.stable.rollback, traffic |-> 100,
                             rollback |-> Unset],
                 !.candidate = IF HasCandidate(m) THEN [@ EXCEPT !.traffic = 0] ELSE @]

\* _rollback_feature.
RollbackFeature(m, asset, v) ==
  LET f == m.features[asset]
  IN IF f = Unset \/ f.version # v \/ f.rollback = Unset THEN UnsafeRollback
     ELSE [m EXCEPT !.features[asset] = [version |-> f.rollback, rollback |-> Unset]]

Rendered(m, a) ==
  CASE a.type = "stop_canary" -> StopCanary(m, a.version)
    [] a.type = "rollback_model" -> RollbackModel(m, a.version)
    [] a.type = "rollback_release" -> RollbackFeature(m, a.asset, a.version)

\* render_rollback: what results is validated again.
RenderRollback(m, a) ==
  LET r == Rendered(m, a)
  IN IF ~a.here \/ r = UnsafeRollback \/ ~ValidManifest(r) THEN UnsafeRollback ELSE r

=============================================================================
