---------------------------- MODULE EvaluationProofs ----------------------------
(***************************************************************************)
(* What the evaluations of a monitor promise, for every monitor, window,   *)
(* threshold, manifest and rollback, and windows of any size.              *)
(***************************************************************************)
EXTENDS Evaluation, FiniteSetTheorems, WellFoundedInduction, TLAPS

LEMMA CountsOK == MaxCount \in Nat /\ MaxWeight \in Nat /\ MinimumSample \in Nat
BY CountsType

-----------------------------------------------------------------------------
(* The monitor                                                             *)

\* A monitor the engine accepts.
Usable(m) == m \in MonitorRow /\ Valid(m) /\ m.enabled /\ m.version # Unset

LEMMA EvaluatedUsable ==
  ASSUME NEW m \in MonitorRow, NEW feature \in Names \cup {Unset},
         NEW reference \in Names \cup {Unset}, NEW signal \in Signal \cup {Unset},
         NEW active \in SUBSET Names,
         Evaluated(m, feature, reference, signal, active) # Refused
  PROVE  Usable(Evaluated(m, feature, reference, signal, active))
<1> DEFINE merged == [m EXCEPT !.feature = Configured(@, feature),
                               !.reference = Configured(@, reference)]
<1>1. merged \in MonitorRow
  BY DEF MonitorRow, Configured
<1>2. Expected(FromRecord(m, feature, reference), signal) # Refused
  BY DEF Evaluated, Resolved
<1>3. FromRecord(m, feature, reference) # Refused
  BY <1>2 DEF Expected
<1>4. FromRecord(m, feature, reference) = merged /\ Valid(merged)
  BY <1>3 DEF FromRecord
<1> HIDE DEF merged
<1>5. Expected(merged, signal) = merged /\ Valid(merged) /\ merged.enabled
  BY <1>2, <1>4 DEF Expected
<1>6. Evaluated(m, feature, reference, signal, active) = Resolved(merged, active)
  BY <1>4, <1>5 DEF Evaluated
<1>7. CASE merged.version # Unset
  BY <1>1, <1>5, <1>6, <1>7 DEF Resolved, Usable, Evaluated
<1>8. CASE merged.version = Unset
  <2>1. Cardinality(active) = 1
    BY <1>2, <1>5, <1>6, <1>8 DEF Resolved
  <2>2. active # {}
    BY <2>1, FS_EmptySet
  <2>3. (CHOOSE v \in active : TRUE) \in Names
    BY <2>2
  <2>4. Evaluated(m, feature, reference, signal, active)
         = [merged EXCEPT !.version = CHOOSE v \in active : TRUE]
    BY <1>2, <1>5, <1>6, <1>8, <2>1 DEF Resolved
  <2>5. Valid([merged EXCEPT !.version = CHOOSE v \in active : TRUE])
    BY <1>1, <1>5, <1>8, <2>3 DEF Valid, MonitorRow
  <2>6. QED
    BY <1>1, <1>5, <2>3, <2>4, <2>5, UnsetType DEF Usable, MonitorRow
<1>9. QED
  BY <1>7, <1>8

MonitorInv ==
  /\ step = "request" => monitor \in MonitorRow
  /\ step \notin {"request", "refused"} => Usable(monitor)

LEMMA MonitorInit == Init => MonitorInv
BY DEF Init, MonitorInv

LEMMA MonitorStep ==
  ASSUME MonitorInv, [Next]_vars
  PROVE  MonitorInv'
<1>1. ASSUME NEW feature \in Names \cup {Unset}, NEW reference \in Names \cup {Unset},
             NEW signal \in Signal \cup {Unset}, NEW active \in SUBSET Names,
             Configure(feature, reference, signal, active)
      PROVE  MonitorInv'
  <2>1. /\ monitor \in MonitorRow /\ monitor' = Evaluated(monitor, feature, reference, signal, active)
        /\ step' = IF monitor' = Refused THEN "refused" ELSE "measure"
    BY <1>1 DEF Configure, MonitorInv
  <2>2. monitor' # Refused => Usable(monitor')
    BY <2>1, EvaluatedUsable
  <2>3. QED
    BY <2>1, <2>2 DEF MonitorInv, Usable
<1>2. CASE /\ monitor' = monitor /\ step' # "request"
           /\ step \in {"request", "refused"} => step' = "refused"
  BY <1>2 DEF MonitorInv, Usable
<1>3. CASE UNCHANGED vars
  BY <1>3 DEF vars, MonitorInv, Usable
<1>4. QED
  BY <1>1, <1>2, <1>3 DEF Next, Measure, Verify, MeasureFeature, Render, Judge, JudgeFeature, Serve

LEMMA MonitorSuffices == MonitorInv => EngineNeverRefuses
BY DEF MonitorInv, EngineNeverRefuses, Usable, Valid, MonitorRow

-----------------------------------------------------------------------------
(* Rollbacks                                                               *)

LEMMA RenderedManifest ==
  ASSUME NEW m \in ManifestRow, NEW a \in RollbackAction
  PROVE  /\ RenderRollback(m, a) \in ManifestRow \cup {UnsafeRollback}
         /\ RenderRollback(m, a) # UnsafeRollback =>
              /\ ValidManifest(RenderRollback(m, a)) /\ a.here
              /\ RenderRollback(m, a) = Rendered(m, a)
<1>0. /\ m.stable \in Release /\ m.candidate \in Release \cup {Unset}
      /\ m.features \in [Assets -> FeatureRelease \cup {Unset}]
      /\ a.asset \in Assets /\ a.version \in Names
  BY DEF ManifestRow, RollbackAction
<1>1. StopCanary(m, a.version) \in ManifestRow \cup {UnsafeRollback}
  <2>1. [m.stable EXCEPT !.traffic = 100] \in Release
    BY <1>0 DEF Release
  <2>2. m.candidate \in Release => [m.candidate EXCEPT !.traffic = 0] \in Release
    BY DEF Release
  <2>3. QED
    BY <1>0, <2>1, <2>2 DEF StopCanary, HasCandidate, ManifestRow
<1>2. RollbackModel(m, a.version) \in ManifestRow \cup {UnsafeRollback}
  <2>1. m.stable.rollback # Unset =>
          [version |-> m.stable.rollback, traffic |-> 100, rollback |-> Unset] \in Release
    BY <1>0 DEF Release
  <2>2. m.candidate \in Release => [m.candidate EXCEPT !.traffic = 0] \in Release
    BY DEF Release
  <2>3. (IF HasCandidate(m) THEN [m.candidate EXCEPT !.traffic = 0] ELSE m.candidate)
          \in Release \cup {Unset}
    BY <1>0, <2>2 DEF HasCandidate
  <2>4. QED
    BY <1>0, <2>1, <2>3 DEF RollbackModel, ManifestRow
<1>3. RollbackFeature(m, a.asset, a.version) \in ManifestRow \cup {UnsafeRollback}
  <2> DEFINE f == m.features[a.asset]
             g == [version |-> f.rollback, rollback |-> Unset]
  <2>1. f # Unset /\ f.rollback # Unset => g \in FeatureRelease
    BY <1>0 DEF FeatureRelease
  <2>2. g \in FeatureRelease =>
          [m EXCEPT !.features = [m.features EXCEPT ![a.asset] = g]] \in ManifestRow
    <3> HIDE DEF g
    <3>1. QED
      BY <1>0 DEF ManifestRow
  <2>3. \/ RollbackFeature(m, a.asset, a.version) = UnsafeRollback
        \/ /\ f # Unset /\ f.rollback # Unset
           /\ RollbackFeature(m, a.asset, a.version) =
                [m EXCEPT !.features = [m.features EXCEPT ![a.asset] = g]]
    BY DEF RollbackFeature, ManifestRow
  <2>4. QED
    BY <2>1, <2>2, <2>3
<1>4. Rendered(m, a) \in ManifestRow \cup {UnsafeRollback}
  BY <1>1, <1>2, <1>3 DEF Rendered, RollbackAction
<1>5. QED
  BY <1>4 DEF RenderRollback

\* The rollback that waits to be approved was rendered from the branch.
RollbackInv ==
  step = "rendered" =>
    /\ rollback.from \in BranchManifests /\ rollback.action \in RollbackAction
    /\ rollback.to = RenderRollback(rollback.from, rollback.action)
    /\ rollback.to # UnsafeRollback

LEMMA RollbackInit == Init => RollbackInv
BY DEF Init, RollbackInv

LEMMA RollbackStep ==
  ASSUME RollbackInv, [Next]_vars
  PROVE  RollbackInv'
<1>1. ASSUME NEW m \in BranchManifests, NEW a \in RollbackAction, Render(m, a) PROVE RollbackInv'
  BY <1>1 DEF Render, RollbackInv
<1>2. CASE step' # "rendered" \/ UNCHANGED vars
  BY <1>2 DEF vars, RollbackInv
<1>3. QED
  BY <1>1, <1>2 DEF Next, Configure, Measure, Verify, MeasureFeature, Judge, JudgeFeature, Serve

LEMMA BoundedRollback == RollbackInv => RollbackIsBounded
<1> SUFFICES ASSUME RollbackInv, step = "rendered" PROVE RollbackIsBounded
  BY DEF RollbackIsBounded
<1> DEFINE a == rollback.action
           from == rollback.from
           to == rollback.to
<1>1. /\ from \in ManifestRow /\ ValidManifest(from) /\ a \in RollbackAction
      /\ to = Rendered(from, a) /\ ValidManifest(to) /\ a.here /\ to # UnsafeRollback
  BY RenderedManifest, BranchType DEF RollbackInv
<1>2. /\ from.stable \in Release /\ from.candidate \in Release \cup {Unset}
      /\ from.features \in [Assets -> FeatureRelease \cup {Unset}] /\ a.asset \in Assets
  BY <1>1 DEF ManifestRow, RollbackAction
<1> HIDE DEF a, from, to
<1>3. CASE a.type = "rollback_release"
  <2> DEFINE g == [version |-> from.features[a.asset].rollback, rollback |-> Unset]
  <2>1. to = [from EXCEPT !.features = [from.features EXCEPT ![a.asset] = g]]
    BY <1>1, <1>3 DEF Rendered, RollbackFeature, ManifestRow
  <2>2. /\ to.stable = from.stable /\ to.candidate = from.candidate
        /\ to.features = [from.features EXCEPT ![a.asset] = g]
    BY <1>1, <2>1 DEF ManifestRow
  <2>3. QED
    BY <1>1, <1>2, <1>3, <2>2 DEF RollbackIsBounded, a, from, to
<1>4. CASE a.type = "stop_canary"
  <2>1. /\ HasCandidate(from) /\ from.candidate.version = a.version
        /\ to = [from EXCEPT !.stable = [from.stable EXCEPT !.traffic = 100],
                             !.candidate = [from.candidate EXCEPT !.traffic = 0]]
    BY <1>1, <1>4 DEF Rendered, StopCanary
  <2>2. /\ to.features = from.features /\ to.stable = [from.stable EXCEPT !.traffic = 100]
        /\ to.candidate = [from.candidate EXCEPT !.traffic = 0]
    BY <1>1, <2>1 DEF ManifestRow
  <2>3. /\ to.stable.version = from.stable.version /\ to.stable.traffic = 100
        /\ to.candidate.traffic = 0
    BY <1>2, <2>1, <2>2 DEF Release, HasCandidate
  <2>4. Serving(to) = {to.stable.version}
    BY <2>3 DEF Serving
  <2>5. a.version # to.stable.version
    BY <1>1, <2>1, <2>3 DEF ValidManifest
  <2>6. QED
    BY <1>1, <1>4, <2>2, <2>3, <2>4, <2>5 DEF RollbackIsBounded, a, from, to
<1>5. CASE a.type = "rollback_model"
  <2>1. to = [from EXCEPT !.stable = [version |-> from.stable.rollback, traffic |-> 100,
                                      rollback |-> Unset],
                !.candidate = IF HasCandidate(from) THEN [from.candidate EXCEPT !.traffic = 0]
                              ELSE from.candidate]
    BY <1>1, <1>5 DEF Rendered, RollbackModel
  <2>2. /\ to.features = from.features /\ to.stable.version = from.stable.rollback
        /\ to.stable.traffic = 100
        /\ to.candidate = IF HasCandidate(from) THEN [from.candidate EXCEPT !.traffic = 0]
                          ELSE from.candidate
    BY <1>1, <2>1 DEF ManifestRow
  <2>3. HasCandidate(to) => to.candidate.traffic = 0
    BY <1>2, <2>2 DEF HasCandidate, Release
  <2>4. Serving(to) = {to.stable.version}
    <3>1. \A q \in (IF HasCandidate(to) THEN {to.candidate} ELSE {}) : q.traffic = 0
      BY <2>3
    <3>2. {q \in {to.stable} \cup (IF HasCandidate(to) THEN {to.candidate} ELSE {}) : q.traffic > 0}
            = {to.stable}
      BY <2>2, <3>1
    <3>3. QED
      BY <3>2 DEF Serving
  <2>5. QED
    BY <1>1, <1>5, <2>2, <2>4 DEF RollbackIsBounded, a, from, to
<1>6. QED
  BY <1>1, <1>3, <1>4, <1>5 DEF RollbackAction

LEMMA RollbackRepeated == RollbackInv => RollbackOnce
<1> SUFFICES ASSUME RollbackInv, step = "rendered" PROVE RollbackOnce
  BY DEF RollbackOnce
<1> DEFINE a == rollback.action
           from == rollback.from
           to == rollback.to
<1>1. /\ from \in ManifestRow /\ ValidManifest(from) /\ a \in RollbackAction
      /\ to = Rendered(from, a) /\ to # UnsafeRollback
  BY RenderedManifest, BranchType DEF RollbackInv
<1>2. /\ from.stable \in Release /\ from.candidate \in Release \cup {Unset}
      /\ from.features \in [Assets -> FeatureRelease \cup {Unset}] /\ a.asset \in Assets
  BY <1>1 DEF ManifestRow, RollbackAction
<1> HIDE DEF a, from, to
<1>3. Rendered(to, a) \in {UnsafeRollback, to}
  <2>1. CASE a.type = "rollback_release"
    <3> DEFINE g == [version |-> from.features[a.asset].rollback, rollback |-> Unset]
    <3>1. to = [from EXCEPT !.features = [from.features EXCEPT ![a.asset] = g]]
      BY <1>1, <2>1 DEF Rendered, RollbackFeature, ManifestRow
    <3>2. to.features[a.asset] = g
      BY <1>1, <1>2, <3>1 DEF ManifestRow
    <3>3. QED
      BY <2>1, <3>2 DEF Rendered, RollbackFeature
  <2>2. CASE a.type = "stop_canary"
    <3>1. /\ HasCandidate(from) /\ from.candidate.version = a.version
          /\ to = [from EXCEPT !.stable = [from.stable EXCEPT !.traffic = 100],
                               !.candidate = [from.candidate EXCEPT !.traffic = 0]]
      BY <1>1, <2>2 DEF Rendered, StopCanary
    <3>2. /\ to.stable = [from.stable EXCEPT !.traffic = 100]
          /\ to.candidate = [from.candidate EXCEPT !.traffic = 0]
      BY <1>1, <3>1 DEF ManifestRow
    <3>3. from.candidate \in Release
      BY <1>2, <3>1 DEF HasCandidate
    <3>4. /\ [to.stable EXCEPT !.traffic = 100] = to.stable
          /\ [to.candidate EXCEPT !.traffic = 0] = to.candidate
      BY <1>2, <3>2, <3>3 DEF Release
    <3>5. [to EXCEPT !.stable = to.stable, !.candidate = to.candidate] = to
      BY <1>1, <3>1 DEF ManifestRow
    <3>6. QED
      BY <2>2, <3>4, <3>5 DEF Rendered, StopCanary
  <2>3. CASE a.type = "rollback_model"
    <3>1. to.stable.rollback = Unset
      BY <1>1, <2>3 DEF Rendered, RollbackModel, ManifestRow
    <3>2. QED
      BY <2>3, <3>1 DEF Rendered, RollbackModel
  <2>4. QED
    BY <1>1, <2>1, <2>2, <2>3 DEF RollbackAction
<1>4. QED
  BY <1>3 DEF RollbackOnce, RenderRollback, a, to

-----------------------------------------------------------------------------
(* Metrics                                                                 *)

\* A ratio: undefined, or with a denominator above 0.
Fraction == {Undefined} \cup (Int \X (Nat \ {0}))

LEMMA RatioTyped ==
  ASSUME NEW n \in Int, NEW d \in Nat
  PROVE  Ratio(n, d) \in Fraction
BY DEF Ratio, Fraction

LEMMA Products ==
  ASSUME NEW x \in Nat, NEW y \in Nat
  PROVE  /\ x * y \in Nat
         /\ x > 0 /\ y > 0 => x * y > 0
OBVIOUS

LEMMA F1Typed ==
  ASSUME NEW c \in Counts
  PROVE  F1(c) \in Fraction
<1>1. c.tp \in Nat /\ c.fp \in Nat /\ c.fn \in Nat
  BY CountsOK DEF Counts
<1> DEFINE p == Precision(c)
           r == Recall(c)
<1>2. CASE p = Undefined \/ r = Undefined \/ p[1] + r[1] = 0
  BY <1>2 DEF F1, Fraction
<1>3. CASE ~(p = Undefined \/ r = Undefined \/ p[1] + r[1] = 0)
  <2>1. /\ p = <<c.tp, c.tp + c.fp>> /\ r = <<c.tp, c.tp + c.fn>>
        /\ c.tp > 0
    BY <1>1, <1>3 DEF Precision, Recall, Ratio
  <2>2. F1(c) = <<2 * c.tp * c.tp, c.tp * (c.tp + c.fn) + c.tp * (c.tp + c.fp)>>
    BY <1>3, <2>1 DEF F1
  <2>3. /\ c.tp * (c.tp + c.fn) \in Nat /\ c.tp * (c.tp + c.fn) > 0
        /\ c.tp * (c.tp + c.fp) \in Nat /\ c.tp * (c.tp + c.fp) > 0
    BY <1>1, <2>1, Products
  <2>4. 2 * c.tp * c.tp \in Int
    BY <1>1
  <2>5. QED
    BY <2>2, <2>3, <2>4 DEF Fraction
<1>4. QED
  BY <1>2, <1>3

LEMMA MetricsTyped ==
  ASSUME NEW c \in Counts, NEW metric \in Metric
  PROVE  BinaryMetrics(c)[metric] \in Fraction
<1>1. c.tp \in Nat /\ c.fp \in Nat /\ c.fn \in Nat /\ c.tn \in Nat
  BY CountsOK DEF Counts
<1>2. /\ Precision(c) \in Fraction /\ Recall(c) \in Fraction
      /\ Ratio(c.fp, c.fp + c.tn) \in Fraction /\ Ratio(c.fn, c.fn + c.tp) \in Fraction
      /\ Ratio(c.tp + c.tn, Size(c)) \in Fraction
  BY <1>1, RatioTyped DEF Precision, Recall, Size
<1>3. QED
  BY <1>2, F1Typed DEF BinaryMetrics, Metric

(***************************************************************************)
(* A positive threshold is only reached by a difference that is positive.  *)
(***************************************************************************)
LEMMA ReachedIsLess ==
  ASSUME NEW p \in Int \X (Nat \ {0}), NEW q \in Int \X (Nat \ {0}),
         NEW t \in Int \X (Nat \ {0}), Less(<<0, 1>>, t), AtLeast(Minus(p, q), t)
  PROVE  Less(q, p)
<1> DEFINE d == p[1] * q[2] - q[1] * p[2]
           e == p[2] * q[2]
<1>1. /\ p[1] \in Int /\ q[1] \in Int /\ t[1] \in Int
      /\ p[2] \in Nat /\ q[2] \in Nat /\ t[2] \in Nat
      /\ p[2] > 0 /\ q[2] > 0 /\ t[2] > 0 /\ t[1] > 0
  BY DEF Less
<1>2. d \in Int /\ e \in Nat /\ e > 0 /\ t[1] * e > 0
  BY <1>1, Products
<1>3. d * t[2] >= t[1] * e
  BY <1>1, <1>2 DEF AtLeast, Less, Minus
<1> HIDE DEF e
<1>4. d > 0
  <2> HIDE DEF d
  <2>1. SUFFICES ASSUME d <= 0 PROVE FALSE
    BY <1>2
  <2>2. (-d) * t[2] \in Nat
    BY <1>1, <1>2, <2>1, Products
  <2>3. d * t[2] <= 0
    BY <1>1, <1>2, <2>2
  <2>4. QED
    BY <1>1, <1>2, <1>3, <2>3
<1>5. QED
  BY <1>1, <1>4 DEF Less

(***************************************************************************)
(* Polynomial identities behind f1 and the rates.                          *)
(***************************************************************************)
LEMMA Textbook ==
  ASSUME NEW x \in Nat, NEW y \in Nat, NEW z \in Nat
  PROVE  /\ (2 * x * x) * (2 * x + (y + z)) = (2 * x) * (x * (x + z) + x * (x + y))
         /\ (1 * (x + z) - x * 1) * (z + x) = z * (1 * (x + z))
OBVIOUS

-----------------------------------------------------------------------------
(* The order of ratios with positive denominators.                         *)

Pos == Int \X (Nat \ {0})
AtMost(p, q) == p[1] * q[2] <= q[1] * p[2]

LEMMA Cancel ==
  ASSUME NEW x \in Int, NEW y \in Int, NEW k \in Nat, k > 0
  PROVE  (k * x < k * y <=> x < y) /\ (k * x <= k * y <=> x <= y)
OBVIOUS

LEMMA Chain ==
  ASSUME NEW p \in Pos, NEW q \in Pos, NEW r \in Pos
  PROVE  /\ AtMost(p, q) /\ AtMost(q, r) => AtMost(p, r)
         /\ AtMost(p, q) /\ Less(q, r) => Less(p, r)
         /\ Less(p, q) /\ AtMost(q, r) => Less(p, r)
<1>1. /\ p[1] \in Int /\ q[1] \in Int /\ r[1] \in Int
      /\ p[2] \in Nat /\ q[2] \in Nat /\ r[2] \in Nat
      /\ p[2] > 0 /\ q[2] > 0 /\ r[2] > 0
  BY DEF Pos
<1> DEFINE a == p[1] * q[2]
           b == q[1] * p[2]
           c == q[1] * r[2]
           d == r[1] * q[2]
           x == p[1] * r[2]
           y == r[1] * p[2]
<1>2. a \in Int /\ b \in Int /\ c \in Int /\ d \in Int /\ x \in Int /\ y \in Int
  BY <1>1
<1>3. r[2] * b = p[2] * c /\ r[2] * a = q[2] * x /\ p[2] * d = q[2] * y
  BY <1>1
<1> HIDE DEF a, b, c, d, x, y
<1>4. r[2] * a \in Int /\ r[2] * b \in Int /\ p[2] * d \in Int /\ q[2] * x \in Int
      /\ q[2] * y \in Int
  BY <1>1, <1>2
<1>5. /\ a <= b => r[2] * a <= r[2] * b
      /\ a < b => r[2] * a < r[2] * b
      /\ c <= d => p[2] * c <= p[2] * d
      /\ c < d => p[2] * c < p[2] * d
      /\ q[2] * x <= q[2] * y => x <= y
      /\ q[2] * x < q[2] * y => x < y
  BY <1>1, <1>2, Cancel
<1>6. /\ a <= b /\ c <= d => x <= y
      /\ a <= b /\ c < d => x < y
      /\ a < b /\ c <= d => x < y
  BY <1>3, <1>4, <1>5
<1>7. QED
  BY <1>6 DEF AtMost, Less, a, b, c, d, x, y

LEMMA NotLess ==
  ASSUME NEW p \in Pos, NEW q \in Pos
  PROVE  AtLeast(p, q) <=> AtMost(q, p)
BY DEF Pos, AtLeast, AtMost, Less

LEMMA MinusTyped ==
  ASSUME NEW p \in Pos, NEW q \in Pos
  PROVE  Minus(p, q) \in Pos
BY DEF Pos, Minus

LEMMA Polynomials ==
  ASSUME NEW b1 \in Int, NEW b2 \in Int, NEW c1 \in Int, NEW c2 \in Int,
         NEW d1 \in Int, NEW d2 \in Int
  PROVE  /\ (b1 * d2 - d1 * b2) * (b2 * c2) - (b1 * c2 - c1 * b2) * (b2 * d2)
              = (b2 * b2) * (c1 * d2 - d1 * c2)
         /\ (c1 * b2 - b1 * c2) * (d2 * b2) - (d1 * b2 - b1 * d2) * (c2 * b2)
              = (b2 * b2) * (c1 * d2 - d1 * c2)
OBVIOUS

\* Subtraction turns the order around in its second argument and keeps it in
\* its first.
LEMMA MinusOrder ==
  ASSUME NEW b \in Pos, NEW c \in Pos, NEW d \in Pos, AtMost(d, c)
  PROVE  AtMost(Minus(b, c), Minus(b, d)) /\ AtMost(Minus(d, b), Minus(c, b))
<1>1. /\ b[1] \in Int /\ c[1] \in Int /\ d[1] \in Int
      /\ b[2] \in Nat /\ c[2] \in Nat /\ d[2] \in Nat
  BY DEF Pos
<1>2. c[1] * d[2] - d[1] * c[2] \in Nat
  BY <1>1 DEF AtMost
<1>3. (b[2] * b[2]) * (c[1] * d[2] - d[1] * c[2]) \in Nat
  BY <1>1, <1>2
<1>4. /\ (b[1] * d[2] - d[1] * b[2]) * (b[2] * c[2]) - (b[1] * c[2] - c[1] * b[2]) * (b[2] * d[2]) \in Nat
      /\ (c[1] * b[2] - b[1] * c[2]) * (d[2] * b[2]) - (d[1] * b[2] - b[1] * d[2]) * (c[2] * b[2]) \in Nat
  BY <1>1, <1>3, Polynomials
<1>5. /\ (b[1] * d[2] - d[1] * b[2]) * (b[2] * c[2]) \in Int
      /\ (b[1] * c[2] - c[1] * b[2]) * (b[2] * d[2]) \in Int
      /\ (c[1] * b[2] - b[1] * c[2]) * (d[2] * b[2]) \in Int
      /\ (d[1] * b[2] - b[1] * d[2]) * (c[2] * b[2]) \in Int
  BY <1>1
<1>6. \A x, y \in Int : x - y \in Nat => y <= x
  OBVIOUS
<1>7. QED
  BY <1>4, <1>5, <1>6 DEF AtMost, Minus

(***************************************************************************)
(* A rule that watches for a bad or a falling metric holds of every value  *)
(* below one it holds of; and the other way around.                        *)
(***************************************************************************)
LEMMA MatchesWorse ==
  ASSUME NEW o \in Pos, NEW w \in Pos, NEW t \in Pos,
         NEW base \in Pos \cup {Undefined}, NEW op
  PROVE  /\ op \in {"lt", "lte", "decrease"} /\ AtMost(w, o) /\ Matches(op, o, t, base)
              => Matches(op, w, t, base)
         /\ op \in {"gt", "gte", "increase"} /\ AtMost(o, w) /\ Matches(op, o, t, base)
              => Matches(op, w, t, base)
<1>1. AtMost(w, o) => /\ Less(o, t) => Less(w, t)
                      /\ AtLeast(t, o) => AtLeast(t, w)
  BY Chain, NotLess
<1>2. AtMost(o, w) => /\ Less(t, o) => Less(t, w)
                      /\ AtLeast(o, t) => AtLeast(w, t)
  BY Chain, NotLess
<1>3. ASSUME base # Undefined
      PROVE  /\ AtMost(w, o) /\ AtLeast(Minus(base, o), t) => AtLeast(Minus(base, w), t)
             /\ AtMost(o, w) /\ AtLeast(Minus(o, base), t) => AtLeast(Minus(w, base), t)
  <2>1. /\ base \in Pos /\ Minus(base, o) \in Pos /\ Minus(base, w) \in Pos
        /\ Minus(o, base) \in Pos /\ Minus(w, base) \in Pos
    BY <1>3, MinusTyped
  <2>2. /\ AtMost(w, o) => AtMost(Minus(base, o), Minus(base, w))
        /\ AtMost(o, w) => AtMost(Minus(o, base), Minus(w, base))
    BY <2>1, MinusOrder
  <2>3. QED
    BY <2>1, <2>2, Chain, NotLess
<1>4. QED
  BY <1>1, <1>2, <1>3 DEF Matches

(***************************************************************************)
(* A prediction that is wrong instead of right makes no metric better.     *)
(***************************************************************************)
LEMMA RatioDefined ==
  ASSUME NEW n \in Nat, NEW d \in Nat, Ratio(n, d) # Undefined
  PROVE  Ratio(n, d) = <<n, d>> /\ d > 0
BY DEF Ratio

\* Windows of any size.
Windows == [tp : Nat, fp : Nat, fn : Nat, tn : Nat]

LEMMA F1Simple ==
  ASSUME NEW c \in Windows, F1(c) # Undefined
  PROVE  /\ F1(c) \in Pos /\ <<2 * c.tp, 2 * c.tp + (c.fp + c.fn)>> \in Pos
         /\ Same(F1(c), <<2 * c.tp, 2 * c.tp + (c.fp + c.fn)>>)
<1> DEFINE tp == c.tp
           fp == c.fp
           fn == c.fn
           p == Precision(c)
           r == Recall(c)
<1>0. tp \in Nat /\ fp \in Nat /\ fn \in Nat
  BY DEF Windows
<1>1. p # Undefined /\ r # Undefined /\ p[1] + r[1] # 0
  BY DEF F1
<1>2. p = <<tp, tp + fp>> /\ r = <<tp, tp + fn>>
  BY <1>0, <1>1, RatioDefined DEF Precision, Recall
<1>3. tp > 0
  BY <1>0, <1>1, <1>2
<1> HIDE DEF tp, fp, fn
<1>4. F1(c) = <<2 * tp * tp, tp * (tp + fn) + tp * (tp + fp)>>
  BY <1>1, <1>2 DEF F1
<1>5. tp * (tp + fn) \in Nat /\ tp * (tp + fn) > 0 /\ tp * (tp + fp) \in Nat /\ tp * (tp + fp) > 0
  BY <1>0, <1>3, Products
<1>6. 2 * tp * tp \in Int
  BY <1>0
<1>7. F1(c) \in Pos
  BY <1>4, <1>5, <1>6 DEF Pos
<1>8. (2 * tp * tp) * (2 * tp + (fp + fn)) = (2 * tp) * (tp * (tp + fn) + tp * (tp + fp))
  BY <1>0, Textbook
<1>9. Same(F1(c), <<2 * tp, 2 * tp + (fp + fn)>>)
  BY <1>4, <1>8 DEF Same
<1>10. QED
  BY <1>0, <1>3, <1>7, <1>9 DEF Pos, tp, fp, fn

LEMMA SameIsAtMost ==
  ASSUME NEW p \in Pos, NEW q \in Pos, Same(p, q)
  PROVE  AtMost(p, q) /\ AtMost(q, p)
BY DEF Pos, Same, AtMost

LEMMA SpoiltWorse ==
  ASSUME NEW c \in Windows, NEW d \in Windows,
         \/ d.tp = c.tp - 1 /\ d.fn = c.fn + 1 /\ d.fp = c.fp /\ d.tn = c.tn
         \/ d.tn = c.tn - 1 /\ d.fp = c.fp + 1 /\ d.tp = c.tp /\ d.fn = c.fn,
         NEW metric \in Metric,
         BinaryMetrics(c)[metric] # Undefined, BinaryMetrics(d)[metric] # Undefined
  PROVE  /\ BinaryMetrics(c)[metric] \in Pos /\ BinaryMetrics(d)[metric] \in Pos
         /\ IF metric \in LowerIsBetter
            THEN AtMost(BinaryMetrics(c)[metric], BinaryMetrics(d)[metric])
            ELSE AtMost(BinaryMetrics(d)[metric], BinaryMetrics(c)[metric])
<1> DEFINE tp == c.tp
           fp == c.fp
           fn == c.fn
           tn == c.tn
           tq == d.tp
           fq == d.fp
           fm == d.fn
           tm == d.tn
<1>0. /\ tp \in Nat /\ fp \in Nat /\ fn \in Nat /\ tn \in Nat
      /\ tq \in Nat /\ fq \in Nat /\ fm \in Nat /\ tm \in Nat
      /\ \/ tq = tp - 1 /\ fm = fn + 1 /\ fq = fp /\ tm = tn
         \/ tm = tn - 1 /\ fq = fp + 1 /\ tq = tp /\ fm = fn
  BY DEF Windows
<1>1. CASE metric = "precision"
  <2>1. /\ Precision(c) = <<tp, tp + fp>> /\ tp + fp > 0
        /\ Precision(d) = <<tq, tq + fq>> /\ tq + fq > 0
    BY <1>1, <1>0, RatioDefined DEF BinaryMetrics, Precision
  <2>2. tq * (tp + fp) <= tp * (tq + fq)
    <3> HIDE DEF tp, fp, fn, tn, tq, fq, fm, tm
    <3>1. QED
      BY <1>0
  <2>3. QED
    BY <1>1, <2>1, <2>2, <1>0 DEF BinaryMetrics, LowerIsBetter, AtMost, Pos
<1>2. CASE metric = "recall"
  <2>1. /\ Recall(c) = <<tp, tp + fn>> /\ tp + fn > 0
        /\ Recall(d) = <<tq, tq + fm>> /\ tq + fm > 0
    BY <1>2, <1>0, RatioDefined DEF BinaryMetrics, Recall
  <2>2. tq * (tp + fn) <= tp * (tq + fm)
    <3> HIDE DEF tp, fp, fn, tn, tq, fq, fm, tm
    <3>1. QED
      BY <1>0
  <2>3. QED
    BY <1>2, <2>1, <2>2, <1>0 DEF BinaryMetrics, LowerIsBetter, AtMost, Pos
<1>3. CASE metric = "f1"
  <2> DEFINE p == <<2 * tp, 2 * tp + (fp + fn)>>
             q == <<2 * tq, 2 * tq + (fq + fm)>>
  <2>1. F1(c) # Undefined /\ F1(d) # Undefined
    BY <1>3 DEF BinaryMetrics
  <2>2. F1(c) \in Pos /\ p \in Pos /\ AtMost(p, F1(c))
    BY <2>1, F1Simple, SameIsAtMost
  <2>3. F1(d) \in Pos /\ q \in Pos /\ AtMost(F1(d), q)
    BY <2>1, F1Simple, SameIsAtMost
  <2>4. (2 * tq) * (2 * tp + (fp + fn)) <= (2 * tp) * (2 * tq + (fq + fm))
    <3> HIDE DEF tp, fp, fn, tn, tq, fq, fm, tm
    <3>1. QED
      BY <1>0
  <2>5. AtMost(q, p)
    BY <2>4 DEF AtMost
  <2> HIDE DEF p, q
  <2>6. AtMost(F1(d), F1(c))
    BY <2>2, <2>3, <2>5, Chain
  <2>7. QED
    BY <1>3, <2>2, <2>3, <2>6 DEF BinaryMetrics, LowerIsBetter
<1>4. CASE metric = "false_positive_rate"
  <2>1. /\ Ratio(fp, fp + tn) = <<fp, fp + tn>> /\ fp + tn > 0
        /\ Ratio(fq, fq + tm) = <<fq, fq + tm>> /\ fq + tm > 0
    BY <1>4, <1>0, RatioDefined DEF BinaryMetrics
  <2>2. fp * (fq + tm) <= fq * (fp + tn)
    <3> HIDE DEF tp, fp, fn, tn, tq, fq, fm, tm
    <3>1. QED
      BY <1>0
  <2>3. QED
    BY <1>4, <2>1, <2>2, <1>0 DEF BinaryMetrics, LowerIsBetter, AtMost, Pos
<1>5. CASE metric = "false_negative_rate"
  <2>1. /\ Ratio(fn, fn + tp) = <<fn, fn + tp>> /\ fn + tp > 0
        /\ Ratio(fm, fm + tq) = <<fm, fm + tq>> /\ fm + tq > 0
    BY <1>5, <1>0, RatioDefined DEF BinaryMetrics
  <2>2. fn * (fm + tq) <= fm * (fn + tp)
    <3> HIDE DEF tp, fp, fn, tn, tq, fq, fm, tm
    <3>1. QED
      BY <1>0
  <2>3. QED
    BY <1>5, <2>1, <2>2, <1>0 DEF BinaryMetrics, LowerIsBetter, AtMost, Pos
<1>6. CASE metric = "accuracy"
  <2>0. Size(c) \in Nat /\ Size(d) \in Nat /\ tp + tn \in Nat /\ tq + tm \in Nat
    BY <1>0 DEF Size
  <2>1. /\ Ratio(tp + tn, Size(c)) = <<tp + tn, Size(c)>> /\ Size(c) > 0
        /\ Ratio(tq + tm, Size(d)) = <<tq + tm, Size(d)>> /\ Size(d) > 0
    BY <1>6, <2>0, RatioDefined DEF BinaryMetrics
  <2>2. Size(d) = Size(c) /\ Size(c) \in Nat /\ tq + tm <= tp + tn
    BY <1>0 DEF Size
  <2>3. (tq + tm) * Size(c) <= (tp + tn) * Size(d)
    <3> HIDE DEF tp, fp, fn, tn, tq, fq, fm, tm
    <3>1. QED
      BY <1>0, <2>1, <2>2
  <2>4. QED
    BY <1>6, <2>1, <2>2, <2>3, <1>0 DEF BinaryMetrics, LowerIsBetter, AtMost, Pos
<1>7. QED
  BY <1>1, <1>2, <1>3, <1>4, <1>5, <1>6 DEF Metric

-----------------------------------------------------------------------------
(* Samples.  What holds of a finite set by induction is proved by looking  *)
(* at a least counterexample.                                              *)

LEMMA LeastSet ==
  ASSUME NEW S, IsFiniteSet(S), NEW Bad, Bad \subseteq SUBSET S, Bad # {}
  PROVE  \E T \in Bad : \A U \in Bad : U \subseteq T => U = T
<1>1. IsWellFoundedOn(StrictSubsetOrdering(S), SUBSET S)
  BY FS_StrictSubsetOrderingWellFounded, FS_FiniteSubsetsOfFinite
<1>2. \E x \in Bad : \A y \in Bad : ~ (<<y, x>> \in StrictSubsetOrdering(S))
  BY <1>1, WFMin
<1>3. QED
  BY <1>2 DEF StrictSubsetOrdering

LEMMA LeastImage ==
  ASSUME NEW S, IsFiniteSet(S), S # {}, NEW f \in [S -> SUBSET S]
  PROVE  \E x \in S : \A y \in S : f[y] \subseteq f[x] => f[y] = f[x]
<1> DEFINE Bad == {f[x] : x \in S}
<1>1. Bad \subseteq SUBSET S
  OBVIOUS
<1>2. Bad # {}
  OBVIOUS
<1>3. \E T \in Bad : \A U \in Bad : U \subseteq T => U = T
  <2> HIDE DEF Bad
  <2>1. QED
    BY <1>1, <1>2, LeastSet
<1>4. QED
  BY <1>3

LEMMA Least ==
  ASSUME NEW S, S \subseteq Int, IsFiniteSet(S), S # {}
  PROVE  \E x \in S : \A y \in S : x <= y
<1> DEFINE f == [x \in S |-> {y \in S : y <= x}]
<1>1. PICK x \in S : \A y \in S : f[y] \subseteq f[x] => f[y] = f[x]
  <2>1. f \in [S -> SUBSET S]
    OBVIOUS
  <2>2. \A g \in [S -> SUBSET S] : \E x \in S : \A y \in S : g[y] \subseteq g[x] => g[y] = g[x]
    BY LeastImage
  <2> HIDE DEF f
  <2>3. QED
    BY <2>1, <2>2
<1>2. ASSUME NEW y \in S, ~(x <= y) PROVE FALSE
  <2>1. x \in Int /\ y \in Int /\ y < x
    BY <1>2
  <2>2. \A z \in S : z \in f[y] => z \in f[x]
    BY <2>1
  <2>3. x \notin f[y] /\ x \in f[x]
    BY <2>1
  <2>4. f[y] \subseteq f[x]
    BY <2>2
  <2> HIDE DEF f
  <2>5. QED
    BY <1>1, <2>3, <2>4
<1>3. QED
  BY <1>2

LEMMA Greatest ==
  ASSUME NEW S, S \subseteq Int, IsFiniteSet(S), S # {}
  PROVE  \E x \in S : \A y \in S : y <= x
<1> DEFINE f == [x \in S |-> {y \in S : x <= y}]
<1>1. PICK x \in S : \A y \in S : f[y] \subseteq f[x] => f[y] = f[x]
  <2>1. f \in [S -> SUBSET S]
    OBVIOUS
  <2>2. \A g \in [S -> SUBSET S] : \E x \in S : \A y \in S : g[y] \subseteq g[x] => g[y] = g[x]
    BY LeastImage
  <2> HIDE DEF f
  <2>3. QED
    BY <2>1, <2>2
<1>2. ASSUME NEW y \in S, ~(y <= x) PROVE FALSE
  <2>1. x \in Int /\ y \in Int /\ x < y
    BY <1>2
  <2>2. \A z \in S : z \in f[y] => z \in f[x]
    BY <2>1
  <2>3. x \notin f[y] /\ x \in f[x]
    BY <2>1
  <2>4. f[y] \subseteq f[x]
    BY <2>2
  <2> HIDE DEF f
  <2>5. QED
    BY <1>1, <2>3, <2>4
<1>3. QED
  BY <1>2

\* The element a fold takes first, and the function it computes.
First(S) == CHOOSE x \in S : TRUE
Sums(g, s, S) == g = [U \in SUBSET S |-> IF U = {} THEN 0 ELSE s[First(U)] + g[U \ {First(U)}]]

LEMMA FirstIn == \A S : S # {} => First(S) \in S
BY DEF First

LEMMA WeightSums ==
  ASSUME NEW s, NEW S
  PROVE  Weight(s, S) = (CHOOSE g : Sums(g, s, S))[S]
BY DEF Weight, FoldFunctionOnSet, MapThenFoldSet, Sums, First

LEMMA SumsAgree ==
  ASSUME NEW s, NEW S, IsFiniteSet(S), NEW V \in SUBSET S, NEW g, NEW h,
         Sums(g, s, S), Sums(h, s, V)
  PROVE  g[V] = h[V]
<1> DEFINE Bad == {U \in SUBSET V : g[U] # h[U]}
<1>1. ASSUME Bad # {} PROVE FALSE
  <2>0. Bad \subseteq SUBSET V
    OBVIOUS
  <2>1. \E U \in Bad : \A T \in Bad : T \subseteq U => T = U
    <3> HIDE DEF Bad
    <3>1. QED
      BY <1>1, <2>0, LeastSet, FS_Subset
  <2>2. PICK U \in Bad : \A T \in Bad : T \subseteq U => T = U
    BY <2>1
  <2>3. /\ g[U] = IF U = {} THEN 0 ELSE s[First(U)] + g[U \ {First(U)}]
        /\ h[U] = IF U = {} THEN 0 ELSE s[First(U)] + h[U \ {First(U)}]
    BY DEF Sums
  <2>4. U # {} => g[U \ {First(U)}] = h[U \ {First(U)}]
    BY <2>2, FirstIn
  <2>5. QED
    BY <2>3, <2>4
<1>2. QED
  BY <1>1

LEMMA SumsExist ==
  ASSUME NEW s, NEW S, IsFiniteSet(S)
  PROVE  \E g : Sums(g, s, S)
<1> DEFINE Bad == {V \in SUBSET S : ~ \E g : Sums(g, s, V)}
<1>1. ASSUME Bad # {} PROVE FALSE
  <2>0. Bad \subseteq SUBSET S
    OBVIOUS
  <2>1. \E V \in Bad : \A T \in Bad : T \subseteq V => T = V
    <3> HIDE DEF Bad
    <3>1. QED
      BY <1>1, <2>0, LeastSet, FS_Subset
  <2>2. PICK V \in Bad : \A T \in Bad : T \subseteq V => T = V
    BY <2>1
  <2> DEFINE g == [U \in SUBSET V |-> IF U = {} THEN 0
                                    ELSE s[First(U)] + Weight(s, U \ {First(U)})]
  <2>3. ASSUME NEW U \in SUBSET V, U # V
        PROVE  Weight(s, U) = IF U = {} THEN 0 ELSE s[First(U)] + Weight(s, U \ {First(U)})
    <3>1. PICK h : h = CHOOSE x : Sums(x, s, U)
      OBVIOUS
    <3>2. Sums(h, s, U) /\ Weight(s, U) = h[U]
      BY <2>2, <2>3, <3>1, WeightSums
    <3>3. h[U] = IF U = {} THEN 0 ELSE s[First(U)] + h[U \ {First(U)}]
      BY <3>2 DEF Sums
    <3>4. ASSUME U # {} PROVE h[U \ {First(U)}] = Weight(s, U \ {First(U)})
      <4>1. PICK k : k = CHOOSE x : Sums(x, s, U \ {First(U)})
        OBVIOUS
      <4>2. U \ {First(U)} \in SUBSET V /\ U \ {First(U)} # V
        BY <2>3
      <4>3. Sums(k, s, U \ {First(U)}) /\ Weight(s, U \ {First(U)}) = k[U \ {First(U)}]
        BY <2>2, <4>1, <4>2, WeightSums
      <4>4. IsFiniteSet(U)
        BY FS_Subset
      <4>5. QED
        BY <3>2, <4>3, <4>4, SumsAgree
    <3>5. QED
      BY <3>2, <3>3, <3>4
  <2>4. ASSUME NEW U \in SUBSET V, U # {}
        PROVE  g[U \ {First(U)}] = Weight(s, U \ {First(U)})
    <3>1. U \ {First(U)} \in SUBSET V /\ U \ {First(U)} # V
      BY <2>4, FirstIn
    <3>2. QED
      BY <2>3, <3>1
  <2>5. Sums(g, s, V)
    <3>1. g = [U \in SUBSET V |-> IF U = {} THEN 0 ELSE s[First(U)] + g[U \ {First(U)}]]
      BY <2>4
    <3>2. QED
      BY <3>1 DEF Sums
  <2>6. QED
    BY <2>5
<1>2. QED
  BY <1>1

LEMMA WeightFirst ==
  ASSUME NEW s, NEW S, IsFiniteSet(S)
  PROVE  Weight(s, S) = IF S = {} THEN 0 ELSE s[First(S)] + Weight(s, S \ {First(S)})
<1>1. PICK h : h = CHOOSE x : Sums(x, s, S)
  OBVIOUS
<1>2. Sums(h, s, S) /\ Weight(s, S) = h[S]
  BY <1>1, SumsExist, WeightSums
<1>3. PICK k : k = CHOOSE x : Sums(x, s, S \ {First(S)})
  OBVIOUS
<1>4. Sums(k, s, S \ {First(S)}) /\ Weight(s, S \ {First(S)}) = k[S \ {First(S)}]
  BY <1>3, SumsExist, WeightSums, FS_Subset
<1>5. h[S] = IF S = {} THEN 0 ELSE s[First(S)] + h[S \ {First(S)}]
  BY <1>2 DEF Sums
<1>6. h[S \ {First(S)}] = k[S \ {First(S)}]
  BY <1>2, <1>4, SumsAgree
<1>7. QED
  BY <1>2, <1>4, <1>5, <1>6

LEMMA WeightType ==
  ASSUME NEW S, IsFiniteSet(S), NEW s \in [S -> Nat], NEW A \in SUBSET S
  PROVE  Weight(s, A) \in Nat
<1> DEFINE Bad == {U \in SUBSET S : Weight(s, U) \notin Nat}
<1>1. ASSUME Bad # {} PROVE FALSE
  <2>0. Bad \subseteq SUBSET S
    OBVIOUS
  <2>1. \E U \in Bad : \A T \in Bad : T \subseteq U => T = U
    <3> HIDE DEF Bad
    <3>1. QED
      BY <1>1, <2>0, LeastSet, FS_Subset
  <2>2. PICK U \in Bad : \A T \in Bad : T \subseteq U => T = U
    BY <2>1
  <2>3. Weight(s, U) = IF U = {} THEN 0 ELSE s[First(U)] + Weight(s, U \ {First(U)})
    BY WeightFirst, FS_Subset
  <2>4. U # {} => First(U) \in S /\ Weight(s, U \ {First(U)}) \in Nat
    BY <2>2, FirstIn
  <2>5. U # {} => s[First(U)] \in Nat
    BY <2>4
  <2>6. QED
    BY <2>3, <2>4, <2>5
<1>2. QED
  BY <1>1

\* Whichever element is taken first.
LEMMA WeightRemove ==
  ASSUME NEW S, IsFiniteSet(S), NEW s \in [S -> Nat], NEW A \in SUBSET S, NEW x \in A
  PROVE  Weight(s, A) = s[x] + Weight(s, A \ {x})
<1> DEFINE Bad == {U \in SUBSET S : \E y \in U : Weight(s, U) # s[y] + Weight(s, U \ {y})}
<1>1. ASSUME Bad # {} PROVE FALSE
  <2>0. Bad \subseteq SUBSET S
    OBVIOUS
  <2>1. \E U \in Bad : \A T \in Bad : T \subseteq U => T = U
    <3> HIDE DEF Bad
    <3>1. QED
      BY <1>1, <2>0, LeastSet, FS_Subset
  <2>2. PICK U \in Bad : \A T \in Bad : T \subseteq U => T = U
    BY <2>1
  <2>3. PICK y \in U : Weight(s, U) # s[y] + Weight(s, U \ {y})
    BY <2>2
  <2> DEFINE z == First(U)
  <2>4. z \in U /\ Weight(s, U) = s[z] + Weight(s, U \ {z})
    BY WeightFirst, FS_Subset, FirstIn
  <2> HIDE DEF z
  <2>5. CASE y = z
    BY <2>3, <2>4, <2>5
  <2>6. CASE y # z
    <3>1. Weight(s, U \ {z}) = s[y] + Weight(s, (U \ {z}) \ {y})
      <4>1. U \ {z} \notin Bad
        BY <2>2, <2>4
      <4>2. QED
        BY <2>6, <4>1
    <3>2. Weight(s, U \ {y}) = s[z] + Weight(s, (U \ {y}) \ {z})
      <4>1. U \ {y} \notin Bad
        BY <2>2
      <4>2. QED
        BY <2>4, <2>6, <4>1
    <3>3. (U \ {z}) \ {y} = (U \ {y}) \ {z}
      OBVIOUS
    <3>4. s[y] \in Nat /\ s[z] \in Nat /\ Weight(s, (U \ {y}) \ {z}) \in Nat
      BY <2>4, WeightType
    <3>5. QED
      BY <2>3, <2>4, <3>1, <3>2, <3>3, <3>4
  <2>7. QED
    BY <2>5, <2>6
<1>2. QED
  BY <1>1

LEMMA WeightSplit ==
  ASSUME NEW S, IsFiniteSet(S), NEW s \in [S -> Nat], NEW A \in SUBSET S, NEW B \in SUBSET A
  PROVE  Weight(s, A) = Weight(s, B) + Weight(s, A \ B)
<1> DEFINE Bad == {U \in SUBSET A : Weight(s, A) # Weight(s, U) + Weight(s, A \ U)}
<1>1. ASSUME Bad # {} PROVE FALSE
  <2>0. Bad \subseteq SUBSET A
    OBVIOUS
  <2>1. \E U \in Bad : \A T \in Bad : T \subseteq U => T = U
    <3> HIDE DEF Bad
    <3>1. QED
      BY <1>1, <2>0, LeastSet, FS_Subset
  <2>2. PICK U \in Bad : \A T \in Bad : T \subseteq U => T = U
    BY <2>1
  <2>11. U \in SUBSET A /\ Weight(s, A) # Weight(s, U) + Weight(s, A \ U)
    BY <2>2
  <2>3. ASSUME U = {} PROVE FALSE
    <3>1. Weight(s, U) = 0
      BY <2>3, WeightFirst, FS_EmptySet
    <3>2. A \ U = A /\ Weight(s, A) \in Nat
      BY <2>3, WeightType
    <3>3. QED
      BY <2>11, <3>1, <3>2
  <2>4. PICK x \in U : TRUE
    BY <2>3
  <2>5. Weight(s, A) = Weight(s, U \ {x}) + Weight(s, A \ (U \ {x}))
    BY <2>2
  <2>6. Weight(s, A \ (U \ {x})) = s[x] + Weight(s, (A \ (U \ {x})) \ {x})
    BY WeightRemove
  <2>7. (A \ (U \ {x})) \ {x} = A \ U
    OBVIOUS
  <2>8. Weight(s, U) = s[x] + Weight(s, U \ {x})
    BY WeightRemove
  <2>9. s[x] \in Nat /\ Weight(s, U \ {x}) \in Nat /\ Weight(s, A \ U) \in Nat
    BY WeightType
  <2>10. QED
    <3>0. Weight(s, A \ (U \ {x})) = s[x] + Weight(s, A \ U)
      BY <2>6, <2>7
    <3> HIDE DEF Bad
    <3>1. QED
      BY <2>11, <2>5, <2>6, <2>7, <2>8, <2>9, <3>0
<1>2. QED
  BY <1>1

LEMMA WeightZero ==
  ASSUME NEW S, IsFiniteSet(S), NEW s \in [S -> Nat], NEW A \in SUBSET S,
         \A x \in A : s[x] = 0
  PROVE  Weight(s, A) = 0
<1> DEFINE Bad == {U \in SUBSET A : Weight(s, U) # 0}
<1>1. ASSUME Bad # {} PROVE FALSE
  <2>0. Bad \subseteq SUBSET A
    OBVIOUS
  <2>1. \E U \in Bad : \A T \in Bad : T \subseteq U => T = U
    <3> HIDE DEF Bad
    <3>1. QED
      BY <1>1, <2>0, LeastSet, FS_Subset
  <2>2. PICK U \in Bad : \A T \in Bad : T \subseteq U => T = U
    BY <2>1
  <2>3. Weight(s, U) = IF U = {} THEN 0 ELSE s[First(U)] + Weight(s, U \ {First(U)})
    BY <2>0, WeightFirst, FS_Subset
  <2>4. U # {} => s[First(U)] = 0 /\ Weight(s, U \ {First(U)}) = 0
    BY <2>2, FirstIn
  <2>5. QED
    BY <2>2, <2>3, <2>4
<1>2. QED
  BY <1>1

LEMMA SampleTyped ==
  ASSUME NEW s \in Samples
  PROVE  s \in [Points -> Nat]
BY CountsOK DEF Samples

LEMMA QuotientBounds ==
  ASSUME NEW n \in Nat, NEW d \in Nat, d > 0
  PROVE  n \div d \in Nat /\ d * (n \div d) <= n /\ n < d * (n \div d) + d
OBVIOUS

\* Every index below the size of a sample has its value, which occurs.
LEMMA SortedOccurs ==
  ASSUME NEW s \in Samples, NEW i \in Nat, i < Total(s)
  PROVE  /\ Sorted(s, i) \in Points /\ s[Sorted(s, i)] > 0
         /\ Weight(s, {u \in Points : u < Sorted(s, i)}) <= i
         /\ i < Weight(s, {u \in Points : u <= Sorted(s, i)})
<1> DEFINE below(v) == {u \in Points : u < v}
           upTo(v) == {u \in Points : u <= v}
           Enough == {v \in Points : i < Weight(s, upTo(v))}
<1>0. s \in [Points -> Nat] /\ IsFiniteSet(Points) /\ \A v \in Points : v \in Int
  BY SampleTyped, PointsType
<1>1. Enough # {}
  <2>1. Points # {}
    <3>1. Weight(s, {}) = 0
      BY WeightFirst, FS_EmptySet
    <3>2. QED
      BY <3>1 DEF Total
  <2>2. PICK v \in Points : \A u \in Points : u <= v
    BY <2>1, PointsType, Greatest
  <2>3. upTo(v) = Points
    BY <2>2
  <2>4. QED
    BY <2>3 DEF Total
<1>2. PICK v \in Enough : \A u \in Enough : v <= u
  <2>1. Enough \subseteq Points
    OBVIOUS
  <2>2. IsFiniteSet(Enough) /\ Enough \subseteq Int
    BY <2>1, PointsType, FS_Subset
  <2> HIDE DEF Enough
  <2>3. QED
    BY <1>1, <2>2, Least
<1>3. v \in Points /\ v \in Int /\ i < Weight(s, upTo(v))
  BY <1>0, <1>2
<1>4. Weight(s, below(v)) \in Nat /\ Weight(s, upTo(v)) \in Nat
  BY <1>0, WeightType
<1>5. ASSUME i < Weight(s, below(v)) PROVE FALSE
  <2>1. below(v) # {}
    <3>1. Weight(s, {}) = 0
      BY WeightFirst, FS_EmptySet
    <3>2. QED
      BY <1>5, <3>1
  <2>2. below(v) \subseteq Int /\ IsFiniteSet(below(v))
    BY <1>0, PointsType, FS_Subset
  <2>3. PICK w \in below(v) : \A u \in below(v) : u <= w
    <3> HIDE DEF below
    <3>1. QED
      BY <2>1, <2>2, Greatest
  <2>4. w \in Points /\ w < v /\ w \in Int
    BY <1>0, <2>3
  <2>5. upTo(w) = below(v)
    <3>1. \A u \in Points : u <= w <=> u < v
      BY <1>0, <1>3, <2>3, <2>4
    <3>2. QED
      BY <3>1
  <2>6. w \in Enough
    BY <1>5, <2>4, <2>5
  <2>7. QED
    BY <1>2, <1>3, <2>4, <2>6
<1>6. Weight(s, below(v)) <= i
  BY <1>4, <1>5
<1>7. \A w \in Points : Weight(s, below(w)) <= i /\ i < Weight(s, upTo(w)) => s[w] > 0
  <2> TAKE w \in Points
  <2> HAVE Weight(s, below(w)) <= i /\ i < Weight(s, upTo(w))
  <2>1. upTo(w) \ {w} = below(w)
    BY <1>0
  <2>2. w \in upTo(w) /\ upTo(w) \subseteq Points
    BY <1>0
  <2>3. Weight(s, upTo(w)) = s[w] + Weight(s, upTo(w) \ {w})
    BY <1>0, <2>2, WeightRemove
  <2>4. s[w] \in Nat /\ Weight(s, below(w)) \in Nat /\ Weight(s, upTo(w)) \in Nat
    BY <1>0, WeightType
  <2> HIDE DEF upTo, below
  <2>5. QED
    BY <2>1, <2>3, <2>4
<1>8. QED
  <2>1. \E w \in Points : Weight(s, {u \in Points : u < w}) <= i
                          /\ i < Weight(s, {u \in Points : u <= w})
    BY <1>3, <1>6
  <2>2. /\ Sorted(s, i) \in Points
        /\ Weight(s, {u \in Points : u < Sorted(s, i)}) <= i
        /\ i < Weight(s, {u \in Points : u <= Sorted(s, i)})
    BY <2>1 DEF Sorted
  <2>3. QED
    BY <1>7, <2>2

LEMMA TotalPositive ==
  ASSUME NEW s \in Samples, Total(s) > 0
  PROVE  \E v \in Points : s[v] > 0
<1>1. s \in [Points -> Nat] /\ IsFiniteSet(Points)
  BY SampleTyped, PointsType
<1>2. ASSUME \A v \in Points : s[v] = 0 PROVE FALSE
  <2>1. Weight(s, Points) = 0
    BY <1>1, <1>2, WeightZero
  <2>2. QED
    BY <2>1 DEF Total
<1>3. \A v \in Points : s[v] \in Nat
  BY <1>1
<1>4. QED
  BY <1>2, <1>3

LEMMA BoundariesOccur ==
  ASSUME NEW s \in Samples, Total(s) > 0
  PROVE  \A d \in Boundaries(s) : d \in Points /\ s[d] > 0
<1>0. Total(s) \in Nat /\ Bins \in Nat /\ Bins > 0
  <2>1. s \in [Points -> Nat] /\ IsFiniteSet(Points)
    BY SampleTyped, PointsType
  <2>2. QED
    BY <2>1, WeightType, BinsType DEF Total
<1>1. ASSUME NEW i \in 1 .. Bins - 1
      PROVE  (i * Total(s)) \div Bins \in Nat /\ (i * Total(s)) \div Bins < Total(s)
  <2> DEFINE n == i * Total(s)
             q == n \div Bins
  <2>1. n \in Nat /\ i \in Nat /\ i < Bins
    BY <1>0
  <2>2. q \in Nat /\ Bins * q <= n
    BY <1>0, <2>1, QuotientBounds
  <2>3. n < Bins * Total(s)
    BY <1>0, <2>1
  <2> HIDE DEF n, q
  <2>4. ~(Total(s) <= q)
    BY <1>0, <2>2, <2>3, <2>1
  <2>5. QED
    BY <1>0, <2>2, <2>4 DEF n, q
<1>2. \A i \in 1 .. Bins - 1 : LET d == Sorted(s, (i * Total(s)) \div Bins)
                               IN  d \in Points /\ s[d] > 0
  BY <1>1, SortedOccurs
<1>3. QED
  BY <1>2 DEF Boundaries

LEMMA ShiftShows ==
  ASSUME NEW b \in Samples, NEW c \in Samples, Total(b) > 0, Total(c) > 0,
         NEW m \in Points, b[m] > 0, \A u \in Points : b[u] > 0 => m <= u,
         Bins * b[m] <= (Bins - 1) * Total(b),
         \A v \in Points : c[v] > 0 => \A u \in Points : b[u] > 0 => u < v
  PROVE  \E j \in 0 .. Cardinality(Boundaries(b)) : ~SameShare(b, c, InBucket(Boundaries(b), j))
<1> DEFINE bs == Boundaries(b)
           top == InBucket(bs, Cardinality(bs))
           last == ((Bins - 1) * Total(b)) \div Bins
<1>0. /\ b \in [Points -> Nat] /\ c \in [Points -> Nat] /\ IsFiniteSet(Points)
      /\ \A v \in Points : v \in Int
      /\ Total(b) \in Nat /\ Total(c) \in Nat /\ b[m] \in Nat /\ Bins \in Nat /\ Bins >= 2
  BY SampleTyped, PointsType, WeightType, BinsType DEF Total
<1>1. bs \subseteq Points /\ \A d \in bs : b[d] > 0
  BY BoundariesOccur
<1>2. IsFiniteSet(bs) /\ Cardinality(bs) \in Nat
  BY <1>0, <1>1, FS_Subset, FS_CardinalityType
<1>3. last \in Nat /\ b[m] <= last /\ last < Total(b)
  <2> DEFINE n == (Bins - 1) * Total(b)
  <2>1. n \in Nat
    BY <1>0
  <2>2. last \in Nat /\ Bins * last <= n /\ n < Bins * last + Bins
    BY <1>0, <2>1, QuotientBounds
  <2>3. n < Bins * Total(b) /\ Bins * b[m] <= n
    BY <1>0
  <2> HIDE DEF n, last
  <2>4. ~(Total(b) <= last)
    BY <1>0, <2>1, <2>2, <2>3
  <2>5. ~(last + 1 <= b[m])
    BY <1>0, <2>1, <2>2, <2>3
  <2>6. QED
    BY <1>0, <2>2, <2>4, <2>5
<1> DEFINE d == Sorted(b, last)
<1>4. /\ d \in Points /\ b[d] > 0 /\ last < Weight(b, {u \in Points : u <= d})
  <2> HIDE DEF last
  <2>1. QED
    BY <1>3, SortedOccurs
<1>5. d \in bs
  <2>1. Bins - 1 \in 1 .. Bins - 1
    BY <1>0
  <2>2. QED
    BY <2>1 DEF Boundaries
<1> HIDE DEF d, last
\* The last boundary lies above the least value.
<1>6. m < d
  <2>1. ASSUME d = m PROVE FALSE
    <3> DEFINE upTo == {u \in Points : u <= m}
    <3>1. \A u \in upTo \ {m} : b[u] = 0
      BY <1>0
    <3>2. Weight(b, upTo \ {m}) = 0
      BY <1>0, <3>1, WeightZero
    <3>3. m \in upTo
      BY <1>0
    <3>4. Weight(b, upTo) = b[m] + Weight(b, upTo \ {m})
      BY <1>0, <3>3, WeightRemove
    <3>5. Weight(b, upTo) = b[m]
      BY <1>0, <3>2, <3>4
    <3>6. last < Weight(b, upTo)
      BY <1>4, <2>1
    <3> HIDE DEF upTo
    <3>7. QED
      BY <1>0, <1>3, <3>5, <3>6
  <2>2. m <= d
    BY <1>4
  <2>3. QED
    BY <1>0, <1>4, <2>1, <2>2
\* All of the current sample is in the last bucket, the least value is not.
<1>7. \A v \in Points \ top : c[v] = 0
  <2> TAKE v \in Points \ top
  <2>1. ASSUME c[v] > 0 PROVE FALSE
    <3>1. \A u \in bs : u <= v
      BY <1>0, <1>1, <2>1
    <3>2. {u \in bs : u <= v} = bs
      BY <3>1
    <3>3. QED
      BY <3>2 DEF InBucket, Bucket
  <2>2. c[v] \in Nat
    BY <1>0
  <2>3. QED
    BY <2>1, <2>2
<1>8. m \notin top
  <2>1. {u \in bs : u <= m} \in SUBSET bs /\ d \notin {u \in bs : u <= m}
    BY <1>0, <1>4, <1>6
  <2>2. Cardinality({u \in bs : u <= m}) # Cardinality(bs)
    BY <1>2, <1>5, <2>1, FS_Subset
  <2>3. QED
    BY <2>2 DEF InBucket, Bucket
<1>9. top \subseteq Points
  BY DEF InBucket
<1> HIDE DEF top
<1>10. Weight(c, top) = Total(c)
  <2>1. Weight(c, Points \ top) = 0
    BY <1>0, <1>7, WeightZero
  <2>2. Weight(c, Points) = Weight(c, top) + Weight(c, Points \ top)
    BY <1>0, <1>9, WeightSplit
  <2>3. Weight(c, top) \in Nat
    BY <1>0, <1>9, WeightType
  <2>4. QED
    BY <2>1, <2>2, <2>3 DEF Total
<1>11. Weight(b, top) \in Nat /\ Weight(b, top) < Total(b)
  <2>1. Weight(b, Points) = Weight(b, top) + Weight(b, Points \ top)
    BY <1>0, <1>9, WeightSplit
  <2>2. Weight(b, Points \ top) = b[m] + Weight(b, (Points \ top) \ {m})
    BY <1>0, <1>8, WeightRemove
  <2>3. Weight(b, top) \in Nat /\ Weight(b, (Points \ top) \ {m}) \in Nat
    BY <1>0, <1>9, WeightType
  <2>4. QED
    BY <1>0, <2>1, <2>2, <2>3 DEF Total
<1>12. ~SameShare(b, c, top)
  <2>1. \A x, t, y \in Nat : x < t /\ y > 0 => x * y # y * t
    OBVIOUS
  <2>2. ~Tiny(c, top)
    BY <1>0, <1>10 DEF Tiny
  <2>3. Weight(b, top) * Total(c) # Weight(c, top) * Total(b)
    BY <1>0, <1>10, <1>11, <2>1
  <2>4. QED
    BY <2>2, <2>3 DEF SameShare
<1>13. QED
  BY <1>2, <1>12 DEF top

(***************************************************************************)
(* Of any two samples: a sample that lies wholly above the baseline has a  *)
(* PSI, unless the least value is all the baseline's quantiles.            *)
(***************************************************************************)
LEMMA ShiftFollows ==
  features \in [before : Samples, current : Samples] => ShiftIsSeen
<1> SUFFICES ASSUME features \in [before : Samples, current : Samples] PROVE ShiftIsSeen
  OBVIOUS
<1> DEFINE b == features.before
           c == features.current
           seen == {v \in Points : b[v] > 0}
<1>1. b \in Samples /\ c \in Samples
  OBVIOUS
<1> HIDE DEF b, c
<1>2. SUFFICES ASSUME Total(b) > 0, Total(c) > 0,
                      \A v \in Points : c[v] > 0 => \A u \in seen : u < v,
                      \A v \in seen : (\E u \in seen : u # v) /\ (\A u \in seen : v <= u)
                                        => Bins * b[v] <= (Bins - 1) * Total(b)
               PROVE  Shifted(b, c)
  BY DEF ShiftIsSeen, b, c
<1>3. PICK m \in seen : \A u \in seen : m <= u
  <2>1. seen # {}
    BY <1>1, <1>2, TotalPositive
  <2>2. seen \subseteq Int /\ IsFiniteSet(seen)
    BY PointsType, FS_Subset
  <2> HIDE DEF seen
  <2>3. QED
    BY <2>1, <2>2, Least
<1>4. CASE Cardinality(seen) = 1
  <2>1. \A v \in Points : c[v] \in Nat /\ v \in Int
    BY <1>1, SampleTyped, PointsType
  <2>2. \A v \in seen : c[v] = 0
    BY <1>2, <2>1
  <2>3. Weight(c, seen) = 0
    BY <1>1, <2>2, SampleTyped, PointsType, WeightZero
  <2>4. QED
    BY <1>2, <1>4, <2>3 DEF Shifted
<1>5. CASE Cardinality(seen) # 1
  <2>1. \E u \in seen : u # m
    <3>1. seen # {m}
      BY <1>5, FS_Singleton
    <3>2. QED
      BY <3>1
  <2>2. Bins * b[m] <= (Bins - 1) * Total(b)
    BY <1>2, <1>3, <2>1
  <2>3. m \in Points /\ b[m] > 0 /\ \A u \in Points : b[u] > 0 => m <= u
    BY <1>3
  <2>4. \A v \in Points : c[v] > 0 => \A u \in Points : b[u] > 0 => u < v
    BY <1>2
  <2>5. \E j \in 0 .. Cardinality(Boundaries(b)) : ~SameShare(b, c, InBucket(Boundaries(b), j))
    BY <1>1, <1>2, <2>2, <2>3, <2>4, ShiftShows
  <2>6. QED
    BY <1>2, <1>5, <2>5 DEF Shifted
<1>6. QED
  BY <1>4, <1>5

-----------------------------------------------------------------------------
(* Verdicts                                                                *)

\* An incident, and a verified recovery, still has the windows it was judged by.
VerdictInv ==
  /\ before \in Counts /\ window \in Counts
  /\ step = "incident" /\ monitor.signal = "performance" =>
       /\ Performance(monitor, before, window).triggered
       /\ baseline = BinaryMetrics(before)[monitor.metric]
  /\ step = "recovered" /\ remedy = "model" => ModelRecovered(monitor, baseline, window)

LEMMA VerdictInit == Init => VerdictInv
BY CountsOK DEF Init, VerdictInv, NoTraffic, Counts

LEMMA VerdictStep ==
  ASSUME VerdictInv, [Next]_vars
  PROVE  VerdictInv'
<1>0. NoTraffic \in Counts
  BY CountsOK DEF NoTraffic, Counts
<1>1. ASSUME NEW b \in Counts, NEW c \in Counts, Measure(b, c) PROVE VerdictInv'
  BY <1>1 DEF Measure, VerdictInv
<1>2. ASSUME NEW b \in Counts, NEW c \in Counts, Verify(b, c) PROVE VerdictInv'
  <2>1. /\ step' = "recovered" /\ remedy' = "model" => ModelRecovered(monitor, baseline, c)
        /\ step' # "incident" /\ before' = before /\ window' = c
    BY <1>2 DEF Verify
  <2>2. monitor' = monitor /\ baseline' = baseline
    BY <1>2 DEF Verify
  <2>3. QED
    BY <2>1, <2>2 DEF VerdictInv
<1>3. CASE Judge
  <2>1. /\ step' \in {"incident", "quiet"}
        /\ step' = "incident" => /\ Performance(monitor, before, window).triggered
                                /\ baseline' = Performance(monitor, before, window).baseline
    BY <1>3 DEF Judge
  <2>2. Performance(monitor, before, window).baseline = BinaryMetrics(before)[monitor.metric]
    BY DEF Performance, Result
  <2>3. monitor' = monitor /\ before' = before /\ window' = window
    BY <1>3 DEF Judge
  <2>4. QED
    BY <2>1, <2>2, <2>3 DEF VerdictInv
<1>4. ASSUME NEW triggered \in BOOLEAN, JudgeFeature(triggered) PROVE VerdictInv'
  BY <1>4 DEF JudgeFeature, VerdictInv
<1>5. CASE /\ step' \notin {"incident", "recovered"}
           /\ before' \in {before, NoTraffic} /\ window' = window
  BY <1>0, <1>5 DEF VerdictInv
<1>6. CASE UNCHANGED vars
  BY <1>6 DEF vars, VerdictInv
<1>7. QED
  BY <1>1, <1>2, <1>3, <1>4, <1>5, <1>6 DEF Next, Configure, MeasureFeature, Render, Serve

LEMMA DegradationFollows == MonitorInv /\ VerdictInv => TriggerIsDegradation
<1> SUFFICES ASSUME MonitorInv, VerdictInv, step = "incident",
                    monitor.operator \in {"decrease", "increase"},
                    Less(<<0, 1>>, monitor.threshold)
             PROVE  Direction(monitor.metric, baseline, Observed) = "degraded"
  BY DEF TriggerIsDegradation
<1>1. monitor \in MonitorRow /\ Valid(monitor)
  BY DEF MonitorInv, Usable
<1>2. monitor.signal = "performance"
  BY <1>1 DEF Valid, MonitorRow, Signal
<1>3. /\ monitor.metric \in Metric
      /\ monitor.operator = "decrease" => monitor.metric \notin LowerIsBetter
      /\ monitor.operator = "increase" => monitor.metric \in LowerIsBetter
  BY <1>1, <1>2 DEF Valid
<1>4. monitor.threshold \in Thresholds
  BY <1>1 DEF MonitorRow
<1>5. Performance(monitor, before, window).triggered /\ baseline = BinaryMetrics(before)[monitor.metric]
  BY <1>2 DEF VerdictInv
<1>6. /\ Observed # Undefined
      /\ Matches(monitor.operator, Observed, monitor.threshold, baseline)
  BY <1>5 DEF Performance, Result, Observed
<1>7. baseline \in Fraction /\ Observed \in Fraction
  BY <1>3, <1>5, MetricsTyped DEF VerdictInv, Observed
<1> DEFINE p == baseline
           q == Observed
           t == monitor.threshold
<1>8. /\ p # Undefined /\ q # Undefined
      /\ monitor.operator = "decrease" => AtLeast(Minus(p, q), t)
      /\ monitor.operator = "increase" => AtLeast(Minus(q, p), t)
  BY <1>6 DEF Matches
<1>9. p \in Int \X (Nat \ {0}) /\ q \in Int \X (Nat \ {0})
  BY <1>7, <1>8 DEF Fraction
<1>10. t \in Int \X (Nat \ {0})
  BY <1>4, ThresholdsType
<1> HIDE DEF p, q, t
<1>11. /\ monitor.operator = "decrease" => Less(q, p)
       /\ monitor.operator = "increase" => Less(p, q)
  BY <1>8, <1>9, <1>10, ReachedIsLess DEF t
<1>12. ~(Less(q, p) /\ Less(p, q)) /\ (Less(q, p) \/ Less(p, q) => ~Same(p, q))
  BY <1>9 DEF Less, Same
<1>13. QED
  <2>1. CASE monitor.operator = "decrease"
    BY <1>3, <1>8, <1>11, <1>12, <2>1 DEF Direction, p, q
  <2>2. CASE monitor.operator = "increase"
    <3>1. ~Less(q, p) /\ ~(monitor.metric \notin LowerIsBetter)
      BY <1>3, <1>11, <1>12, <2>2
    <3>2. Less(q, p) = (monitor.metric \notin LowerIsBetter)
      <4>1. Less(q, p) = FALSE
        BY <3>1 DEF Less
      <4>2. QED
        BY <3>1, <4>1
    <3>3. QED
      BY <1>8, <1>11, <1>12, <2>2, <3>2 DEF Direction, p, q
  <2>3. QED
    BY <2>1, <2>2

LEMMA QuietFollows == VerdictInv => RecoveryIsQuiet
BY DEF VerdictInv, RecoveryIsQuiet, StillBad, ModelRecovered, Passed, RecoveryPerformance,
       Result, Observed

LEMMA TextbookMetrics == VerdictInv => MetricsAgree
<1> SUFFICES ASSUME window \in Counts PROVE MetricsAgree
  BY DEF VerdictInv
<1> DEFINE tp == window.tp
           fp == window.fp
           fn == window.fn
<1>1. tp \in Nat /\ fp \in Nat /\ fn \in Nat
  BY CountsOK DEF Counts
<1>2. /\ BinaryMetrics(window).f1 = F1(window) /\ BinaryMetrics(window).recall = Recall(window)
      /\ BinaryMetrics(window).false_negative_rate = Ratio(fn, fn + tp)
  BY DEF BinaryMetrics
<1>3. Precision(window) = Ratio(tp, tp + fp) /\ Recall(window) = Ratio(tp, tp + fn)
  BY DEF Precision, Recall
<1> HIDE DEF tp, fp, fn
<1>4. tp = 0 => F1(window) = Undefined
  BY <1>1, <1>3 DEF F1, Ratio, Undefined
<1>5. tp > 0 => F1(window) = <<2 * tp * tp, tp * (tp + fn) + tp * (tp + fp)>>
  BY <1>1, <1>3 DEF F1, Ratio, Undefined
<1>6. tp > 0 => Same(F1(window), <<2 * tp, 2 * tp + (fp + fn)>>)
  <2>1. (2 * tp * tp) * (2 * tp + (fp + fn)) = (2 * tp) * (tp * (tp + fn) + tp * (tp + fp))
    BY <1>1, Textbook
  <2>2. QED
    BY <1>5, <2>1 DEF Same
<1>7. tp + fn = 0 => Recall(window) = Undefined /\ Ratio(fn, fn + tp) = Undefined
  BY <1>1, <1>3 DEF Ratio
<1>8. tp + fn # 0 => Same(Minus(<<1, 1>>, Recall(window)), Ratio(fn, fn + tp))
  <2>1. (1 * (tp + fn) - tp * 1) * (fn + tp) = fn * (1 * (tp + fn))
    BY <1>1, Textbook
  <2>2. tp + fn # 0 => Recall(window) = <<tp, tp + fn>> /\ Ratio(fn, fn + tp) = <<fn, fn + tp>>
    BY <1>1, <1>3 DEF Ratio
  <2>3. QED
    BY <2>1, <2>2 DEF Same, Minus
<1>9. QED
  BY <1>1, <1>2, <1>4, <1>6, <1>7, <1>8 DEF MetricsAgree, tp, fp, fn

LEMMA SpoiltFollows == MonitorInv /\ VerdictInv => SpoiltStillTriggers
<1> SUFFICES ASSUME MonitorInv, VerdictInv, step = "incident", monitor.signal = "performance",
                    Watching(monitor), NEW d \in Spoilt(window),
                    BinaryMetrics(d)[monitor.metric] # Undefined
             PROVE  Performance(monitor, before, d).triggered
  BY DEF SpoiltStillTriggers
<1> DEFINE m == monitor.metric
           op == monitor.operator
           t == monitor.threshold
           o == BinaryMetrics(window)[m]
           w == BinaryMetrics(d)[m]
           base == BinaryMetrics(before)[m]
<1>1. /\ m \in Metric /\ t \in Pos
      /\ op \in IF m \in LowerIsBetter THEN {"gt", "gte", "increase"} ELSE {"lt", "lte", "decrease"}
  <2>1. monitor \in MonitorRow /\ Valid(monitor)
    BY DEF MonitorInv, Usable
  <2>2. monitor.metric \in Metric /\ monitor.threshold \in Thresholds
    BY <2>1 DEF Valid, MonitorRow
  <2>3. QED
    BY <2>2, ThresholdsType DEF Watching, Pos
<1>2. /\ Size(before) >= MinimumSample /\ Size(window) >= MinimumSample
      /\ o # Undefined /\ Matches(op, o, t, base)
  BY DEF VerdictInv, Performance, Result
<1>3. base \in Pos \cup {Undefined}
  BY <1>1, MetricsTyped DEF VerdictInv, Fraction, Pos
<1>4. window \in Windows
  BY CountsOK DEF VerdictInv, Counts, Windows
<1>5. /\ d \in Windows
      /\ \/ d.tp = window.tp - 1 /\ d.fn = window.fn + 1 /\ d.fp = window.fp /\ d.tn = window.tn
         \/ d.tn = window.tn - 1 /\ d.fp = window.fp + 1 /\ d.tp = window.tp /\ d.fn = window.fn
  <2>1. CASE d = [window EXCEPT !.tp = @ - 1, !.fn = @ + 1] /\ d.tp >= 0
    <3>1. /\ d.tp = window.tp - 1 /\ d.fn = window.fn + 1
          /\ d.fp = window.fp /\ d.tn = window.tn
      BY <1>4, <2>1 DEF Windows
    <3>2. window.tp - 1 \in Nat /\ window.fn + 1 \in Nat
      BY <1>4, <2>1, <3>1 DEF Windows
    <3>3. QED
      BY <1>4, <2>1, <3>1, <3>2 DEF Windows
  <2>2. CASE d = [window EXCEPT !.tn = @ - 1, !.fp = @ + 1] /\ d.tn >= 0
    <3>1. /\ d.tn = window.tn - 1 /\ d.fp = window.fp + 1
          /\ d.tp = window.tp /\ d.fn = window.fn
      BY <1>4, <2>2 DEF Windows
    <3>2. window.tn - 1 \in Nat /\ window.fp + 1 \in Nat
      BY <1>4, <2>2, <3>1 DEF Windows
    <3>3. QED
      BY <1>4, <2>2, <3>1, <3>2 DEF Windows
  <2>3. QED
    BY <2>1, <2>2 DEF Spoilt
<1>6. Size(d) >= MinimumSample
  BY <1>2, <1>4, <1>5 DEF Size, Windows
<1>7. /\ o \in Pos /\ w \in Pos
      /\ IF m \in LowerIsBetter THEN AtMost(o, w) ELSE AtMost(w, o)
  BY <1>1, <1>2, <1>4, <1>5, SpoiltWorse
<1>8. Matches(op, w, t, base)
  <2> HIDE DEF o, w, t, base, m, op
  <2>1. QED
    BY <1>1, <1>2, <1>3, <1>7, MatchesWorse
<1>9. QED
  BY <1>2, <1>6, <1>8 DEF Performance, Result

-----------------------------------------------------------------------------
(* Types                                                                   *)

ValueTypes ==
  /\ step \in Steps /\ remedy \in Remedies
  /\ features \in [before : Samples, current : Samples]
  /\ baseline \in Int \X Nat

RollbackType ==
  rollback = NoRollback \/ rollback \in [action : RollbackAction, from : BranchManifests,
                                        to : ManifestRow \cup {UnsafeRollback}]

MonitorType == monitor \in MonitorRow \cup {Refused}

LEMMA TypeInit == Init => ValueTypes /\ RollbackType /\ MonitorType
<1>1. NoSamples \in [before : Samples, current : Samples]
  BY CountsOK DEF NoSamples, Samples
<1>2. QED
  BY <1>1 DEF Init, ValueTypes, RollbackType, MonitorType, Steps, Remedies, Undefined

LEMMA RollbackTypeStep ==
  ASSUME RollbackType, [Next]_vars
  PROVE  RollbackType'
<1>1. ASSUME NEW m \in BranchManifests, NEW a \in RollbackAction, Render(m, a)
      PROVE  RollbackType'
  <2>1. RenderRollback(m, a) \in ManifestRow \cup {UnsafeRollback}
    BY RenderedManifest, BranchType
  <2>2. QED
    BY <1>1, <2>1 DEF Render, RollbackType
<1>2. CASE rollback' \in {rollback, NoRollback}
  BY <1>2 DEF RollbackType
<1>3. QED
  BY <1>1, <1>2 DEF Next, vars, Configure, Measure, MeasureFeature, Judge, JudgeFeature, Serve, Verify

LEMMA MonitorTypeStep ==
  ASSUME MonitorType, MonitorInv, [Next]_vars
  PROVE  MonitorType'
<1>1. ASSUME NEW feature \in Names \cup {Unset}, NEW reference \in Names \cup {Unset},
             NEW signal \in Signal \cup {Unset}, NEW active \in SUBSET Names,
             Configure(feature, reference, signal, active)
      PROVE  MonitorType'
  BY <1>1, EvaluatedUsable DEF Configure, MonitorInv, MonitorType, Usable
<1>2. CASE monitor' = monitor
  BY <1>2 DEF MonitorType
<1>3. QED
  BY <1>1, <1>2 DEF Next, vars, Measure, MeasureFeature, Render, Judge, JudgeFeature, Serve, Verify

LEMMA ValueTypesStep ==
  ASSUME ValueTypes, MonitorInv, VerdictInv, [Next]_vars
  PROVE  ValueTypes'
<1>1. ASSUME NEW b \in FeatureBaselines, NEW c \in FeatureWindows, MeasureFeature(b, c)
      PROVE  ValueTypes'
  BY <1>1, SamplesType DEF MeasureFeature, ValueTypes, Steps
<1>2. CASE Judge
  <2>1. monitor.metric \in Metric
    BY <1>2 DEF Judge, MonitorInv, Usable, Valid
  <2>2. BinaryMetrics(before)[monitor.metric] \in Int \X Nat
    BY <2>1, MetricsTyped DEF VerdictInv, Fraction, Undefined
  <2>3. Performance(monitor, before, window).baseline \in Int \X Nat
    BY <2>2 DEF Performance, Result
  <2>4. baseline' \in Int \X Nat
    BY <1>2, <2>3 DEF Judge, ValueTypes
  <2>5. QED
    BY <1>2, <2>4 DEF Judge, ValueTypes, Steps
<1>3. ASSUME NEW triggered \in BOOLEAN, JudgeFeature(triggered) PROVE ValueTypes'
  BY <1>3 DEF JudgeFeature, ValueTypes, Steps
<1>4. CASE /\ step' \in Steps /\ remedy' \in Remedies
           /\ features' = features /\ baseline' = baseline
  BY <1>4 DEF ValueTypes
<1>5. CASE UNCHANGED vars
  BY <1>5 DEF vars, ValueTypes
<1>6. ASSUME NEW feature \in Names \cup {Unset}, NEW reference \in Names \cup {Unset},
             NEW signal \in Signal \cup {Unset}, NEW active \in SUBSET Names,
             Configure(feature, reference, signal, active)
      PROVE  ValueTypes'
  BY <1>4, <1>6 DEF Configure, ValueTypes, Steps
<1>7. ASSUME NEW b \in Counts, NEW c \in Counts, Measure(b, c) \/ Verify(b, c)
      PROVE  ValueTypes'
  BY <1>4, <1>7 DEF Measure, Verify, ValueTypes, Steps
<1>8. ASSUME NEW m \in BranchManifests, NEW a \in RollbackAction, Render(m, a)
      PROVE  ValueTypes'
  BY <1>4, <1>8 DEF Render, ValueTypes, Steps
<1>9. CASE Serve
  BY <1>4, <1>9 DEF Serve, ValueTypes, Steps, Remedies
<1>10. QED
  BY <1>1, <1>2, <1>3, <1>5, <1>6, <1>7, <1>8, <1>9 DEF Next

-----------------------------------------------------------------------------
(* The inductive invariant and what follows from it                        *)

EvaluationInv ==
  ValueTypes /\ RollbackType /\ MonitorType /\ MonitorInv /\ RollbackInv /\ VerdictInv

LEMMA EvaluationInduction == Spec => []EvaluationInv
<1>1. Init => EvaluationInv
  BY TypeInit, MonitorInit, RollbackInit, VerdictInit DEF EvaluationInv
<1>2. EvaluationInv /\ [Next]_vars => EvaluationInv'
  BY ValueTypesStep, RollbackTypeStep, MonitorTypeStep, MonitorStep, RollbackStep, VerdictStep
     DEF EvaluationInv
<1>3. QED
  BY <1>1, <1>2, PTL DEF Spec

(***************************************************************************)
(* An evaluation works on values of its types.                             *)
(***************************************************************************)
THEOREM EvaluationTypeCorrect == Spec => []TypeOK
<1>1. EvaluationInv => TypeOK
  BY DEF EvaluationInv, ValueTypes, RollbackType, MonitorType, VerdictInv, TypeOK
<1>2. QED
  BY <1>1, EvaluationInduction, PTL

(***************************************************************************)
(* Whatever is stored and supplied, the engine is only handed monitors it  *)
(* accepts.                                                                *)
(***************************************************************************)
THEOREM EngineAccepts == Spec => []EngineNeverRefuses
<1>1. EvaluationInv => EngineNeverRefuses
  BY MonitorSuffices DEF EvaluationInv
<1>2. QED
  BY <1>1, EvaluationInduction, PTL

(***************************************************************************)
(* The metrics of every window are those of the textbook, but for the f1   *)
(* of a window without true positives.                                     *)
(***************************************************************************)
THEOREM MetricsAreTextbook == Spec => []MetricsAgree
<1>1. EvaluationInv => MetricsAgree
  BY TextbookMetrics DEF EvaluationInv
<1>2. QED
  BY <1>1, EvaluationInduction, PTL

(***************************************************************************)
(* A monitor of change with a positive threshold opens incidents only on a *)
(* degradation, whatever the windows.                                      *)
(***************************************************************************)
THEOREM IncidentsAreDegradations == Spec => []TriggerIsDegradation
<1>1. EvaluationInv => TriggerIsDegradation
  BY DegradationFollows DEF EvaluationInv
<1>2. QED
  BY <1>1, EvaluationInduction, PTL

(***************************************************************************)
(* A model's recovery is verified only by a window that would not have     *)
(* opened the incident, however often it is tried.                         *)
(***************************************************************************)
THEOREM RecoveriesAreQuiet == Spec => []RecoveryIsQuiet
<1>1. EvaluationInv => RecoveryIsQuiet
  BY QuietFollows DEF EvaluationInv
<1>2. QED
  BY <1>1, EvaluationInduction, PTL

(***************************************************************************)
(* A rendered rollback is a valid manifest that changes only what the      *)
(* action names, for every manifest.                                       *)
(***************************************************************************)
THEOREM RollbacksAreBounded == Spec => []RollbackIsBounded
<1>1. EvaluationInv => RollbackIsBounded
  BY BoundedRollback DEF EvaluationInv
<1>2. QED
  BY <1>1, EvaluationInduction, PTL

(***************************************************************************)
(* A rollback rendered from its own result is refused or changes nothing,  *)
(* for every manifest.                                                     *)
(***************************************************************************)
THEOREM RollbacksAreNotRepeated == Spec => []RollbackOnce
<1>1. EvaluationInv => RollbackOnce
  BY RollbackRepeated DEF EvaluationInv
<1>2. QED
  BY <1>1, EvaluationInduction, PTL

(***************************************************************************)
(* A model that gets worse keeps its monitor triggered, for windows of any *)
(* size, every threshold and each of the six metrics.                      *)
(***************************************************************************)
THEOREM WorseStillTriggers == Spec => []SpoiltStillTriggers
<1>1. EvaluationInv => SpoiltStillTriggers
  BY SpoiltFollows DEF EvaluationInv
<1>2. QED
  BY <1>1, EvaluationInduction, PTL

(***************************************************************************)
(* A feature whose values have all left those of its baseline upwards has  *)
(* a PSI, for samples of any size over any finite set of values and any    *)
(* number of bins, unless the baseline's quantiles are all its least value.*)
(***************************************************************************)
THEOREM ShiftsAreSeen == Spec => []ShiftIsSeen
<1>1. EvaluationInv => ShiftIsSeen
  BY ShiftFollows DEF EvaluationInv, ValueTypes
<1>2. QED
  BY <1>1, EvaluationInduction, PTL

=============================================================================
