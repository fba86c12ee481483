------------------------------- MODULE DemoProofs -------------------------------
(***************************************************************************)
(* What the runs of the demo promise, for any number of runs, workers and  *)
(* requests, whoever is slow or dies, whatever GETs refresh, and whatever  *)
(* becomes of the incident.                                                *)
(***************************************************************************)
EXTENDS DemoRuns, TLAPS

USE DEF histories

Emits(w, r) == worker[w].run = r /\ worker[w].step \in {"emit", "monitor", "mark"}
Recovers(w, r) == worker[w].run = r /\ worker[w].step \in {"replay", "note"}

\* Whoever works on a run, or answers a request about one, has one.
Shape ==
  /\ \A w \in Workers : worker[w].step \notin {"idle", "claim", "recover"} => worker[w].run # None
  /\ \A q \in Requests : request[q].step # "idle" => request[q].run # None

LEMMA BoundsOK == MaxReplays \in Nat /\ MaxRepeats \in Nat /\ MaxCrashes \in Nat
BY BoundsType

-----------------------------------------------------------------------------
(* Types                                                                   *)

\* A state that may be stored with a run.
State == {"running", "awaiting_approval", "resolved", "failed"}
           \X {"monitoring", "investigating", "awaiting_approval", "remediating",
               "verifying", "resolved", "failed"}

LEMMA DerivedTyped ==
  ASSUME NEW s \in SceneRow
  PROVE  DerivedState(s) \in State
BY DEF SceneRow, DerivedState, State

LEMMA PartTyped ==
  ASSUME TypeOK, NEW w \in Workers, ReplayedInPart(w)
  PROVE  replays' \in [Runs -> [traffic : 0 .. MaxReplays, recovery : 0 .. MaxReplays]]
BY BoundsOK DEF ReplayedInPart, TypeOK, CountReplay

\* What refresh makes of a row.
Refreshed(r) ==
  IF demo[r].status \in {"running", "awaiting_approval"}
  THEN [demo[r] EXCEPT !.status = DerivedState(Seen(r))[1], !.stage = DerivedState(Seen(r))[2]]
  ELSE demo[r]

LEMMA RefreshIs ==
  ASSUME TypeOK, NEW r \in Runs, RefreshRun(r)
  PROVE  demo' = [demo EXCEPT ![r] = Refreshed(r)]
BY DEF TypeOK, RefreshRun, Refreshed, SetState

LEMMA SeenTyped ==
  ASSUME TypeOK, NEW r \in Runs
  PROVE  Seen(r) \in SceneRow /\ DerivedState(Seen(r)) \in State
<1>1. EmptyScene \in SceneRow /\ scene[r] \in SceneRow
  BY BoundsOK DEF EmptyScene, SceneRow, TypeOK
<1>2. QED
  BY <1>1, DerivedTyped DEF Seen

\* A row with other values in some columns.
LEMMA RowTyped ==
  ASSUME NEW row \in RunRow, NEW status \in Active \cup Ended, NEW lease \in {"none", "live", "expired"},
         NEW stage \in {"emitting_traffic", "monitoring", "investigating", "awaiting_approval",
                        "remediating", "verifying", "emitting_recovery_traffic", "resolved",
                        "failed"}
  PROVE  /\ [row EXCEPT !.status = status] \in RunRow
         /\ [row EXCEPT !.status = status, !.stage = stage] \in RunRow
         /\ [row EXCEPT !.status = status, !.stage = stage, !.lease = lease] \in RunRow
         /\ [row EXCEPT !.stage = stage, !.lease = lease] \in RunRow
         /\ [row EXCEPT !.lease = lease] \in RunRow
BY DEF RunRow

LEMMA ResultTyped ==
  ASSUME NEW row \in RunRow, NEW key \in {"traffic", "recovery_traffic", "reset"}
  PROVE  /\ Merged(row.result, key) \in SUBSET {"traffic", "recovery_traffic", "reset"}
         /\ [row EXCEPT !.result = Merged(@, key)] \in RunRow
BY DEF RunRow, Merged

LEMMA RunUpdated ==
  ASSUME TypeOK, NEW r \in Runs, NEW row \in RunRow, demo' = [demo EXCEPT ![r] = row]
  PROVE  demo' \in [Runs -> RunRow]
BY DEF TypeOK

LEMMA Moved ==
  ASSUME TypeOK, NEW w \in Workers, NEW step, NEW r, Goto(w, step, r),
         [step |-> step, run |-> r] \in WorkerRow
  PROVE  worker' \in [Workers -> WorkerRow]
BY DEF TypeOK, Goto

LEMMA RefreshTyped ==
  ASSUME TypeOK, NEW r \in Runs
  PROVE  Refreshed(r) \in RunRow
<1>1. DerivedState(Seen(r)) \in State /\ demo[r] \in RunRow
  BY SeenTyped DEF TypeOK
<1>2. /\ DerivedState(Seen(r))[1] \in Active \cup Ended
      /\ DerivedState(Seen(r))[2] \in {"monitoring", "investigating", "awaiting_approval",
                                       "remediating", "verifying", "resolved", "failed"}
  BY <1>1 DEF State, Active, Ended
<1>3. QED
  BY <1>1, <1>2, RowTyped DEF Refreshed

LEMMA TypeInit == Init => TypeOK
<1> SUFFICES ASSUME Init PROVE TypeOK
  OBVIOUS
<1>1. AbsentRun \in RunRow /\ EmptyScene \in SceneRow
  BY BoundsOK DEF AbsentRun, RunRow, EmptyScene, SceneRow, Active, Ended
<1>2. candidate \in BOOLEAN
  BY Zenon DEF Init
<1>3. QED
  BY <1>1, <1>2, BoundsOK DEF Init, TypeOK, WorkerRow, IdleWorker, RequestRow, IdleRequest

LEMMA WorkerTyped ==
  ASSUME TypeOK, NEW w \in Workers, WorkerStep(w)
  PROVE  TypeOK'
<1>0. /\ worker \in [Workers -> WorkerRow] /\ demo \in [Runs -> RunRow]
      /\ scene \in [Runs -> SceneRow]
      /\ \A step \in {"idle", "refresh", "claim", "emit", "monitor", "mark", "recover",
                      "replay", "note"}, r \in Runs \cup {None} :
           [step |-> step, run |-> r] \in WorkerRow
  BY DEF TypeOK, WorkerRow
<1>1. CASE ListActive(w) \/ NothingQueued(w) \/ NothingToRecover(w)
  <2>1. worker' \in [Workers -> WorkerRow]
    BY <1>0, <1>1, Moved DEF ListActive, NothingQueued, NothingToRecover
  <2>2. QED
    BY <1>1, <2>1 DEF ListActive, NothingQueued, NothingToRecover, TypeOK
<1>2. ASSUME NEW r \in Runs, RefreshActive(w, r) PROVE TypeOK'
  <2>1. worker' \in [Workers -> WorkerRow] /\ demo' \in [Runs -> RunRow]
    BY <1>0, <1>2, Moved, RefreshIs, RefreshTyped, RunUpdated DEF RefreshActive
  <2>2. QED
    BY <1>2, <2>1 DEF RefreshActive, TypeOK
<1>3. ASSUME NEW r \in Runs, ClaimQueued(w, r) PROVE TypeOK'
  <2>1. Emitting(demo[r]) \in RunRow
    BY <1>0, RowTyped DEF Emitting, Active
  <2>2. worker' \in [Workers -> WorkerRow] /\ demo' \in [Runs -> RunRow]
    BY <1>0, <1>3, <2>1, Moved, RunUpdated DEF ClaimQueued
  <2>3. QED
    BY <1>3, <2>2 DEF ClaimQueued, TypeOK
<1>4. ASSUME NEW r \in Runs, EmitTraffic(w, r) \/ ReplayRecovery(w, r) PROVE TypeOK'
  <2>1. replays' \in [Runs -> [traffic : 0 .. MaxReplays, recovery : 0 .. MaxReplays]]
    BY <1>4, BoundsOK DEF EmitTraffic, ReplayRecovery, TypeOK, CountReplay
  <2>2. worker' \in [Workers -> WorkerRow]
    BY <1>0, <1>4, Moved DEF EmitTraffic, ReplayRecovery
  <2>3. QED
    BY <1>4, <2>1, <2>2 DEF EmitTraffic, ReplayRecovery, TypeOK
<1>5. ASSUME NEW r \in Runs, CreateMonitor(w, r) PROVE TypeOK'
  <2>1. scene' \in [Runs -> SceneRow]
    BY <1>0, <1>5 DEF CreateMonitor, SceneRow
  <2>2. worker' \in [Workers -> WorkerRow]
    BY <1>0, <1>5, Moved DEF CreateMonitor
  <2>3. QED
    BY <1>5, <2>1, <2>2 DEF CreateMonitor, TypeOK
<1>6. ASSUME NEW r \in Runs, MarkEmitted(w, r) PROVE TypeOK'
  <2>1. Merged(demo[r].result, "traffic") \in SUBSET {"traffic", "recovery_traffic", "reset"}
    BY <1>0, ResultTyped
  <2>2. EmissionNoted(demo[r]) \in RunRow
    BY <1>0, <2>1 DEF RunRow, Active, EmissionNoted
  <2>3. worker' \in [Workers -> WorkerRow] /\ demo' \in [Runs -> RunRow]
    BY <1>0, <1>6, <2>2, Moved, RunUpdated DEF MarkEmitted
  <2>4. QED
    BY <1>6, <2>3 DEF MarkEmitted, TypeOK
<1>7. ASSUME NEW r \in Runs, ClaimRecovery(w, r) PROVE TypeOK'
  <2>1. demo' = [demo EXCEPT ![r] = [demo[r] EXCEPT !.stage = "emitting_recovery_traffic",
                                                    !.lease = "live"]]
    BY <1>0, <1>7 DEF ClaimRecovery
  <2>2. [demo[r] EXCEPT !.stage = "emitting_recovery_traffic", !.lease = "live"] \in RunRow
    BY <1>0 DEF RunRow
  <2>3. worker' \in [Workers -> WorkerRow] /\ demo' \in [Runs -> RunRow]
    BY <1>0, <1>7, <2>1, <2>2, Moved, RunUpdated DEF ClaimRecovery
  <2>4. QED
    BY <1>7, <2>3 DEF ClaimRecovery, TypeOK
<1>8. ASSUME NEW r \in Runs, MarkRecoveryEmitted(w, r) PROVE TypeOK'
  <2>1. Merged(demo[r].result, "recovery_traffic") \in SUBSET {"traffic", "recovery_traffic", "reset"}
    BY <1>0, ResultTyped
  <2>2. RecoveryNoted(demo[r]) \in RunRow
    BY <1>0, <2>1 DEF RunRow, RecoveryNoted
  <2>3. worker' \in [Workers -> WorkerRow] /\ demo' \in [Runs -> RunRow]
    BY <1>0, <1>8, <2>2, Moved, RunUpdated DEF MarkRecoveryEmitted
  <2>4. QED
    BY <1>8, <2>3 DEF MarkRecoveryEmitted, TypeOK
<1>9. ASSUME NEW r \in Runs, FailRun(w, r) PROVE TypeOK'
  <2>1. Failed(demo[r]) \in RunRow
    BY <1>0 DEF RunRow, Failed, Ended
  <2>2. worker' \in [Workers -> WorkerRow] /\ demo' \in [Runs -> RunRow]
    BY <1>0, <1>9, <2>1, Moved, RunUpdated DEF FailRun
  <2>3. replays' \in [Runs -> [traffic : 0 .. MaxReplays, recovery : 0 .. MaxReplays]]
    BY <1>9, PartTyped DEF FailRun
  <2>4. QED
    BY <1>9, <2>2, <2>3 DEF FailRun, TypeOK
<1>10. QED
  BY <1>1, <1>2, <1>3, <1>4, <1>5, <1>6, <1>7, <1>8, <1>9 DEF WorkerStep

LEMMA SceneTyped ==
  ASSUME TypeOK, NEW r \in Runs, IncidentOpens(r) \/ ActionMoves(r) \/ IncidentEnds(r)
  PROVE  /\ scene' \in [Runs -> SceneRow]
         /\ UNCHANGED <<demo, candidate, pull, worker, request, histories, crashes>>
         /\ \A s \in Runs : \/ scene'[s] = scene[s]
                            \/ /\ scene[s].rolledBack => scene'[s].rolledBack
                               /\ scene'[s].action = "succeeded" =>
                                    scene[s].action = "succeeded" \/ scene'[s].rolledBack
<1>0. scene \in [Runs -> SceneRow]
  BY DEF TypeOK
<1>1. ASSUME NEW row \in SceneRow, SetScene(r, row),
             scene[r].rolledBack => row.rolledBack,
             row.action = "succeeded" => scene[r].action = "succeeded" \/ row.rolledBack
      PROVE  /\ scene' \in [Runs -> SceneRow]
             /\ UNCHANGED <<demo, candidate, pull, worker, request, histories, crashes>>
             /\ \A s \in Runs : \/ scene'[s] = scene[s]
                                \/ /\ scene[s].rolledBack => scene'[s].rolledBack
                                   /\ scene'[s].action = "succeeded" =>
                                        scene[s].action = "succeeded" \/ scene'[s].rolledBack
  BY <1>0, <1>1 DEF SetScene
<1>2. CASE IncidentOpens(r)
  <2>1. CASE scene[r].incident = "none"
    <3> DEFINE row == [scene[r] EXCEPT !.incident = "active"]
    <3>1. SetScene(r, row)
      BY <1>2, <2>1 DEF IncidentOpens
    <3>2. /\ row \in SceneRow /\ row.rolledBack = scene[r].rolledBack
          /\ row.action = scene[r].action
      BY <1>0 DEF SceneRow
    <3> HIDE DEF row
    <3>3. QED
      BY <1>1, <3>1, <3>2
  <2>2. CASE scene[r].incident # "none"
    <3> DEFINE row == [scene[r] EXCEPT !.incident = "active", !.action = "none", !.repeats = @ + 1]
    <3>1. SetScene(r, row) /\ scene[r].repeats < MaxRepeats
      BY <1>2, <2>2 DEF IncidentOpens
    <3>2. scene[r].repeats + 1 \in 0 .. MaxRepeats
      BY <1>0, <3>1, BoundsOK DEF SceneRow
    <3>3. /\ row \in SceneRow /\ row.rolledBack = scene[r].rolledBack
          /\ row.action = "none"
      BY <1>0, <3>2 DEF SceneRow
    <3> HIDE DEF row
    <3>4. QED
      BY <1>1, <3>1, <3>3
  <2>3. QED
    BY <2>1, <2>2
<1>3. CASE ActionMoves(r)
  <2>1. PICK to \in {"proposed", "executing", "failed", "succeeded"} :
          SetScene(r, [scene[r] EXCEPT !.action = to, !.rolledBack = @ \/ to = "succeeded"])
    <3> DEFINE follows == [none |-> {"proposed"}, proposed |-> {"executing", "failed"},
                           executing |-> {"succeeded", "failed"}, succeeded |-> {}, failed |-> {}]
    <3>1. scene[r].action \in {"none", "proposed", "executing", "succeeded", "failed"}
      BY <1>0 DEF SceneRow
    <3>2. follows[scene[r].action] \subseteq {"proposed", "executing", "failed", "succeeded"}
      BY <3>1
    <3> HIDE DEF follows
    <3>3. \E to \in follows[scene[r].action] :
            SetScene(r, [scene[r] EXCEPT !.action = to, !.rolledBack = @ \/ to = "succeeded"])
      BY <1>3 DEF ActionMoves, follows
    <3>4. QED
      BY <3>2, <3>3
  <2> DEFINE row == [scene[r] EXCEPT !.action = to, !.rolledBack = @ \/ to = "succeeded"]
  <2>a. (scene[r].rolledBack \/ to = "succeeded") \in BOOLEAN
    BY <1>0, Zenon DEF SceneRow
  <2>2. row \in SceneRow
    BY <1>0, <2>a DEF SceneRow
  <2>3. /\ scene[r].rolledBack => row.rolledBack
        /\ row.action = "succeeded" => row.rolledBack
    BY <1>0 DEF SceneRow
  <2> HIDE DEF row
  <2>4. QED
    BY <1>1, <2>1, <2>2, <2>3 DEF row
<1>4. CASE IncidentEnds(r)
  <2>1. PICK to \in {"resolved", "closed"} :
          SetScene(r, [scene[r] EXCEPT !.incident = to,
                         !.action = IF @ \in {"proposed", "executing"} THEN "failed" ELSE @])
    BY <1>4 DEF IncidentEnds
  <2> DEFINE row == [scene[r] EXCEPT !.incident = to,
                       !.action = IF @ \in {"proposed", "executing"} THEN "failed" ELSE @]
  <2>2. /\ row \in SceneRow /\ row.rolledBack = scene[r].rolledBack
        /\ row.action = "succeeded" => scene[r].action = "succeeded"
    BY <1>0 DEF SceneRow
  <2> HIDE DEF row
  <2>3. QED
    BY <1>1, <2>1, <2>2 DEF row
<1>5. QED
  BY <1>2, <1>3, <1>4

LEMMA TypeStep ==
  ASSUME TypeOK, Shape, [Next]_vars
  PROVE  TypeOK'
<1>1. ASSUME NEW w \in Workers, Crash(w) PROVE TypeOK'
  <2>1. worker[w].step \in {"emit", "monitor", "mark"} => worker[w].run \in Runs
    BY DEF TypeOK, WorkerRow, Shape
  <2>2. orphaned' \subseteq Runs
    BY <1>1, <2>1 DEF Crash, TypeOK
  <2>3. worker' \in [Workers -> WorkerRow] /\ crashes' \in 0 .. MaxCrashes
    BY <1>1, Moved, BoundsOK DEF Crash, TypeOK, WorkerRow
  <2>4. replays' \in [Runs -> [traffic : 0 .. MaxReplays, recovery : 0 .. MaxReplays]]
    BY <1>1, PartTyped DEF Crash
  <2>5. QED
    BY <1>1, <2>2, <2>3, <2>4 DEF Crash, TypeOK
<1>2. ASSUME NEW r \in Runs, StartScenario(r) PROVE TypeOK'
  <2>1. [demo[r] EXCEPT !.status = "queued"] \in RunRow
    BY RowTyped DEF TypeOK, Active
  <2>2. demo' = [demo EXCEPT ![r] = [demo[r] EXCEPT !.status = "queued"]]
    BY <1>2 DEF StartScenario
  <2>3. demo' \in [Runs -> RunRow]
    BY <2>1, <2>2, RunUpdated
  <2>4. QED
    BY <1>2, <2>3 DEF StartScenario, TypeOK
<1>3. ASSUME NEW r \in Runs, GetScenario(r) PROVE TypeOK'
  BY <1>3, RefreshIs, RefreshTyped DEF GetScenario, TypeOK
<1>4. ASSUME NEW r \in Runs, LeaseExpires(r) PROVE TypeOK'
  <2>0. demo[r] \in RunRow
    BY DEF TypeOK
  <2>1. [demo[r] EXCEPT !.lease = "expired"] \in RunRow
    BY <2>0 DEF RunRow
  <2>2. demo' = [demo EXCEPT ![r] = [demo[r] EXCEPT !.lease = "expired"]]
    BY <1>4 DEF LeaseExpires
  <2>3. demo' \in [Runs -> RunRow]
    BY <2>1, <2>2, RunUpdated
  <2>4. QED
    BY <1>4, <2>3 DEF LeaseExpires, TypeOK
<1>5. ASSUME NEW q \in Requests,
             OpenReset(q) \/ RecordReset(q) \/ \E r \in Runs : ResetRequested(q, r)
      PROVE  TypeOK'
  <2>0. request \in [Requests -> RequestRow] /\ IdleRequest \in RequestRow
    BY DEF TypeOK, RequestRow, IdleRequest
  <2>1. CASE OpenReset(q)
    <3>1. request' \in [Requests -> RequestRow]
      BY <2>0, <2>1 DEF OpenReset, RequestRow
    <3>2. pull' \subseteq Runs
      BY <2>0, <2>1 DEF OpenReset, TypeOK, Shape, RequestRow
    <3>3. QED
      BY <2>1, <3>1, <3>2 DEF OpenReset, TypeOK
  <2>2. CASE RecordReset(q)
    <3> DEFINE r == request[q].run
    <3>1. ASSUME r \in Runs PROVE demo' \in [Runs -> RunRow]
      <4>1. [demo[r] EXCEPT !.result = Merged(@, "reset")] \in RunRow
        BY <3>1, ResultTyped DEF TypeOK
      <4>2. demo' = [demo EXCEPT ![r] = [demo[r] EXCEPT !.result = Merged(@, "reset")]]
        BY <2>2 DEF RecordReset
      <4>3. QED
        BY <3>1, <4>1, <4>2, RunUpdated
    <3>2. ASSUME r \notin Runs PROVE demo' \in [Runs -> RunRow]
      BY <2>2, <3>2 DEF RecordReset, TypeOK
    <3>3. QED
      BY <2>0, <2>2, <3>1, <3>2 DEF RecordReset, TypeOK
  <2>3. ASSUME NEW r \in Runs, ResetRequested(q, r) PROVE TypeOK'
    BY <2>3 DEF ResetRequested, TypeOK, RequestRow
  <2>4. QED
    BY <1>5, <2>1, <2>2, <2>3
<1>6. CASE ManifestMerged
  <2>1. candidate' \in BOOLEAN
    BY <1>6, Zenon DEF ManifestMerged
  <2>2. QED
    BY <1>6, <2>1 DEF ManifestMerged, TypeOK
<1>7. ASSUME NEW r \in Runs, IncidentOpens(r) \/ ActionMoves(r) \/ IncidentEnds(r) PROVE TypeOK'
  BY <1>7, SceneTyped DEF TypeOK
<1>8. CASE UNCHANGED vars
  BY <1>8 DEF vars, TypeOK
<1>9. QED
  BY WorkerTyped, <1>1, <1>2, <1>3, <1>4, <1>5, <1>6, <1>7, <1>8 DEF Next, Environment

LEMMA ShapeStep ==
  ASSUME TypeOK, Shape, [Next]_vars
  PROVE  Shape'
<1>0. worker \in [Workers -> WorkerRow] /\ request \in [Requests -> RequestRow]
  BY DEF TypeOK
<1>1. ASSUME NEW w \in Workers, WorkerStep(w) \/ Crash(w) PROVE Shape'
  <2>1. UNCHANGED request
    BY <1>1 DEF WorkerStep, ListActive, NothingQueued, NothingToRecover, RefreshActive, ClaimQueued,
                EmitTraffic, CreateMonitor, MarkEmitted, ClaimRecovery, ReplayRecovery,
                MarkRecoveryEmitted, FailRun, Crash
  <2>2. \E step, r : /\ Goto(w, step, r)
                     /\ step \notin {"idle", "claim", "recover"} => r \in Runs
    BY <1>1 DEF WorkerStep, ListActive, NothingQueued, NothingToRecover, RefreshActive, ClaimQueued,
                EmitTraffic, CreateMonitor, MarkEmitted, ClaimRecovery, ReplayRecovery,
                MarkRecoveryEmitted, FailRun, Crash
  <2>3. QED
    BY <1>0, <2>1, <2>2, NoneType DEF Goto, Shape
<1>2. ASSUME NEW q \in Requests,
             OpenReset(q) \/ RecordReset(q) \/ \E r \in Runs : ResetRequested(q, r)
      PROVE  Shape'
  BY <1>0, <1>2, NoneType DEF OpenReset, RecordReset, ResetRequested, Shape, RequestRow, IdleRequest
<1>3. CASE UNCHANGED <<worker, request>>
  BY <1>3 DEF Shape
<1>4. QED
  BY <1>1, <1>2, <1>3 DEF Next, Environment, ManifestMerged, IncidentOpens, ActionMoves,
     IncidentEnds, SetScene, StartScenario, GetScenario, LeaseExpires, vars

Types == TypeOK /\ Shape

LEMMA TypesHold ==
  /\ Init => Types
  /\ Types /\ [Next]_vars => Types'
BY TypeInit, TypeStep, ShapeStep DEF Types, Init, Shape, IdleWorker, IdleRequest

-----------------------------------------------------------------------------
(* The life of one run                                                     *)

(***************************************************************************)
(* Before and during its emission a run has no monitor, so refresh can     *)
(* only say 'running': one worker emits, and nothing ends the run but that *)
(* worker.  A run is verified, and recovers, only after its rollback.      *)
(***************************************************************************)
EmissionInv(r) ==
  /\ demo[r].status \in {"absent", "queued"} =>
       /\ ~demo[r].monitor /\ replays[r].traffic = 0
       /\ \A w \in Workers : ~Emits(w, r)
  /\ \A w \in Workers : Emits(w, r) =>
       /\ demo[r].status = "running" /\ ~demo[r].monitor
       /\ worker[w].step = "emit" => replays[r].traffic = 0
  /\ \A w, v \in Workers : Emits(w, r) /\ Emits(v, r) => w = v
  /\ replays[r].traffic <= 1

AfterRollback(r) ==
  /\ scene[r].action = "succeeded" => scene[r].rolledBack
  /\ \/ demo[r].stage = "verifying"
     \/ \E w \in Workers : Recovers(w, r)
     \/ replays[r].recovery > 0
     => demo[r].monitor /\ scene[r].rolledBack

(***************************************************************************)
(* Until a lease runs out, it is what keeps a second recovery away while   *)
(* one is replayed; after that the key in the result, or the end, does.    *)
(***************************************************************************)
RecoveryInv(r) ==
  r \notin overran =>
    /\ \A w \in Workers : Recovers(w, r) =>
         /\ demo[r].lease = "live"
         /\ worker[w].step = "replay" => replays[r].recovery = 0
    /\ \A w, v \in Workers : Recovers(w, r) /\ Recovers(v, r) => w = v
    /\ replays[r].recovery <= 1
    /\ replays[r].recovery = 1 => \/ demo[r].lease = "live" \/ demo[r].status \in Ended
                                  \/ "recovery_traffic" \in demo[r].result

RunInv(r) == EmissionInv(r) /\ AfterRollback(r) /\ RecoveryInv(r)

\* No step but a start makes a run active, and none revives one.
StatusKept(r) ==
  /\ demo[r].status \in Ended => demo'[r].status \in Ended
  /\ demo'[r].status \in Active => demo[r].status \in Active

\* What a step leaves of a run it is not about.
Follows(r) ==
  \A w \in Workers : worker'[w] = worker[w] \/ ~(Emits(w, r) \/ Recovers(w, r))'
Beside(r) ==
  /\ Follows(r)
  /\ replays'[r] = replays[r] /\ overran \subseteq overran'
  /\ \/ scene'[r] = scene[r]
     \/ /\ scene[r].rolledBack => scene'[r].rolledBack
        /\ scene'[r].action = "succeeded" => scene[r].action = "succeeded" \/ scene'[r].rolledBack

LEMMA RowFacts ==
  ASSUME TypeOK
  PROVE  /\ demo \in [Runs -> RunRow] /\ worker \in [Workers -> WorkerRow]
         /\ \A r \in Runs : replays[r].traffic \in Nat /\ replays[r].recovery \in Nat
BY BoundsOK DEF TypeOK

\* A replay that did not end counts for the run it was for.
LEMMA PartCounts ==
  ASSUME TypeOK, NEW w \in Workers, NEW r \in Runs, ReplayedInPart(w)
  PROVE  \/ replays'[r] = replays[r]
         \/ /\ worker[w].step = "emit" /\ worker[w].run = r
            /\ replays'[r].traffic \in {replays[r].traffic, replays[r].traffic + 1}
            /\ replays'[r].recovery = replays[r].recovery
         \/ /\ worker[w].step = "replay" /\ worker[w].run = r
            /\ replays'[r].recovery \in {replays[r].recovery, replays[r].recovery + 1}
            /\ replays'[r].traffic = replays[r].traffic
<1>1. CASE UNCHANGED replays
  BY <1>1
<1>2. CASE worker[w].step = "emit" /\ CountReplay(worker[w].run, "traffic")
  BY <1>2, BoundsOK DEF CountReplay, TypeOK
<1>3. CASE worker[w].step = "replay" /\ CountReplay(worker[w].run, "recovery")
  BY <1>3, BoundsOK DEF CountReplay, TypeOK
<1>4. QED
  BY <1>1, <1>2, <1>3 DEF ReplayedInPart

LEMMA StillInv ==
  ASSUME NEW r \in Runs, RunInv(r), Beside(r),
         \/ demo'[r] = demo[r]
         \/ /\ demo'[r].status = demo[r].status /\ demo'[r].stage = demo[r].stage
            /\ demo'[r].lease = demo[r].lease /\ demo'[r].monitor = demo[r].monitor
            /\ demo[r].result \subseteq demo'[r].result
  PROVE  RunInv(r)' /\ StatusKept(r)
<1> USE DEF RunInv, Beside, Follows, Emits, Recovers
<1>1. EmissionInv(r)'
  BY DEF EmissionInv
<1>2. AfterRollback(r)'
  BY DEF AfterRollback
<1>3. RecoveryInv(r)'
  BY DEF RecoveryInv
<1>4. QED
  BY <1>1, <1>2, <1>3 DEF StatusKept

LEMMA RefreshedInv ==
  ASSUME TypeOK, NEW r \in Runs, RunInv(r), Beside(r), demo'[r] = Refreshed(r), UNCHANGED scene
  PROVE  RunInv(r)' /\ StatusKept(r)
<1> USE DEF RunInv, Beside, Follows, Emits, Recovers
<1>1. CASE demo[r].status \notin {"running", "awaiting_approval"}
  BY <1>1, StillInv DEF Refreshed
<1>2. CASE demo[r].status \in {"running", "awaiting_approval"}
  <2>1. /\ demo'[r].status = DerivedState(Seen(r))[1] /\ demo'[r].stage = DerivedState(Seen(r))[2]
        /\ demo'[r].lease = demo[r].lease /\ demo'[r].monitor = demo[r].monitor
        /\ demo'[r].result = demo[r].result
    BY <1>2, RowFacts DEF Refreshed, RunRow
  <2>2. /\ DerivedState(Seen(r))[1] \in {"running", "awaiting_approval", "resolved", "failed"}
        /\ ~demo[r].monitor => DerivedState(Seen(r)) = <<"running", "monitoring">>
        /\ DerivedState(Seen(r))[2] = "verifying" => demo[r].monitor /\ scene[r].action = "succeeded"
    <3>1. DerivedState(Seen(r))[1] \in {"running", "awaiting_approval", "resolved", "failed"}
      BY SeenTyped DEF State
    <3>2. ~demo[r].monitor => DerivedState(Seen(r)) = <<"running", "monitoring">>
      BY DEF Seen, EmptyScene, DerivedState
    <3>3. demo[r].monitor /\ DerivedState(Seen(r))[2] = "verifying" => scene[r].action = "succeeded"
      BY DEF Seen, DerivedState, TypeOK, SceneRow
    <3>4. QED
      BY <3>1, <3>2, <3>3
  <2>3. EmissionInv(r)'
    BY <1>2, <2>1, <2>2 DEF EmissionInv
  <2>4. AfterRollback(r)'
    BY <2>1, <2>2 DEF AfterRollback
  <2>5. RecoveryInv(r)'
    BY <1>2, <2>1 DEF RecoveryInv, Ended
  <2>6. QED
    BY <1>2, <2>1, <2>2, <2>3, <2>4, <2>5 DEF StatusKept, Ended, Active
<1>3. QED
  BY <1>1, <1>2

LEMMA WorkerInv ==
  ASSUME TypeOK, Shape, \A r \in Runs : RunInv(r), NEW w \in Workers, WorkerStep(w)
  PROVE  \A r \in Runs : RunInv(r)' /\ StatusKept(r)
<1> SUFFICES ASSUME NEW r \in Runs PROVE RunInv(r)' /\ StatusKept(r)
  OBVIOUS
<1> USE RowFacts
<1>0. RunInv(r) /\ demo[r] \in RunRow
  OBVIOUS
<1>m. \A step, s : Goto(w, step, s) =>
        \A v \in Workers : worker'[v] = IF v = w THEN [step |-> step, run |-> s] ELSE worker[v]
  BY DEF Goto
<1>f. ASSUME NEW step, NEW s, Goto(w, step, s), s # r \/ step \in {"idle", "refresh", "claim", "recover"}
      PROVE  Follows(r)
  <2>0. worker'[w] = [step |-> step, run |-> s]
    BY <1>f, <1>m
  <2>1. ~(Emits(w, r) \/ Recovers(w, r))'
    BY <1>f, <2>0 DEF Emits, Recovers
  <2>2. \A v \in Workers : v # w => worker'[v] = worker[v]
    BY <1>f, <1>m
  <2>3. QED
    BY <2>1, <2>2 DEF Follows
<1>1. CASE ListActive(w) \/ NothingQueued(w) \/ NothingToRecover(w)
  <2>1. UNCHANGED <<demo, scene, replays, overran>>
    BY <1>1 DEF ListActive, NothingQueued, NothingToRecover
  <2>2. \E s : \E step \in {"refresh", "claim", "idle", "recover"} : Goto(w, step, s)
    BY <1>1 DEF ListActive, NothingQueued, NothingToRecover
  <2>3. Beside(r)
    BY <1>f, <2>1, <2>2 DEF Beside
  <2>4. QED
    BY <1>0, <2>1, <2>3, StillInv
<1>o. ASSUME NEW s \in Runs, s # r,
             \/ ClaimQueued(w, s) \/ EmitTraffic(w, s) \/ CreateMonitor(w, s) \/ MarkEmitted(w, s)
             \/ ClaimRecovery(w, s) \/ ReplayRecovery(w, s) \/ MarkRecoveryEmitted(w, s)
             \/ FailRun(w, s) \/ RefreshActive(w, s)
      PROVE  RunInv(r)' /\ StatusKept(r)
  <2>1. demo'[r] = demo[r]
    BY <1>o, RefreshIs DEF ClaimQueued, EmitTraffic, CreateMonitor, MarkEmitted, ClaimRecovery,
       ReplayRecovery, MarkRecoveryEmitted, FailRun, RefreshActive
  <2>2. replays'[r] = replays[r] /\ overran' = overran /\ scene'[r] = scene[r]
    BY <1>o, PartCounts DEF ClaimQueued, EmitTraffic, CreateMonitor, MarkEmitted, ClaimRecovery, CountReplay,
       ReplayRecovery, MarkRecoveryEmitted, FailRun, RefreshActive, TypeOK
  <2>3. \E step, q : Goto(w, step, q) /\ q # r
    BY <1>o, NoneType DEF ClaimQueued, EmitTraffic, CreateMonitor, MarkEmitted, ClaimRecovery,
       ReplayRecovery, MarkRecoveryEmitted, FailRun, RefreshActive
  <2>4. Beside(r)
    BY <1>f, <2>2, <2>3 DEF Beside
  <2>5. QED
    BY <1>0, <2>1, <2>4, StillInv
<1>2. CASE RefreshActive(w, r)
  <2>1. Beside(r) /\ demo'[r] = Refreshed(r)
    BY <1>2, <1>f, RefreshIs, RowFacts DEF RefreshActive, Beside
  <2>2. QED
    BY <1>0, <1>2, <2>1, RefreshedInv DEF RefreshActive
<1>3. CASE ClaimQueued(w, r)
  <2>1. /\ demo[r].status = "queued" /\ worker[w].step = "claim"
        /\ demo'[r].status = "running" /\ demo'[r].stage = "emitting_traffic"
        /\ demo'[r].monitor = demo[r].monitor /\ demo'[r].lease = "live"
        /\ UNCHANGED <<scene, replays, overran>>
        /\ \A v \in Workers : worker'[v] = IF v = w THEN [step |-> "emit", run |-> r] ELSE worker[v]
    BY <1>0, <1>3, <1>m DEF ClaimQueued, QueuedReady, Emitting, RunRow
  <2>2. QED
    BY <1>0, <2>1 DEF RunInv, EmissionInv, AfterRollback, RecoveryInv, Emits, Recovers, StatusKept,
       Ended, Active
<1>4. CASE EmitTraffic(w, r)
  <2>1. /\ Emits(w, r) /\ worker[w].step = "emit" /\ demo'[r] = demo[r]
        /\ UNCHANGED <<scene, overran>>
        /\ \A v \in Workers : worker'[v] = IF v = w THEN [step |-> "monitor", run |-> r] ELSE worker[v]
    BY <1>4, <1>m DEF EmitTraffic, Emits, At
  <2>2. /\ replays'[r].traffic \in {replays[r].traffic, replays[r].traffic + 1}
        /\ replays'[r].recovery = replays[r].recovery
    BY <1>4 DEF EmitTraffic, CountReplay, TypeOK
  <2>3. QED
    BY <1>0, <2>1, <2>2 DEF RunInv, EmissionInv, AfterRollback, RecoveryInv, Emits, Recovers, StatusKept
<1>5. CASE CreateMonitor(w, r)
  <2>1. /\ Emits(w, r) /\ demo'[r] = demo[r] /\ UNCHANGED <<replays, overran>>
        /\ scene'[r].rolledBack = scene[r].rolledBack /\ scene'[r].action = scene[r].action
        /\ \A v \in Workers : worker'[v] = IF v = w THEN [step |-> "mark", run |-> r] ELSE worker[v]
    BY <1>5, <1>m DEF CreateMonitor, Emits, At, TypeOK, SceneRow
  <2>2. QED
    BY <1>0, <2>1 DEF RunInv, EmissionInv, AfterRollback, RecoveryInv, Emits, Recovers, StatusKept
<1>6. CASE MarkEmitted(w, r)
  <2>1. /\ Emits(w, r) /\ UNCHANGED <<scene, replays, overran>>
        /\ demo'[r].status = "running" /\ demo'[r].stage = "monitoring"
        /\ \A v \in Workers : worker'[v] = IF v = w THEN [step |-> "recover", run |-> None] ELSE worker[v]
    BY <1>0, <1>6, <1>m DEF MarkEmitted, Emits, At, EmissionNoted, RunRow
  <2>2. /\ \A v \in Workers : ~Recovers(v, r) /\ ~Recovers(v, r)' /\ ~Emits(v, r)'
        /\ replays[r].recovery = 0
    BY <1>0, <2>1 DEF RunInv, EmissionInv, AfterRollback, Emits, Recovers
  <2>3. QED
    BY <1>0, <2>1, <2>2 DEF RunInv, EmissionInv, AfterRollback, RecoveryInv, StatusKept, Ended, Active
<1>7. CASE ClaimRecovery(w, r)
  <2>1. /\ RecoveryReady(r) /\ UNCHANGED <<scene, replays, overran>>
        /\ demo'[r].status = demo[r].status /\ demo'[r].stage = "emitting_recovery_traffic"
        /\ demo'[r].monitor = demo[r].monitor /\ demo'[r].lease = "live"
        /\ \A v \in Workers : worker'[v] = IF v = w THEN [step |-> "replay", run |-> r] ELSE worker[v]
    BY <1>0, <1>7, <1>m DEF ClaimRecovery, RunRow
  <2>2. EmissionInv(r)' /\ AfterRollback(r)'
    BY <1>0, <2>1 DEF RunInv, EmissionInv, AfterRollback, Emits, Recovers, RecoveryReady
  <2>3. RecoveryInv(r)'
    BY <1>0, <2>1 DEF RunInv, RecoveryInv, Recovers, RecoveryReady, Ended
  <2>4. QED
    BY <2>1, <2>2, <2>3 DEF RunInv, StatusKept
<1>8. CASE ReplayRecovery(w, r)
  <2>1. /\ Recovers(w, r) /\ worker[w].step = "replay" /\ demo'[r] = demo[r]
        /\ UNCHANGED <<scene, overran>>
        /\ \A v \in Workers : worker'[v] = IF v = w THEN [step |-> "note", run |-> r] ELSE worker[v]
    BY <1>8, <1>m DEF ReplayRecovery, Recovers, At
  <2>2. /\ replays'[r].recovery \in {replays[r].recovery, replays[r].recovery + 1}
        /\ replays'[r].traffic = replays[r].traffic
    BY <1>8 DEF ReplayRecovery, CountReplay, TypeOK
  <2>3. QED
    BY <1>0, <2>1, <2>2 DEF RunInv, EmissionInv, AfterRollback, RecoveryInv, Emits, Recovers, StatusKept
<1>9. CASE MarkRecoveryEmitted(w, r)
  <2>1. /\ Recovers(w, r) /\ UNCHANGED <<scene, replays, overran>>
        /\ demo'[r].status = demo[r].status /\ demo'[r].monitor = demo[r].monitor
        /\ "recovery_traffic" \in demo'[r].result
        /\ \A v \in Workers : worker'[v] = IF v = w THEN [step |-> "idle", run |-> None] ELSE worker[v]
    BY <1>0, <1>9, <1>m DEF MarkRecoveryEmitted, Recovers, At, RecoveryNoted, RunRow, Merged
  <2>2. QED
    BY <1>0, <2>1, NoneType DEF RunInv, EmissionInv, AfterRollback, RecoveryInv, Emits, Recovers, StatusKept
<1>10. CASE FailRun(w, r)
  <2>1. /\ Emits(w, r) \/ Recovers(w, r)
        /\ UNCHANGED <<scene, overran>>
        /\ demo'[r].status = "failed" /\ demo'[r].stage = "failed"
        /\ demo'[r].monitor = demo[r].monitor
    BY <1>0, <1>10 DEF FailRun, Emits, Recovers, Failed, RunRow
  <2>r. \/ replays'[r] = replays[r]
        \/ /\ Emits(w, r) /\ worker[w].step = "emit"
           /\ replays'[r].traffic \in {replays[r].traffic, replays[r].traffic + 1}
           /\ replays'[r].recovery = replays[r].recovery
        \/ /\ Recovers(w, r) /\ worker[w].step = "replay"
           /\ replays'[r].recovery \in {replays[r].recovery, replays[r].recovery + 1}
           /\ replays'[r].traffic = replays[r].traffic
    BY <1>10, PartCounts DEF FailRun, Emits, Recovers
  <2>2. Goto(w, "idle", None) \/ Goto(w, "recover", None)
    BY <1>10 DEF FailRun
  <2>a. worker'[w].run # r /\ \A v \in Workers : v # w => worker'[v] = worker[v]
    <3>1. \/ worker'[w] = [step |-> "idle", run |-> None]
          \/ worker'[w] = [step |-> "recover", run |-> None]
      BY <2>2, <1>m
    <3>2. \A v \in Workers : v # w => worker'[v] = worker[v]
      BY <2>2, <1>m
    <3>3. QED
      BY <3>1, <3>2, NoneType
  <2>3. \A v \in Workers : /\ Emits(v, r)' => Emits(v, r) /\ worker'[v] = worker[v] /\ v # w
                           /\ Recovers(v, r)' => Recovers(v, r) /\ worker'[v] = worker[v] /\ v # w
    BY <2>a DEF Emits, Recovers
  <2>4. ~\E v \in Workers : Emits(v, r)'
    BY <1>0, <2>1, <2>3 DEF RunInv, EmissionInv, AfterRollback
  <2>5. EmissionInv(r)'
    BY <1>0, <2>1, <2>r, <2>4 DEF RunInv, EmissionInv
  <2>6. AfterRollback(r)'
    BY <1>0, <2>1, <2>r, <2>3 DEF RunInv, AfterRollback
  <2>7. RecoveryInv(r)'
    BY <1>0, <2>1, <2>r, <2>3 DEF RunInv, RecoveryInv, EmissionInv, AfterRollback, Ended
  <2>8. QED
    BY <2>1, <2>5, <2>6, <2>7 DEF RunInv, StatusKept, Ended, Active
<1>11. QED
  BY <1>1, <1>o, <1>2, <1>3, <1>4, <1>5, <1>6, <1>7, <1>8, <1>9, <1>10 DEF WorkerStep

LEMMA OtherInv ==
  ASSUME TypeOK, Shape, \A r \in Runs : RunInv(r), [Next]_vars,
         ~\E w \in Workers : WorkerStep(w), ~\E r \in Runs : StartScenario(r)
  PROVE  \A r \in Runs : RunInv(r)' /\ StatusKept(r)
<1> SUFFICES ASSUME NEW r \in Runs PROVE RunInv(r)' /\ StatusKept(r)
  OBVIOUS
<1>0. RunInv(r) /\ demo[r] \in RunRow /\ demo \in [Runs -> RunRow]
  BY RowFacts
<1>b. UNCHANGED <<worker, replays, overran, scene>> => Beside(r)
  BY DEF Beside, Follows
<1>1. ASSUME NEW w \in Workers, Crash(w) PROVE RunInv(r)' /\ StatusKept(r)
  <2>1. Follows(r) /\ demo' = demo /\ scene' = scene /\ overran' = overran
    BY <1>1, RowFacts, NoneType DEF Crash, Goto, Follows, Emits, Recovers
  <2>2. CASE replays'[r] = replays[r]
    BY <1>0, <2>1, <2>2, StillInv DEF Beside
  <2>3. CASE replays'[r] # replays[r]
    <3>1. /\ \/ /\ Emits(w, r) /\ worker[w].step = "emit"
                /\ replays'[r].traffic \in {replays[r].traffic, replays[r].traffic + 1}
                /\ replays'[r].recovery = replays[r].recovery
             \/ /\ Recovers(w, r) /\ worker[w].step = "replay"
                /\ replays'[r].recovery \in {replays[r].recovery, replays[r].recovery + 1}
                /\ replays'[r].traffic = replays[r].traffic
          /\ ~(Emits(w, r) \/ Recovers(w, r))'
      BY <1>1, <2>3, PartCounts, RowFacts, NoneType DEF Crash, Goto, Emits, Recovers
    <3>2. \A v \in Workers : v # w => worker'[v] = worker[v]
      BY <1>1, RowFacts DEF Crash, Goto
    <3>3. EmissionInv(r)'
      BY <1>0, <2>1, <3>1, <3>2, RowFacts DEF RunInv, EmissionInv, Follows, Emits, Recovers
    <3>4. AfterRollback(r)'
      BY <1>0, <2>1, <3>1, <3>2, RowFacts DEF RunInv, AfterRollback, Follows, Emits, Recovers
    <3>5. RecoveryInv(r)'
      BY <1>0, <2>1, <3>1, <3>2, RowFacts DEF RunInv, RecoveryInv, Follows, Emits, Recovers
    <3>6. QED
      BY <2>1, <3>3, <3>4, <3>5 DEF RunInv, StatusKept
  <2>4. QED
    BY <2>2, <2>3
<1>2. ASSUME NEW s \in Runs, GetScenario(s) PROVE RunInv(r)' /\ StatusKept(r)
  <2>1. Beside(r) /\ demo' = [demo EXCEPT ![s] = Refreshed(s)]
    BY <1>2, <1>b, RefreshIs DEF GetScenario
  <2>2. QED
    BY <1>0, <1>2, <2>1, StillInv, RefreshedInv DEF GetScenario
<1>3. ASSUME NEW s \in Runs, LeaseExpires(s) PROVE RunInv(r)' /\ StatusKept(r)
  <2>1. CASE s # r
    <3>1. Beside(r) /\ demo'[r] = demo[r]
      BY <1>0, <1>3, <2>1 DEF LeaseExpires, Beside, Follows
    <3>2. QED
      BY <1>0, <3>1, StillInv
  <2>2. CASE s = r
    <3>1. /\ demo'[r].status = demo[r].status /\ demo'[r].stage = demo[r].stage
          /\ demo'[r].monitor = demo[r].monitor /\ r \in overran'
          /\ UNCHANGED <<scene, worker, replays>>
      BY <1>0, <1>3, <2>2 DEF LeaseExpires, RunRow
    <3>2. QED
      BY <1>0, <3>1 DEF RunInv, EmissionInv, AfterRollback, RecoveryInv, Emits, Recovers, StatusKept
  <2>3. QED
    BY <2>1, <2>2
<1>4. ASSUME NEW q \in Requests,
             OpenReset(q) \/ RecordReset(q) \/ \E s \in Runs : ResetRequested(q, s)
      PROVE  RunInv(r)' /\ StatusKept(r)
  <2>1. Beside(r)
    BY <1>4, <1>b DEF OpenReset, RecordReset, ResetRequested
  <2>2. \/ demo'[r] = demo[r]
        \/ demo'[r] = [demo[r] EXCEPT !.result = demo[r].result \cup {"reset"}]
    BY <1>0, <1>4 DEF OpenReset, RecordReset, ResetRequested, Merged
  <2>3. QED
    BY <1>0, <2>1, <2>2, StillInv DEF RunRow
<1>5. ASSUME NEW s \in Runs, IncidentOpens(s) \/ ActionMoves(s) \/ IncidentEnds(s)
      PROVE  RunInv(r)' /\ StatusKept(r)
  <2>1. Beside(r) /\ demo' = demo
    BY <1>5, SceneTyped DEF Beside, Follows
  <2>2. QED
    BY <1>0, <2>1, StillInv
<1>6. CASE ManifestMerged \/ UNCHANGED vars
  <2>1. Beside(r) /\ demo' = demo
    BY <1>6, <1>b DEF ManifestMerged, vars
  <2>2. QED
    BY <1>0, <2>1, StillInv
<1>7. QED
  BY <1>1, <1>2, <1>3, <1>4, <1>5, <1>6 DEF Next, Environment

LEMMA StartInv ==
  ASSUME TypeOK, \A r \in Runs : RunInv(r), NEW s \in Runs, StartScenario(s)
  PROVE  /\ \A r \in Runs : RunInv(r)'
         /\ \A r \in Runs : demo[r].status \in Ended => demo'[r].status \in Ended
         /\ \A r \in Runs : demo'[r].status \in Active => r = s
<1> SUFFICES ASSUME NEW r \in Runs
             PROVE  /\ RunInv(r)' /\ (demo[r].status \in Ended => demo'[r].status \in Ended)
                    /\ demo'[r].status \in Active => r = s
  OBVIOUS
<1>0. RunInv(r) /\ demo \in [Runs -> RunRow] /\ demo[r].status \notin Active
      /\ UNCHANGED <<scene, worker, replays, overran>>
  BY RowFacts DEF StartScenario
<1>1. CASE r # s
  <2>1. Beside(r) /\ demo'[r] = demo[r]
    BY <1>0, <1>1 DEF StartScenario, Beside, Follows
  <2>2. QED
    BY <1>0, <1>1, <2>1, StillInv DEF StatusKept
<1>2. CASE r = s
  <2>1. /\ demo[r].status = "absent" /\ demo'[r].status = "queued"
        /\ demo'[r].stage = demo[r].stage /\ demo'[r].lease = demo[r].lease
        /\ demo'[r].monitor = demo[r].monitor /\ demo'[r].result = demo[r].result
    BY <1>0, <1>2 DEF StartScenario, RunRow
  <2>2. QED
    BY <1>0, <1>2, <2>1 DEF RunInv, EmissionInv, AfterRollback, RecoveryInv, Emits, Recovers, Ended
<1>3. QED
  BY <1>1, <1>2

-----------------------------------------------------------------------------
(* The demo                                                                *)

DemoInv == Types /\ (\A r \in Runs : RunInv(r)) /\ OneActiveRun

LEMMA DemoInit == Init => DemoInv
<1> SUFFICES ASSUME Init PROVE DemoInv
  OBVIOUS
<1>1. \A r \in Runs : RunInv(r)
  <2>1. \A r \in Runs :
          /\ demo[r].status = "absent" /\ ~demo[r].monitor /\ demo[r].stage = "queued"
          /\ replays[r].traffic = 0 /\ replays[r].recovery = 0 /\ scene[r].action = "none"
    BY DEF Init, AbsentRun, EmptyScene
  <2>2. \A w \in Workers : worker[w].step = "idle"
    BY DEF Init, IdleWorker
  <2>3. \A w \in Workers, r \in Runs : ~Emits(w, r) /\ ~Recovers(w, r)
    BY <2>2 DEF Emits, Recovers
  <2>4. ASSUME NEW r \in Runs PROVE EmissionInv(r) /\ AfterRollback(r) /\ RecoveryInv(r)
    <3>1. EmissionInv(r)
      BY <2>1, <2>3 DEF EmissionInv
    <3>2. AfterRollback(r)
      BY <2>1, <2>3 DEF AfterRollback
    <3>3. RecoveryInv(r)
      BY <2>1, <2>3 DEF RecoveryInv
    <3>4. QED
      BY <3>1, <3>2, <3>3
  <2>5. QED
    BY <2>4 DEF RunInv
<1>2. OneActiveRun
  BY DEF Init, OneActiveRun, AbsentRun, Active
<1>3. QED
  BY <1>1, <1>2, TypesHold DEF DemoInv

LEMMA DemoStep ==
  ASSUME DemoInv, [Next]_vars
  PROVE  DemoInv' /\ \A r \in Runs : demo[r].status \in Ended => demo'[r].status \in Ended
<1>1. Types' /\ TypeOK /\ Shape
  BY TypesHold DEF DemoInv, Types
<1>2. CASE \E s \in Runs : StartScenario(s)
  BY <1>1, <1>2, StartInv DEF DemoInv, OneActiveRun
<1>3. CASE ~\E s \in Runs : StartScenario(s)
  <2>1. \A r \in Runs : RunInv(r)' /\ StatusKept(r)
    BY <1>1, <1>3, WorkerInv, OtherInv DEF DemoInv
  <2>2. QED
    BY <1>1, <2>1 DEF DemoInv, OneActiveRun, StatusKept
<1>4. QED
  BY <1>2, <1>3

LEMMA DemoAlways == Spec => []DemoInv
BY DemoInit, DemoStep, PTL DEF Spec

(***************************************************************************)
(* demo_runs, the monitors and incidents of the runs, the workers and the  *)
(* reset requests keep their types.                                        *)
(***************************************************************************)
THEOREM DemoTypeCorrect == Spec => []TypeOK
BY DemoAlways, PTL DEF DemoInv, Types

(***************************************************************************)
(* Canary traffic is replayed at most once per run: claim_queued has no    *)
(* second chance, whatever leases say.                                     *)
(***************************************************************************)
THEOREM TrafficIsReplayedOnce == Spec => []TrafficOnce
<1>1. DemoInv => TrafficOnce
  BY DEF DemoInv, RunInv, EmissionInv, TrafficOnce
<1>2. QED
  BY <1>1, DemoAlways, PTL

(***************************************************************************)
(* Two recovery replays of a run need a lease that ran out, however often  *)
(* refresh makes the run claimable again.                                  *)
(***************************************************************************)
THEOREM RecoveryIsReplayedOnce == Spec => []RecoveryOnce
<1>1. DemoInv => RecoveryOnce
  <2> SUFFICES ASSUME DemoInv, NEW r \in Runs, r \notin overran PROVE ~(replays[r].recovery > 1)
    BY DEF RecoveryOnce
  <2>1. replays[r].recovery <= 1 /\ replays[r].recovery \in Nat
    BY RowFacts DEF DemoInv, Types, RunInv, RecoveryInv
  <2>2. QED
    BY <2>1
<1>2. QED
  BY <1>1, DemoAlways, PTL

(***************************************************************************)
(* Recovery traffic comes after a rollback that succeeded: what is         *)
(* measured as recovery is never from before.                              *)
(***************************************************************************)
THEOREM RecoveryIsAfterRollback == Spec => []RecoveryAfterRollback
<1>1. DemoInv => RecoveryAfterRollback
  BY DEF DemoInv, RunInv, AfterRollback, RecoveryAfterRollback
<1>2. QED
  BY <1>1, DemoAlways, PTL

(***************************************************************************)
(* At most one run is active, though only the insertion of a run asks.     *)
(***************************************************************************)
THEOREM OneRunIsActive == Spec => []OneActiveRun
BY DemoAlways, PTL DEF DemoInv

(***************************************************************************)
(* mark_emitted, mark_recovery_emitted and fail write by id, whatever the  *)
(* status has become; still none of them revives a run that has ended.     *)
(***************************************************************************)
THEOREM EndedStaysEnded == Spec => NeverRevived
<1>1. DemoInv /\ [Next]_vars =>
        [\A r \in Runs : demo[r].status \in Ended => demo'[r].status \in Ended]_demo
  BY DemoStep
<1>2. QED
  BY <1>1, DemoAlways, PTL DEF Spec, NeverRevived

=============================================================================
