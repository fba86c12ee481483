-------------------------------- MODULE DemoRuns --------------------------------
(***************************************************************************)
(* The controlled demo scenario.  A request queues a run; DemoRunWorker    *)
(* replays traffic through the runtime, creates the monitor that is to see *)
(* the regression, and replays labelled traffic again when the rollback    *)
(* succeeded.  In between, `refresh', called by the worker and by every    *)
(* GET, derives the run's stage from the latest incident of its monitor    *)
(* and that incident's latest action.  A reset request opens the pull      *)
(* request that restores the candidate.                                    *)
(*                                                                         *)
(* The incident and the action of a run are small here; Incidents and      *)
(* Remediation model them.  Abstracted: predictions, outcomes and counts   *)
(* (a replay is one step, or part of one that fails), and the outbox wait  *)
(* at its end (part of the time a replay takes; Runtime has the outbox).   *)
(***************************************************************************)
EXTENDS Naturals

CONSTANTS
  Runs,           \* demo runs
  Workers,        \* demo workers
  Requests,       \* reset requests in progress
  None,           \* no run
  MaxReplays,     \* bound: replays of one kind that are told apart
  MaxRepeats,     \* bound: incidents that follow the first one of a run
  MaxCrashes      \* bound: how often a worker dies

ASSUME NoneType == None \notin Runs
ASSUME BoundsType == {MaxReplays, MaxRepeats, MaxCrashes} \subseteq Nat

VARIABLES
  demo,           \* demo_runs
  scene,          \* the monitor, incident and action of a run
  candidate,      \* the deployed manifest gives the candidate traffic
  pull,           \* the runs whose reset pull request is on GitHub
  worker, request,
  replays,        \* history: replays of each kind that began, by run
  overran,        \* history: runs one of whose leases ran out
  orphaned,       \* history: runs whose worker died before 'traffic' was stored
  crashes

vars == <<demo, scene, candidate, pull, worker, request, replays, overran,
          orphaned, crashes>>
histories == <<replays, overran, orphaned>>

Ended == {"resolved", "failed"}
Active == {"queued", "running", "awaiting_approval"}

\* lease: lease_expires_at is NULL, ahead, or behind.  monitor: monitor_id is
\* set.  result: the keys of that column besides the baseline.
RunRow == [status : Active \cup Ended \cup {"absent"},
           stage : {"queued", "emitting_traffic", "monitoring", "investigating",
                    "awaiting_approval", "remediating", "verifying",
                    "emitting_recovery_traffic", "resolved", "failed"},
           lease : {"none", "live", "expired"}, monitor : BOOLEAN,
           result : SUBSET {"traffic", "recovery_traffic", "reset"}]
AbsentRun == [status |-> "absent", stage |-> "queued", lease |-> "none",
              monitor |-> FALSE, result |-> {}]

\* "executing" stands for 'approved' too, "failed" for 'rejected' and
\* 'cancelled': _state treats them alike.  repeats: incidents before this one.
SceneRow == [monitor : BOOLEAN, incident : {"none", "active", "resolved", "closed"},
             action : {"none", "proposed", "executing", "succeeded", "failed"},
             repeats : 0 .. MaxRepeats, rolledBack : BOOLEAN]
EmptyScene == [monitor |-> FALSE, incident |-> "none", action |-> "none",
               repeats |-> 0, rolledBack |-> FALSE]

WorkerRow == [step : {"idle", "refresh", "claim", "emit", "monitor", "mark",
                      "recover", "replay", "note"}, run : Runs \cup {None}]
IdleWorker == [step |-> "idle", run |-> None]

RequestRow == [step : {"idle", "open", "record"}, run : Runs \cup {None}]
IdleRequest == [step |-> "idle", run |-> None]

Init ==
  /\ demo = [r \in Runs |-> AbsentRun]
  /\ scene = [r \in Runs |-> EmptyScene]
  /\ candidate = TRUE
  /\ pull = {}
  /\ worker = [w \in Workers |-> IdleWorker]
  /\ request = [q \in Requests |-> IdleRequest]
  /\ replays = [r \in Runs |-> [traffic |-> 0, recovery |-> 0]]
  /\ overran = {}
  /\ orphaned = {}
  /\ crashes = 0

Goto(w, step, r) == worker' = [worker EXCEPT ![w] = [step |-> step, run |-> r]]
At(w, step, r) == worker[w] = [step |-> step, run |-> r]

CountReplay(r, kind) ==
  replays' = [replays EXCEPT ![r][kind] = IF @ < MaxReplays THEN @ + 1 ELSE @]

-----------------------------------------------------------------------------
\* POST /demo/scenarios: ON CONFLICT DO NOTHING on the index of active runs.
StartScenario(r) ==
  /\ demo[r].status = "absent"
  /\ candidate
  /\ \A s \in Runs : demo[s].status \notin Active
  /\ demo' = [demo EXCEPT ![r].status = "queued"]
  /\ UNCHANGED <<scene, candidate, pull, worker, request, histories, crashes>>

\* Mutant of DerivedState: an execution that has begun is already verified.
VerifyEarly(s) ==
  CASE s.incident = "none" -> <<"running", "monitoring">>
    [] s.incident = "resolved" -> <<"resolved", "resolved">>
    [] s.action = "none" -> <<"running", "investigating">>
    [] s.action = "failed" -> <<"failed", "failed">>
    [] OTHER -> <<"running", "verifying">>

(***************************************************************************)
(* _state: the status and stage that follow from the incident and action.  *)
(***************************************************************************)
DerivedState(s) ==
  CASE s.incident = "none" -> <<"running", "monitoring">>
    [] s.incident = "resolved" -> <<"resolved", "resolved">>
    [] OTHER ->
         CASE s.action = "none" -> <<"running", "investigating">>
           [] s.action = "proposed" -> <<"awaiting_approval", "awaiting_approval">>
           [] s.action = "executing" -> <<"running", "remediating">>
           [] s.action = "succeeded" -> <<"running", "verifying">>
           [] s.action = "failed" -> <<"failed", "failed">>

\* What refresh finds: a run without monitor_id has no incident.
Seen(r) == IF demo[r].monitor THEN scene[r] ELSE EmptyScene

SetState(r, state) == demo' = [demo EXCEPT ![r].status = state[1], ![r].stage = state[2]]

\* Mutant of RefreshRun: a stage that is a worker's is left alone.
RefreshIdleRun(r) ==
  IF demo[r].status \in {"running", "awaiting_approval"}
     /\ demo[r].stage # "emitting_recovery_traffic"
  THEN SetState(r, DerivedState(Seen(r))) ELSE demo' = demo

\* refresh: the lease stays.
RefreshRun(r) ==
  IF demo[r].status \in {"running", "awaiting_approval"}
  THEN SetState(r, DerivedState(Seen(r))) ELSE demo' = demo

\* GET /demo/scenarios/{id}
GetScenario(r) ==
  /\ RefreshRun(r)
  /\ UNCHANGED <<scene, candidate, pull, worker, request, histories, crashes>>

-----------------------------------------------------------------------------
\* run_once: the run `active' lists is refreshed first.
ListActive(w) ==
  /\ worker[w].step = "idle"
  /\ \/ \E r \in Runs : /\ demo[r].status \in {"running", "awaiting_approval"}
                        /\ Goto(w, "refresh", r)
     \/ /\ \A r \in Runs : demo[r].status \notin {"running", "awaiting_approval"}
        /\ Goto(w, "claim", None)
  /\ UNCHANGED <<demo, scene, candidate, pull, request, histories, crashes>>

RefreshActive(w, r) ==
  /\ At(w, "refresh", r)
  /\ RefreshRun(r)
  /\ Goto(w, "claim", None)
  /\ UNCHANGED <<scene, candidate, pull, request, histories, crashes>>

\* Mutant of Emitting: the claim leaves the run queued.
StillQueued(row) == [row EXCEPT !.lease = "live"]

Emitting(row) == [row EXCEPT !.status = "running", !.stage = "emitting_traffic",
                             !.lease = "live"]

QueuedReady(r) == demo[r].status = "queued" /\ demo[r].lease # "live"

\* claim_queued
ClaimQueued(w, r) ==
  /\ worker[w].step = "claim" /\ QueuedReady(r)
  /\ demo' = [demo EXCEPT ![r] = Emitting(@)]
  /\ Goto(w, "emit", r)
  /\ UNCHANGED <<scene, candidate, pull, request, histories, crashes>>

NothingQueued(w) ==
  /\ worker[w].step = "claim" /\ \A r \in Runs : ~QueuedReady(r)
  /\ Goto(w, "recover", None)
  /\ UNCHANGED <<demo, scene, candidate, pull, request, histories, crashes>>

\* emit_runtime_canary_traffic: the runtime must serve the candidate.
EmitTraffic(w, r) ==
  /\ At(w, "emit", r) /\ candidate
  /\ CountReplay(r, "traffic")
  /\ Goto(w, "monitor", r)
  /\ UNCHANGED <<demo, scene, candidate, pull, request, overran, orphaned, crashes>>

\* ... and the monitor is created when the outbox has drained.
CreateMonitor(w, r) ==
  /\ At(w, "monitor", r)
  /\ scene' = [scene EXCEPT ![r].monitor = TRUE]
  /\ Goto(w, "mark", r)
  /\ UNCHANGED <<demo, candidate, pull, request, histories, crashes>>

\* {**existing, key: value}, under the row lock.
Merged(result, key) == result \cup {key}

\* mark_emitted: the key 'traffic', and the monitor, whatever the status has
\* become.
EmissionNoted(row) ==
  [row EXCEPT !.monitor = TRUE, !.status = "running", !.stage = "monitoring",
              !.lease = "none", !.result = Merged(@, "traffic")]

MarkEmitted(w, r) ==
  /\ At(w, "mark", r)
  /\ demo' = [demo EXCEPT ![r] = EmissionNoted(@)]
  /\ Goto(w, "recover", None)
  /\ UNCHANGED <<scene, candidate, pull, request, histories, crashes>>

\* Mutant of RecoveryReady: the stage alone makes a run claimable.
ReadyByStage(r) == demo[r].status = "running" /\ demo[r].stage = "verifying"
                   /\ "recovery_traffic" \notin demo[r].result

RecoveryReady(r) ==
  /\ demo[r].status = "running" /\ demo[r].stage = "verifying"
  /\ "recovery_traffic" \notin demo[r].result
  /\ demo[r].lease # "live"

\* claim_recovery_ready
ClaimRecovery(w, r) ==
  /\ worker[w].step = "recover" /\ RecoveryReady(r)
  /\ demo' = [demo EXCEPT ![r].stage = "emitting_recovery_traffic",
                          ![r].lease = "live"]
  /\ Goto(w, "replay", r)
  /\ UNCHANGED <<scene, candidate, pull, request, histories, crashes>>

NothingToRecover(w) ==
  /\ worker[w].step = "recover" /\ \A r \in Runs : ~RecoveryReady(r)
  /\ Goto(w, "idle", None)
  /\ UNCHANGED <<demo, scene, candidate, pull, request, histories, crashes>>

\* emit_runtime_recovery_traffic: the candidate must have no traffic.
ReplayRecovery(w, r) ==
  /\ At(w, "replay", r) /\ ~candidate
  /\ CountReplay(r, "recovery")
  /\ Goto(w, "note", r)
  /\ UNCHANGED <<demo, scene, candidate, pull, request, overran, orphaned, crashes>>

\* Mutant of RecoveryNoted: the status is set along with the stage.
RunningAgain(row) ==
  [row EXCEPT !.status = "running", !.stage = "verifying", !.lease = "none",
              !.result = Merged(@, "recovery_traffic")]

\* mark_recovery_emitted: by id, whatever the status has become.
RecoveryNoted(row) ==
  [row EXCEPT !.stage = "verifying", !.lease = "none",
              !.result = Merged(@, "recovery_traffic")]

MarkRecoveryEmitted(w, r) ==
  /\ At(w, "note", r)
  /\ demo' = [demo EXCEPT ![r] = RecoveryNoted(@)]
  /\ Goto(w, "idle", None)
  /\ UNCHANGED <<scene, candidate, pull, request, histories, crashes>>

\* A replay that does not end has been made in part, or not at all.
ReplayedInPart(w) ==
  \/ UNCHANGED replays
  \/ worker[w].step = "emit" /\ candidate /\ CountReplay(worker[w].run, "traffic")
  \/ worker[w].step = "replay" /\ ~candidate /\ CountReplay(worker[w].run, "recovery")

\* Mutant of Failed: only the lease is given back.
LeaseGivenBack(row) == [row EXCEPT !.lease = "none"]

\* fail: by id, whatever the status has become.
Failed(row) == [row EXCEPT !.status = "failed", !.stage = "failed", !.lease = "none"]

\* Any call of an emission raised.
FailRun(w, r) ==
  /\ worker[w].run = r
  /\ worker[w].step \in {"emit", "monitor", "mark", "replay", "note"}
  /\ demo' = [demo EXCEPT ![r] = Failed(@)]
  /\ ReplayedInPart(w)
  /\ IF worker[w].step \in {"replay", "note"} THEN Goto(w, "idle", None)
                                              ELSE Goto(w, "recover", None)
  /\ UNCHANGED <<scene, candidate, pull, request, overran, orphaned, crashes>>

Crash(w) ==
  /\ worker[w].step # "idle" /\ crashes < MaxCrashes
  /\ crashes' = crashes + 1
  /\ orphaned' = orphaned \cup (IF worker[w].step \in {"emit", "monitor", "mark"}
                                THEN {worker[w].run} ELSE {})
  /\ ReplayedInPart(w)
  /\ Goto(w, "idle", None)
  /\ UNCHANGED <<demo, scene, candidate, pull, request, overran>>

\* The clock passes lease_expires_at: the emission took longer, or died.
LeaseExpires(r) ==
  /\ demo[r].lease = "live"
  /\ demo' = [demo EXCEPT ![r].lease = "expired"]
  /\ overran' = overran \cup {r}
  /\ UNCHANGED <<scene, candidate, pull, worker, request, replays, orphaned, crashes>>

-----------------------------------------------------------------------------
\* POST /demo/scenarios/{id}/reset, up to the await: answered at once when the
\* reset is recorded, refused while the run is active.
ResetRequested(q, r) ==
  /\ request[q].step = "idle"
  /\ demo[r].status \in Ended /\ "reset" \notin demo[r].result
  /\ request' = [request EXCEPT ![q] = [step |-> "open", run |-> r]]
  /\ UNCHANGED <<demo, scene, candidate, pull, worker, histories, crashes>>

\* create_demo_reset: a branch per run, found again when it is there.
OpenReset(q) ==
  /\ request[q].step = "open"
  /\ \/ /\ pull' = pull \cup {request[q].run}
        /\ request' = [request EXCEPT ![q].step = "record"]
     \/ pull' = pull /\ request' = [request EXCEPT ![q] = IdleRequest]
  /\ UNCHANGED <<demo, scene, candidate, worker, histories, crashes>>

RecordReset(q) ==
  /\ request[q].step = "record"
  /\ demo' = [demo EXCEPT ![request[q].run].result = Merged(@, "reset")]
  /\ request' = [request EXCEPT ![q] = IdleRequest]
  /\ UNCHANGED <<scene, candidate, pull, worker, histories, crashes>>

-----------------------------------------------------------------------------
\* Somebody merges a manifest: a reset, a rollback, or another change.
ManifestMerged ==
  /\ candidate' = ~candidate
  /\ UNCHANGED <<demo, scene, pull, worker, request, histories, crashes>>

\* Nothing reads the scene of a run that has ended.
SetScene(r, row) ==
  /\ demo[r].status \in Active
  /\ scene' = [scene EXCEPT ![r] = row]
  /\ UNCHANGED <<demo, candidate, pull, worker, request, histories, crashes>>

\* The monitor sees the regression: a first incident, or another one.
IncidentOpens(r) ==
  /\ scene[r].monitor /\ scene[r].incident # "active"
  /\ IF scene[r].incident = "none"
     THEN SetScene(r, [scene[r] EXCEPT !.incident = "active"])
     ELSE /\ scene[r].repeats < MaxRepeats
          /\ SetScene(r, [scene[r] EXCEPT !.incident = "active", !.action = "none",
                                          !.repeats = @ + 1])

\* What may follow in the action's life while its incident is active.
ActionMoves(r) ==
  /\ scene[r].incident = "active"
  /\ \E to \in [none |-> {"proposed"}, proposed |-> {"executing", "failed"},
                executing |-> {"succeeded", "failed"}, succeeded |-> {},
                failed |-> {}][scene[r].action] :
       /\ to = "succeeded" => ~candidate
       /\ SetScene(r, [scene[r] EXCEPT !.action = to,
                                       !.rolledBack = @ \/ to = "succeeded"])

\* An engineer or the recovery worker ends the incident; its proposal goes too.
IncidentEnds(r) ==
  /\ scene[r].incident = "active"
  /\ \E to \in {"resolved", "closed"} :
       SetScene(r, [scene[r] EXCEPT !.incident = to,
                      !.action = IF @ \in {"proposed", "executing"} THEN "failed" ELSE @])

-----------------------------------------------------------------------------
WorkerStep(w) ==
  \/ ListActive(w) \/ NothingQueued(w) \/ NothingToRecover(w)
  \/ \E r \in Runs :
       \/ RefreshActive(w, r) \/ ClaimQueued(w, r) \/ EmitTraffic(w, r)
       \/ CreateMonitor(w, r) \/ MarkEmitted(w, r) \/ ClaimRecovery(w, r)
       \/ ReplayRecovery(w, r) \/ MarkRecoveryEmitted(w, r) \/ FailRun(w, r)

Environment ==
  \/ ManifestMerged
  \/ \E r \in Runs : IncidentOpens(r) \/ ActionMoves(r) \/ IncidentEnds(r)

Next ==
  \/ \E w \in Workers : WorkerStep(w) \/ Crash(w)
  \/ \E r \in Runs : StartScenario(r) \/ GetScenario(r) \/ LeaseExpires(r)
  \/ \E q \in Requests : \/ OpenReset(q) \/ RecordReset(q)
                         \/ \E r \in Runs : ResetRequested(q, r)
  \/ Environment

Spec == Init /\ [][Next]_vars

\* Workers poll for ever and end what they began; leases run out.
Fairness ==
  /\ \A w \in Workers : WF_vars(WorkerStep(w))
  /\ \A r \in Runs : WF_vars(LeaseExpires(r))

FairSpec == Spec /\ Fairness

-----------------------------------------------------------------------------
TypeOK ==
  /\ demo \in [Runs -> RunRow]
  /\ scene \in [Runs -> SceneRow]
  /\ candidate \in BOOLEAN
  /\ pull \subseteq Runs
  /\ worker \in [Workers -> WorkerRow]
  /\ request \in [Requests -> RequestRow]
  /\ replays \in [Runs -> [traffic : 0 .. MaxReplays, recovery : 0 .. MaxReplays]]
  /\ overran \subseteq Runs /\ orphaned \subseteq Runs
  /\ crashes \in 0 .. MaxCrashes

(***************************************************************************)
(* Traffic for the canary is replayed once per run, by one worker, however *)
(* late workers are and however often GETs rewrite the stage they are in.  *)
(***************************************************************************)
TrafficOnce == \A r \in Runs : replays[r].traffic <= 1

(***************************************************************************)
(* Two recovery replays of one run need a lease that ran out: refresh puts *)
(* the stage back to 'verifying' under a worker that is replaying, and     *)
(* only its lease keeps another one away.                                  *)
(***************************************************************************)
RecoveryOnce == \A r \in Runs : replays[r].recovery > 1 => r \in overran

(***************************************************************************)
(* Recovery traffic is replayed only in a run one of whose rollbacks has   *)
(* succeeded: the evidence it yields is never from before the remediation. *)
(***************************************************************************)
RecoveryAfterRollback == \A r \in Runs : replays[r].recovery > 0 => scene[r].rolledBack

(***************************************************************************)
(* At most one run is active.  The index checks it when a run starts; that *)
(* no later update by a slow worker revives an ended run keeps it.         *)
(***************************************************************************)
OneActiveRun ==
  \A r, s \in Runs : demo[r].status \in Active /\ demo[s].status \in Active => r = s

\* An ended run stays ended, though workers may still be writing to it.
NeverRevived ==
  [][\A r \in Runs : demo[r].status \in Ended => demo'[r].status \in Ended]_demo

(***************************************************************************)
(* A run is not left in its emission: its monitor is recorded or it fails, *)
(* unless its worker died.  (After such a death no claim accepts it.)      *)
(***************************************************************************)
EmissionEnds ==
  \A r \in Runs : demo[r].status = "queued" ~>
                    (demo[r].monitor \/ demo[r].status \in Ended \/ r \in orphaned)

(***************************************************************************)
(* After the rollback recovery traffic is replayed or the run ends, even   *)
(* if the worker that claimed it died: refresh makes it claimable again.   *)
(***************************************************************************)
Recovering(r) ==
  /\ demo[r].status \in Active /\ demo[r].monitor
  /\ scene[r].incident = "active" /\ scene[r].action = "succeeded"

RecoveryReplayed ==
  \A r \in Runs : Recovering(r) ~> (~Recovering(r) \/ "recovery_traffic" \in demo[r].result)

=============================================================================
