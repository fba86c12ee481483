# Histograph: a verification project

Histograph watches deployed models. A monitor detects a regression, an incident
opens, an agent investigates it with DataHub's lineage, a rollback is proposed,
an engineer approves it (usually by merging a pull request), the runtime reports
what it serves, and the incident is resolved when fresh evidence shows the
recovery. All of that runs in several processes (API servers, worker processes,
the reconciler) which share Postgres tables and nothing else. This directory
holds TLA+ models of that system, the TLC runs that check them on small
instances, and proofs that the TLAPS proof system checks for every instance.

`src/…` below is the repository; `PROJECT.json` maps every definition to the
lines it models and lists the hazards, runs, mutants and findings. In file
names the prefix `server/src/histograph/` is left out.

## 1. Inventory

### Incident lifecycle (`incidents/`, `api/routes/incidents.py`)
- *State*: a row of `incidents`: status (open, investigating, resolved, closed),
  investigation status with lease and retry time, evidence (JSON), timeline.
- *Operations*: create, claim/complete/fail an investigation, update,
  transition, record a recovery; the service checks which transition is allowed.
- *Interactions*: monitor events create incidents, three workers and two requests
  move them; every end of an incident cancels its actions in a transaction of
  its own.
- *Hard*: the service reads, checks, and writes in another transaction without
  comparing; the evidence column is replaced as a whole by whoever read it
  earlier; a lease that only a running row carries.
- *Correct when*: one active incident per monitor; resolved only after a
  verified recovery, and by evidence of this episode; closed stays closed until
  somebody reopens it; every investigation that starts ends.

### Remediation actions (`remediation/`, `api/routes/remediation.py`)
- *State*: `remediation_actions` (status, lease, external id, verification) and
  `remediation_approvals`.
- *Operations*: propose, decide, approve-and-start (a merge), claim approved,
  complete an execution, claim for recovery, reschedule, mark verified, cancel
  for incident, cancel a stale proposal.
- *Hard*: engineers, merges, workers, callbacks and cancellations race for the
  same row; a worker may die between the claim and the adapter's answer; a late
  result may arrive from a worker that lost its lease.
- *Correct when*: only what was approved, for an active incident, starts; what
  started is not withdrawn; a final status stays; two workers execute the same
  action only when a lease ran out; verified means the action succeeded, the
  runtime removed the traffic and the incident's timeline has the recovery.

### Control-plane workers (`workers/services.py`, `workers/runtime.py`)
- *State*: none of their own; what a job read earlier is in local variables.
- *Operations*: MonitorWorker, InvestigationWorker, ActionWorker,
  RecoveryWorker and GitOpsProposalWorker take turns in one loop per process.
- *Hard*: a job is a sequence of transactions with awaits between them; the
  process may die at each of these points, and another may be slow at one.

### Investigation agent (`agents/investigation/agent.py`)
- Reads the incident, awaits DataHub, writes report and evidence back.
- *Hard*: the evidence it writes back is the one it read before the await.

### Recovery evaluation (`workers/services.py`, `detection/service.py`)
- The latest state of the target since the execution started must be a removal
  and a window of fresh observations must pass the monitor's conditions: against
  the baseline of the incident for a rolled back model, against the window just
  before for a rolled back release.
- *Correct when*: reports from before the execution, or a return of the traffic
  that followed it, do not count; a window that would open the incident again is
  not a recovery.

### GitOps (`integrations/github/`, `api/routes/github.py`, migration 004)
- *State*: `gitops_pull_requests` with status, lease, number and merge
  revision; `github_webhook_deliveries`; GitHub's own pull requests.
- *Operations*: claim a proposal, compare the manifest, create the pull request,
  store or fail it; begin and finish a delivery; mark merged or closed; approve
  or reject the action; find the action of a deployed revision and complete it.
- *Hard*: two workers open the same pull request; a worker dies between GitHub's
  answer and the row; a webhook overtakes the row it is about, or another
  webhook; a delivery is handled by two requests at once; two transactions for
  one merge, the second of which may be refused.
- *Correct when*: an execution that tracks a pull request was merged and can be
  recognised by its revision; success comes from a report; merges are answered;
  proposals get their pull request.

### Monitor schedule (`monitors/repository.py`, MonitorWorker, `api/routes/detection.py`)
- *State*: `monitors` (next evaluation, lease), `monitor_runs` by slot,
  `monitor_events` by monitor and instant.
- *Operations*: save, claim due, record an event, complete or fail an
  evaluation; the event opens an incident or repeats one.
- *Hard*: completion and failure clear the lease and move the schedule of a
  monitor by id, whoever holds it; event, incident and end of the evaluation are
  three transactions; requests evaluate without a claim.
- *Correct when*: nobody evaluates twice while leases last; what is recorded as
  triggered is on an incident's timeline; no monitor stays due for ever.

### Detection (`detection/`) and rollback manifests (`integrations/github/manifest.py`)
- *State*: none; functions of windows, of a monitor's row and of the branch.
- *Operations*: validate and complete a monitor, measure two windows, compare,
  trigger; render a rollback of the manifest; judge a recovery.
- *Hard*: empty and one-sided windows, thresholds met exactly, baselines that
  collapse; what was stored and what a request supplies are combined; the branch
  has moved on when a rollback is rendered.
- *Correct when*: metrics are the textbook's; a trigger is a degradation and a
  further degradation does not silence it; a recovery would not trigger; a
  rollback changes what it names, once.

### Changes and deployments (`changes/`, `deployments/`, `integrations/github/`)
- *State*: rows of events by occurrence; the imported deployment with its desired
  and observed state and a sync status.
- *Operations*: save an event and tell its observer; sync from GitHub, hydrate
  from the runtime, refresh the status.
- *Hard*: the observer replaces by arrival; the status is computed from one
  statement's row and written by the next; a sync stores release by release.
- *Correct when*: what is shown was served, and is served once all is delivered.

### Demo runs (`demo_runs/`, DemoRunWorker, `src/demo/scenario.py`)
- *State*: `demo_runs` (status, stage, lease, result); the run's monitor,
  incident and action.
- *Operations*: start, claim, replay traffic, replay recovery traffic, refresh
  (by the worker and by every GET), fail, reset.
- *Hard*: refresh derives the stage from incident and action and overwrites the
  one a worker is in; marks and failures are written by id; a stage no claim
  accepts after a crash.
- *Correct when*: each replay happens once and in its place; one run is active;
  what has ended stays ended.

### Reference runtime and reconciler (`src/demo/runtime/`)
- *State*: the reconciler's row (revision, deployment id, status); the runtime's
  manifest; the outbox with retry times; GitHub's deployments and statuses.
- *Operations*: one pass per commit (create a deployment, save, report, apply,
  report, store); apply; deliver an event, complete or retry it; restarts.
- *Hard*: a pass may die or lose an answer at each call; an apply takes its
  timestamp before the lock, and its caller may have given up; events are
  delivered at least once and out of order.
- *Correct when*: success is reported, and stored, only of what is served; what
  is served reaches Histograph; after the faults everything converges.

### Not modelled, and why
| Part | Why not |
| --- | --- |
| API rate limits (`product/rate_limits.py`) | one upsert under one row lock; no property beyond its own text |
| The rules of `_build_report` and of ReleaseContextService | heuristics over names and texts: ControlPlane lets a report be any of its outcomes, which covers whatever they select |
| Saving a GitHub connection, verifying a webhook's signature | configuration and cryptography; a delivery in GitOps is one that was verified |
| Predictions of the runtime | they put further events on the same outbox |
| Telemetry ingestion, storage, settings, health | append-only inserts, connections, configuration |
| DataHub client | an external service; its answers and failures are choices in ControlPlane |
| Product API, TypeScript client | read-only views of tables modelled here |
| Model training and data preparation | offline scripts |

## 2. Modules

| Module | What it is | Uses |
| --- | --- | --- |
| `Incidents` | the incidents table; one operator per statement | `IncidentContract` |
| `Remediation` | the remediation tables; one operator per statement | `Incidents` |
| `ControlPlane` | workers and API requests, interleaved, with crashes | `Remediation` |
| `GitOps` | pull requests, webhooks, GitHub | `Remediation` |
| `RemediationContract` | the abstract specification of an action's life | |
| `IncidentContract` | the abstract specification of the incidents table | |
| `MonitorSchedule` | leased evaluations over a clock, events and incidents | `Incidents` |
| `Detection` | windows, metrics, rules and verdicts as operators | |
| `Manifests` | the deployment manifest and its rollbacks as operators | |
| `Evaluation` | one monitor from request to recovery | `Detection`, `Manifests` |
| `DemoRuns` | the demo scenario: stages, replays, refresh, reset | |
| `Runtime` | reconciler, runtime, outbox, ingestion | |
| `Imports` | the imported deployment, composed with the runtime | `Runtime` |
| `MCControlPlane`, `MCGitOps`, `MCSchedule`, `MCEvaluation`, `MCDemo`, `MCRuntime` | instances for TLC | |
| `IncidentsProofs` | lemmas: each statement on the table is a step of its contract | `Incidents` |
| `ControlPlaneProofs` | types, the contract of incidents, verification and resolution | `ControlPlane`, `IncidentsProofs` |
| `ContractProofs` | approvals, the contract of remediation, exclusion, owed cancellations | `ControlPlaneProofs` |
| `GitOpsProofs`, `ScheduleProofs`, `EvaluationProofs`, `DemoProofs`, `RuntimeProofs` | the theorems of one module each | that module |

**Incidents and Remediation** are the tables. A committed transaction is one
operator: its guard is the WHERE clause or the unique index, its effect the
columns it sets. A lease is `none`, `live` or `expired` (NULL, in the future, in
the past) and the clock is an action that expires it. Of an incident's evidence
only the recovery is kept, as the *epoch* (how often the incident has become
active) in which it was measured. `observed` is what RecoveryEvaluator consults:
the latest runtime state since the execution started; an execution's start is the
time its worker's pass began, so a report that came before the claim may count,
and the claim of a fresh approval leaves `observed` at any value. One transaction
being one step is sound because the statements take row locks (`FOR UPDATE`, or an
`UPDATE … WHERE status = …` which rechecks the row under READ COMMITTED); decide
and claim read the incident's status without locking it, which is as if they ran
before a concurrent transition, and the cancellation that follows rechecks.

**ControlPlane** has one record per *thread*: a row a worker is working on, or a
request in progress. `job` and `step` say where it is, and `status`, `recovery`,
`report` what it read and kept: these are the local variables that may be stale
when used. `WorkerClaims` starts a worker's job, `RequestArrives` a request's,
`ThreadStep` runs one step, `Crash` ends a thread at any point, and
`Environment` holds monitors, engineers, merges, runtime reports and clocks. A
worker claims a batch and works through it in order; here every claimed row has
a thread, which allows each interleaving a batch allows.

**GitOps** has the proposal workers and webhook requests as small processes, the
rows they write, and GitHub: a pull request is open, merged or closed there
whatever the row says. `SeeProposal` and `ClaimPullRequest` are two steps: the
claim locks the action but judges the pull-request row by the statement's
snapshot, so two workers may get the same action. Engineers merge on GitHub when
they like, also before the row shows the pull request; `hasty` and `contended`
remember the actions to which that happened and those two workers were busy with
(`Next` is a `Step` of the system with `Remember`, which keeps them). `delivery` holds both the
table and what GitHub has still to deliver: webhooks arrive in any order, and
one that failed or is five minutes old may be delivered again. The handlers of
one API process do not interleave (they never await), those of several do; runs
have one request, the proofs any number. The remaining control plane is a few
actions (an incident opens and ends, the API decides, ActionWorker claims and
fails what it has no adapter for). Callbacks to `/result` for an action with a
pull request are in ControlPlane only.

**RemediationContract** says what an action goes through, without leases,
workers or evidence. Both ControlPlane and GitOps are checked, and proved, to
implement it (`phase` is the status, `live` the active incidents, `verified` the
verified actions).

**IncidentContract** says what every process that writes the incidents table may
rely on, whoever the others are: an incident is opened once, becomes active, at
first or again, only while no other of its monitor is, and keeps the recovery
its timeline holds. ControlPlane, GitOps and MonitorSchedule write this table and
stand for each other's part of it by a few actions; each is shown to keep the
contract.

**MonitorSchedule** needs real times, because `claim_due` compares the lease with
the time the pass began, however long ago that was: `now` is the clock,
`schedule` the `monitors` row, `run` the rows of `monitor_runs` by slot,
`process` a worker's pass or a detection request with the `at` it works as of.
`late` records whose lease an overdue worker has cleared, which is exactly what
`complete_evaluation` allows.

**Detection and Manifests** are operators only. A window is the record of its
confusion counts and a ratio a numerator with its denominator (`Undefined` is
Python's None), so comparisons with a threshold are exact. A sample counts how
often each value occurs; of a PSI only whether it is zero is kept, where shares of
at most a millionth (the code's epsilon) count as equal. **Evaluation** is the
state machine around them, one step per call of the service: configure, measure,
judge, render, serve, verify.

**DemoRuns** has one record per run for the row and one (`scene`) for the run's
monitor, incident and action, which move by themselves while workers and GETs
read and write the row. A replay is a step that may fail; `replays` counts them,
the ones that were made in part before a failure or a death included, `overran` and `orphaned` note a lease that ran out under a replay and an emission
whose worker died. A scene is frozen once its run has ended: nothing reads it
then.

**Runtime** has one action per call the reconciler awaits or row it saves, the
threads of the runtime that are applying (with the time they took before the
lock, and whether anybody still waits for them), the outbox and its delivery in
the order in which events were stored, and `received`, the rows the ingestion API saved. `wasServed`, `unsaved` and
`strayed` are histories: the commits that were served, the deployments whose id
was lost, and whether an apply took effect that the reconciler had given up.
**Imports** adds the observer of each delivered event and the sync, statement by
statement; it composes with Runtime by conjoining `ObserveDelivered` with the
runtime's `Observe` and leaving the other variables alone elsewhere.

## 3. Runs

| Run | What it asks | Instance | Distinct states |
| --- | --- | --- | --- |
| `requests` | TypeOK, ApprovalInv, VerifiedMeansRecovered, ResolvedAfterRecovery, CancelOwed | 1 incident, 1 action, 1 worker row, 1 request of every kind | 562,000 |
| `two_workers` | ExecutionExclusive, InvestigationOwned, ContractSpec | 2 worker rows, 1 request, 1 crash | 427,000 |
| `takeover` | ExecutionTakenOver, ApprovalAnswered | 2 worker rows, 1 crash, fair | 11,000 |
| `gitops` | TrackedIsMerged, HandledMergeStarted, ContractSpec | 2 proposal workers, 1 webhook request that may die, deployments that succeed | 798,000 |
| `merge_answered` | MergeAnswered, ProposalOpened | 1 proposal worker, 1 webhook request, 1 crash, deployments that fail, fair | 32,000 |
| `schedule` | OneActivePerMonitor, TriggeredIsAnswered, EvaluatedAlone, LifecycleSpec, NeverStarved | 1 monitor, 2 incidents, 2 workers, 1 request, 3 ticks, 1 crash, fair | 978,000 |
| `demo` | TrafficOnce, RecoveryOnce, RecoveryAfterRollback, NeverRevived, EmissionEnds, RecoveryReplayed | 1 run, 2 workers, 1 reset, 1 crash, fair | 140,000 |
| `runtime` | NothingLost, SuccessWasServed, RestsOnServed, OneDeployment, ObservedIsServed, Converges | 2 commits, a version and a feature, 2 applies at once, 1 fault, 1 sync, fair | 622,000 |
| `evaluation` | MetricsAgree, TriggerIsDegradation, SpoiltStillTriggers, RecoveryIsQuiet, RollbackOnce, RollbackIsBounded, ShiftIsSeen, EngineNeverRefuses | every monitor with a threshold of 0 or 1/2, windows of up to 4 pairs, 6 manifests | 491,000 |
| `investigation_crash`, `deployment_ignored`, `release_recovery` | one statement of the documentation or a test each, which the code does not keep (section 5) | | |

*Bounds.* One incident with one action is where all transactions of ControlPlane
and GitOps meet: rows of different incidents share only the unique index (two
incidents of one monitor are in `schedule`), and actions of one incident only
`cancel_for_incident`, which treats each alike. Two worker rows are needed for a
lease to be lost to somebody; a third adds no new pair. `MaxCrashes` is one
because a dead thread leaves nothing but rows that the next claim sees;
`MaxFaults` likewise allows one failed call, timeout or restart anywhere in a
pass, which the reconciler's next pass must absorb. `MaxEpoch` is one: no checked
property tells epochs apart. `Requests` names the kinds of requests that arrive;
`requests` has all of them, `two_workers` the callbacks, `takeover` none.
`MaxTime` is three with a lease of two and intervals of one: long enough for a
lease to run out under a slow worker, for another to take over and for the slow
one to come back; requests arrive at time 2 and evaluate as of time 1
(`CheckTimes`, `AsOfTimes`), at which a worker may have evaluated as well.
`MaxApplies` is three: two commits and one apply that is repeated. A metric with
at most one pair of each kind reaches every zero denominator, both sides of the
threshold and the threshold itself; a threshold of 0 is what a score of 0 meets;
a baseline of ten samples per value puts quantile boundaries on every value or
none. `MaxReplays` is two, one more than what is
allowed. `Mortal` names the processes that may die. `Reports` (GitOps) names the
states in which deployments are reported: a report ends an execution that tracks
its pull request, whichever of the two it is, so `gitops` has the successes,
`merge_answered` the failures and `deployment_ignored` both. The proofs of
section 4 depend on none of these bounds.

*Deadlock* is checked in the ControlPlane runs but `takeover`, which has no
requests: there, and in the other modules, everything can be over (the incident
ended, the branch deployed, the run verified, the clock at its last tick).

*Fairness* (`FairSpec`, `FairComposedSpec`). A running process takes its next
step. The loop of `ControlPlaneWorker` claims every kind of work in each pass,
oldest row first (`workers/services.py:539-548` and the ORDER BY of each claim),
so a row that is claimable again and again is claimed: strong fairness of the
claims. The clock passes each expiry. In GitOps, GitHub does not fail for ever
and delivers each webhook once. Monitor and demo workers poll for ever
(`workers/runtime.py`), time passes and leases run out. The reconciler's and the
telemetry worker's loops go on after an exception (`src/demo/runtime/`), and the
runtime's threads finish what they began. Nothing is assumed of engineers,
clients, pushes, syncs, GETs, or of a second delivery.

*Mutants.* Each property of a passing run has a mutant in `PROJECT.json`: a
plausible bug (a dropped guard, a row written anew, a lease not compared) defined
beside the definition it would replace, under which the run finds the property
violated.

### What the properties say
- `ApprovalInv`: status and approval row agree although five kinds of process
  write them; what executes was approved.
- `VerifiedMeansRecovered`: a verified action succeeded, its traffic was
  reported removed and the timeline has a verified recovery, though the worker
  checks these in different transactions.
- `ResolvedAfterRecovery`: no interleaving resolves an incident without a
  recovery in its timeline, though check and write are apart.
- `CancelOwed`: while nobody has died, an approved action of an ended incident
  has a process that is about to cancel it.
- `ExecutionExclusive`, `InvestigationOwned`: leases keep workers apart, and a
  failed investigation is always put back.
- `ApprovalAnswered`, `ExecutionTakenOver`: an approval is executed, and an
  execution left behind taken over, while the incident is active.
- `TrackedIsMerged`: what a slow proposal worker writes over a merged row never
  costs the revision by which its deployment is recognised.
- `HandledMergeStarted`, `MergeAnswered`, `ProposalOpened`: a merge recorded as
  handled started its execution, every merge is decided, every proposal gets its
  pull request. The first two except a merge made before the table shows the pull
  request as open (`hasty`), which the code loses; the first also one of an action
  two workers were busy with (`contended`), where a slow one's failure may
  overwrite the row of a pull request the other opened.
- `ContractSpec`: everything above keeps the abstract life of an action.
- `OneActivePerMonitor`: concurrent creations and reopenings keep one active
  incident per monitor.
- `LifecycleSpec`: the contract of incidents, step by step: no process makes an
  incident active beside another, opens it twice or takes its recovery away.
- `TriggeredIsAnswered`: an evaluation is recorded as triggered only once an
  incident of its monitor has the event, whatever came between the statements.
- `EvaluatedAlone`: a lease is shared only after somebody outlived one;
  `NeverStarved`: and no death or late write leaves a monitor due for ever.
- `MetricsAgree`, `ShiftIsSeen`: metrics against the textbook, with where the
  engine has no value; a full shift has a PSI, unless the baseline collapses.
- `TriggerIsDegradation`, `SpoiltStillTriggers`: an incident is about something
  worse, and getting worse does not silence it while there is a metric.
- `RecoveryIsQuiet`: a verified recovery of a model would not trigger.
- `RollbackIsBounded`, `RollbackOnce`: a rollback changes what it names and
  repeats as nothing.
- `EngineNeverRefuses`: what the service completes, the engine accepts.
- `TrafficOnce`, `RecoveryOnce`, `RecoveryAfterRollback`, `NeverRevived`,
  `EmissionEnds`, `RecoveryReplayed`: each replay once, in its place and in the
  end, although every GET rewrites the stage. `EmissionEnds` excepts a run whose
  worker died: nothing in the code recovers it, and while it is active no other
  run can start.
- `SuccessWasServed`, `RestsOnServed`, `OneDeployment`: what GitHub and the
  reconciler's row say, against what was served and created.
- `NothingLost`, `ObservedIsServed`, `Converges`: what is served reaches the
  ingestion tables and the deployment's page. The exceptions are histories: an
  apply nobody waited for (`strayed`; nothing repairs it, since a pass compares
  the branch with its own row only) and the keys of which the row lacks the
  latest observation that arrived (`overtaken`): an older one came last, since
  the row does not compare times, or the imported manifest left the feature out
  when it came and named it again later. A later observation ends the exception.

## 4. Proofs

`tlapm` checks these for every set of incidents, actions, workers, requests,
monitors, runs and commits, every duration and every number of faults.

| Module | Theorem | Statement |
| --- | --- | --- |
| `ControlPlaneProofs` | `TypeCorrect` | `Spec => []TypeOK` |
| | `IncidentsKeepContract`, `OneIncidentPerMonitor` | `LifecycleSpec`, `[]OneActivePerMonitor` |
| | `VerificationIsSound`, `ResolutionIsSound` | `[]VerifiedMeansRecovered`, `[]ResolvedAfterRecovery` |
| `ContractProofs` | `ExecutionIsApproved`, `ImplementsContract` | `[]ApprovalInv`, `ContractSpec` |
| | `ExecutionIsExclusive`, `InvestigationIsOwned`, `CancellationIsOwed` | `[]ExecutionExclusive`, `[]InvestigationOwned`, `[]CancelOwed` |
| `GitOpsProofs` | `GitOpsTypeCorrect`, `TrackedWasMerged` | `[]TypeOK`, `[]TrackedIsMerged` |
| | `HandledMergesStart` | `[]HandledMergeStarted` |
| | `GitOpsImplementsContract`, `GitOpsKeepsContract` | `ContractSpec`, `LifecycleSpec` |
| `ScheduleProofs` | `ScheduleTypeCorrect`, `TriggersAreAnswered`, `EvaluationIsAlone`, `OneIncidentIsActive` | `[]TypeOK`, `[]TriggeredIsAnswered`, `[]EvaluatedAlone`, `[]OneActivePerMonitor` |
| | `DetectionKeepsContract` | `LifecycleSpec` |
| `EvaluationProofs` | `EvaluationTypeCorrect`, `EngineAccepts`, `MetricsAreTextbook`, `IncidentsAreDegradations`, `RecoveriesAreQuiet` | `[]TypeOK`, `[]EngineNeverRefuses`, `[]MetricsAgree`, `[]TriggerIsDegradation`, `[]RecoveryIsQuiet` |
| | `RollbacksAreBounded`, `RollbacksAreNotRepeated` | `[]RollbackIsBounded`, `[]RollbackOnce` |
| | `WorseStillTriggers`, `ShiftsAreSeen` | `[]SpoiltStillTriggers`, `[]ShiftIsSeen` |
| `DemoProofs` | `DemoTypeCorrect`, `TrafficIsReplayedOnce`, `RecoveryIsReplayedOnce`, `RecoveryIsAfterRollback`, `EndedStaysEnded` | `[]TypeOK`, `[]TrafficOnce`, `[]RecoveryOnce`, `[]RecoveryAfterRollback`, `NeverRevived` |
| | `OneRunIsActive` | `[]OneActiveRun`, for any number of runs (the run `demo` has one) |
| `RuntimeProofs` | `RuntimeTypeCorrect`, `SuccessIsServed`, `RestIsServed`, `DeployedOnce`, `ServedIsTold` | `[]TypeOK`, `[]SuccessWasServed`, `[]RestsOnServed`, `[]OneDeployment`, `[]NothingLost` |
| | `ImportsTypeCorrect`, `InSyncIsHonest`, `ShownIsServed`, `ShownIsCurrent` | `[]ImportsTypeOK`, `[]InSyncMatches`, `[]ShownWasServed`, `[]ObservedIsServed` |

*Assumptions*: the named ASSUMEs of the modules (types of the constants, `None`
is no row, workers and requests are different, the values of a sample are
finitely many integers); TLC evaluates them in each run. No theorem assumes more.

*Arguments.* Each theorem rests on an inductive invariant, because the property
itself forgets why it holds.

*ControlPlane.* `TypeInv` is TypeOK with the shape of a thread at each step (one
that is about to write to an incident has one) and that a thread with an action
works on that action's incident. `mark_recovery_verified` writes by id without
looking, so what makes the write right is what the worker established three
transactions earlier: `RecoveryInv` adds, for each thread and step, what it has
established and nobody can undo (an action that succeeded stays succeeded, a
removal that was reported stays reported, a verification event stays in the
timeline). `EvidenceInv` relates the evidence to the timeline, which is why a
resolution that rests on stale evidence is still one after *a* recovery. For the
approvals and the refinement, `StepCases` says what any step does to the tables:
one statement on one action, the cancellation of an incident's actions, one
change of an incident, or nothing; each statement then keeps the agreement and
maps to a step of the contract or a stutter. `ExclusiveInv` adds that a worker
whose lease lasts *holds* its action, that is, its row is one `claim_approved`
passes over; `OwnedInv` that a row somebody investigates is running or completed,
so nobody claims it; `CancelOwed` is inductive with the types alone.

*The incidents table.* Each statement is a step of the contract or leaves its
variables alone (`IncidentsProofs`), given that a row which does not exist has no
timeline (`Unrecovered`), which each statement keeps. A step of ControlPlane,
GitOps or MonitorSchedule is one such statement or none, so each of the three
implements the contract, and `OneActivePerMonitor` follows from the contract's
guards and not from what a process does. Of the table these proofs use its type,
`Unrecovered` and that no incident vanishes, which every step of the contract
keeps: hence the same holds when the steps of the three interleave on one table.
This last conclusion is an argument of this text; no module composes the three.

*GitOps.* `GitOpsInv` says what a webhook in progress may rely on: GitHub sends
only what happened (`SentInv`), a merge's request has stored the revision before
it decides (`MarkedInv`), and what is tracked was merged and approved
(`TrackedInv`). `HandledInv` adds why the webhook of a merge finds its row, unless
the merge was hasty or the action contended: a worker that is busy alone has a
row that is not open (`BusyInv`), so what was open in the table when it was merged
on GitHub stays in the table (`KnownInv`), and an answer that says handled is
given only after the start (`AnsweredInv`). `ContendedInv` ties the history to the
workers. The refinement goes statement by statement as for
ControlPlane.

*MonitorSchedule.* `AnswerInv` follows an event through the three transactions:
whoever is about to complete as triggered has its event on a timeline, and
timelines only grow. `LeaseInv` says that a worker that is not overdue holds
exactly the lease it took, until somebody overdue has cleared one (`late`).

*Evaluation.* The invariant says that an incident, a rollback and a recovery
still have the windows and the manifest they were judged by; the rest are lemmas
about the operators: a monitor that was validated is one the engine accepts,
ratios of counts compare as the textbook's, a threshold with a positive value
makes a trigger a degradation, a rendered rollback is valid and its own result
renders to itself or to nothing.

That a worse window still triggers (`WorseStillTriggers`) is an order on ratios
of counts, kept by every step from counts to a verdict: one prediction
less that was right makes no metric better (`SpoiltWorse`), the difference to a
baseline moves with it (`MinusOrder`), and so does what the operator compares
(`MatchesWorse`). That a shift is seen (`ShiftsAreSeen`) is about the buckets of
a finite sample: quantile boundaries are values of the sample, so a sample whose
values moved past all of them leaves a bucket (`BoundariesOccur`, `ShiftShows`).
Its facts about sums of weights over a set of points hold by induction over
finite sets. The library states that induction for an operator, which cannot be
instantiated here; the proofs take a least counterexample instead (`LeastSet`:
any nonempty collection of subsets of a finite set has one of which no proper
part belongs to it), and the sums, written as recursive functions, are shown to
exist and to satisfy their equation before they are used (`SumsExist`).

*DemoRuns.* `EmissionInv` says that one worker emits, and nothing ends the run
but that worker; `AfterRollback` that the stage `verifying`, a replaying worker
and a replay all come after a rollback; `RecoveryInv` what keeps a second replay
away: the lease while one is replayed, then the key in the result, or the end.

*Runtime.* `ReportInv` says that a pass reaches its report only through an apply
it waited for or by finding its commit served; `DeployInv` orders the saved row,
the pass under way and the head, and counts the deployments of each commit;
`EvidenceInv` says that until an apply strays nothing is later than what is
served, each key of it was told of at its time, and the latest evidence on a
version is its present traffic. `ImportsInv` adds that whatever an event or a
hydration may still store was served. `FollowedInv` is why the page is right in
the end: what is served, what a sync has still to store and what is shown are
each told of by some event, delivered or not; and of a key that is not overtaken
no event that has arrived is later than what is shown, where a call that failed
after it saved its row has not arrived. With nothing pending what is shown is
then the latest evidence, which `EvidenceInv` says is what is served.

*Only model-checked*: liveness (`ApprovalAnswered`, `ExecutionTakenOver`,
`MergeAnswered`, `ProposalOpened`, `NeverStarved`, `EmissionEnds`,
`RecoveryReplayed`, `Converges`), which is out of the prover's reach like ENABLED.
Every invariant and every other action property of the passing runs is proved.

## 5. Where code and documentation disagree

Three are runs:

1. **A crash during an investigation is final** (`investigation_crash`). The
   claim asks for 'pending' or 'failed', the lease exists only while 'running'
   (`incidents/repository.py:116-121`).
2. **A deployment report handled before its merge is lost**
   (`deployment_ignored`), and the execution stays 'executing'
   (`integrations/github/service.py:372-374`).
3. **A rolled back release recovers by comparison with the degradation**
   (`release_recovery`). Its recovery is judged by a pass of the monitor whose
   baseline is the window before (`workers/services.py:375`), in which the
   degradation still is; `README.md:24` asks for fresh evidence of a recovery.

Others were met on the way and are described here only:

- A reopened incident can be resolved with the recovery of its earlier episode:
  the check (`incidents/service.py:64`) asks for any, and reopening keeps it.
- A closed incident may become resolved or investigating: the table of
  transitions is consulted before the row is locked and the write compares
  nothing (`incidents/service.py:55-70`).
- Recovery evidence may disappear from a resolved incident: the agent writes
  back the evidence it read before its await
  (`agents/investigation/agent.py:42-73`). Its timeline keeps the event.
- A merge before its row is stored is 'ignored' and recorded as completed, so a
  redelivery is a duplicate (`integrations/github/service.py:343-347`): the `hasty`
  exception of `HandledMergeStarted`, whose statement without it TLC refutes in
  the run `gitops`.
- f1 without true positives, like precision without positive predictions, is
  None and never triggers: a classifier that collapses completely silences a
  monitor of either. A baseline of which more than nine tenths are its least
  value has one bucket, and no shift is seen.
- A monitor with operator `lt` whose earlier window had no metric opens an
  incident without a baseline, whose recovery check then always raises
  (`workers/services.py:607`).
- A feature that is rolled back without `rollbackConfiguration` keeps its
  configuration (`integrations/github/manifest.py:110`), and a rollback version
  equal to the version is accepted (`integrations/github/types.py:83`).

## 6. What is left

The plan of the project is carried out. What could be added: the rules by which
a report selects its cause, as a pure function against a reference; and a
composition of MonitorSchedule with ControlPlane, which share the incidents
table, its operators and, as section 4 shows, its contract.
