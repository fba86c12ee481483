-------------------------------- MODULE Runtime --------------------------------
(***************************************************************************)
(* The reference runtime and its reconciler.  The reconciler polls the     *)
(* branch, announces a deployment on GitHub, has the runtime apply the     *)
(* manifest and reports the outcome.  The runtime loads the releases,      *)
(* takes its lock, and stores the manifest together with the events that   *)
(* say what it serves in one SQLite transaction; TelemetryWorker delivers  *)
(* these to Histograph at least once, a failed one after later ones.       *)
(*                                                                         *)
(* A manifest gives each key (a release's version, a feature) a value      *)
(* (traffic, the feature's version) or leaves it out.  Abstracted: models  *)
(* and artifacts (loading takes time and may fail), predictions and        *)
(* outcomes, which use the same outbox.  An apply is named by the time it  *)
(* began, its applied_at; times are counted by applies.                    *)
(***************************************************************************)
EXTENDS Naturals, FiniteSets, Sequences

CONSTANTS
  Versions, Features,   \* the keys of a manifest
  Values,               \* traffic and feature versions that are told apart
  Off,                  \* traffic 0
  Absent,               \* a key the manifest leaves out
  MaxRevision,          \* bound: commits on the branch
  Manifest,             \* the manifest at each commit
  Threads,              \* apply requests the runtime works on at a time
  MaxApplies,           \* bound: applies that begin
  MaxFaults             \* bound: failed calls, timeouts, deaths

Keys == Versions \cup Features
Revisions == 1 .. MaxRevision

ASSUME KeysType == Versions \cap Features = {}
ASSUME OffType == Off \in Values /\ Absent \notin Values
ASSUME BoundsType == MaxRevision \in Nat \ {0} /\ MaxApplies \in Nat /\ MaxFaults \in Nat
ASSUME ManifestType == Manifest \in [Revisions -> [Keys -> Values \cup {Absent}]]

VARIABLES
  head,           \* the commit the branch points at
  deployed,       \* how many GitHub deployments a commit has
  reported,       \* the states reported for them
  reconciler,     \* the reconciler's pass
  saved,          \* reconciler_deployments
  apply,          \* the runtime's apply requests
  serving,        \* runtime_deployments, and the active deployment
  clock,          \* the time the last apply began
  outbox,         \* telemetry_outbox
  sending,        \* the delivery in progress
  received,       \* the rows of deployments and changes
  faults,
  wasServed,      \* history: commits the runtime has served
  unsaved,        \* history: deployments created but never saved, by commit
  strayed         \* history: an apply nobody waits for any more took effect

gitVars == <<head, deployed, reported>>
runtimeVars == <<apply, serving, clock>>
telemetry == <<outbox, sending, received>>
histories == <<wasServed, unsaved, strayed>>
vars == <<gitVars, reconciler, saved, runtimeVars, telemetry, faults, histories>>

NoRevision == 0

ReconcilerRow == [step : {"idle", "create", "save", "begin", "check", "apply",
                          "report", "store", "failed"},
                  rev : Revisions \cup {NoRevision}]
Idle == [step |-> "idle", rev |-> NoRevision]

SavedRow == [rev : Revisions \cup {NoRevision},
             status : {"none", "created", "in_progress", "success", "failed"}]

\* waited: the reconciler still waits for the answer.
ApplyRow == [step : {"idle", "loading"}, rev : Revisions \cup {NoRevision},
             at : 0 .. MaxApplies, waited : BOOLEAN]
IdleApply == [step |-> "idle", rev |-> NoRevision, at |-> 0, waited |-> FALSE]

Event == [key : Keys, value : Values, at : 0 .. MaxApplies]

\* delayed: the events whose next_attempt_at is ahead.  stored: the applies that
\* stored their events, in the order of these events' ids.
OutboxRow == [pending : SUBSET Event, delayed : SUBSET Event, stored : Seq(0 .. MaxApplies)]

Init ==
  /\ head = 1
  /\ deployed = [r \in Revisions |-> 0]
  /\ reported = [r \in Revisions |-> {}]
  /\ reconciler = Idle
  /\ saved = [rev |-> NoRevision, status |-> "none"]
  /\ apply = [t \in Threads |-> IdleApply]
  /\ serving = [rev |-> NoRevision, at |-> 0]
  /\ clock = 0
  /\ outbox = [pending |-> {}, delayed |-> {}, stored |-> <<>>]
  /\ sending = [step |-> "idle", events |-> {}]
  /\ received = {}
  /\ faults = 0
  /\ wasServed = {}
  /\ unsaved = [r \in Revisions |-> 0]
  /\ strayed = FALSE

Step(step) == reconciler' = [reconciler EXCEPT !.step = step]
Save(rev, status) == saved' = [rev |-> rev, status |-> status]
Fault == faults < MaxFaults /\ faults' = faults + 1

\* What a commit means for a key: a version it leaves out is not served.
ValueOf(rev, k) == IF Manifest[rev][k] = Absent THEN Off ELSE Manifest[rev][k]
Declares(rev, k) == rev # NoRevision /\ Manifest[rev][k] # Absent

-----------------------------------------------------------------------------
(* The reconciler: run_once, one action per call it awaits or row it saves. *)

Merge ==
  /\ head < MaxRevision
  /\ head' = head + 1
  /\ UNCHANGED <<deployed, reported, reconciler, saved, runtimeVars, telemetry,
                 faults, histories>>

\* Mutant of Announced: only success ends the search for a deployment.
AnnouncedIfDone(rev) == saved.rev = rev /\ saved.status = "success"

\* A deployment for this commit is already known.
Announced(rev) == saved.rev = rev

\* Mutant of Unfinished: a commit that failed is not tried again.
NotSeen == saved.rev # head

Unfinished == saved # [rev |-> head, status |-> "success"]

Poll ==
  /\ reconciler.step = "idle" /\ Unfinished
  /\ reconciler' = [step |-> IF Announced(head) THEN "begin" ELSE "create", rev |-> head]
  /\ UNCHANGED <<gitVars, saved, runtimeVars, telemetry, faults, histories>>

CreateDeployment ==
  /\ reconciler.step = "create"
  /\ deployed' = [deployed EXCEPT ![reconciler.rev] = @ + 1]
  /\ Step("save")
  /\ UNCHANGED <<head, reported, saved, runtimeVars, telemetry, faults, histories>>

SaveCreated ==
  /\ reconciler.step = "save"
  /\ Save(reconciler.rev, "created")
  /\ Step("begin")
  /\ UNCHANGED <<gitVars, runtimeVars, telemetry, faults, histories>>

Report(state) == reported' = [reported EXCEPT ![reconciler.rev] = @ \cup {state}]

Begin ==
  /\ reconciler.step = "begin"
  /\ Report("in_progress")
  /\ Save(reconciler.rev, "in_progress")
  /\ Step("check")
  /\ UNCHANGED <<head, deployed, runtimeVars, telemetry, faults, histories>>

\* Mutant of UpToDate: whatever is served will do.
AnythingServed == serving.rev # NoRevision

UpToDate == serving.rev = reconciler.rev

AlreadyServed ==
  /\ reconciler.step = "check" /\ UpToDate
  /\ Step("report")
  /\ UNCHANGED <<gitVars, saved, runtimeVars, telemetry, faults, histories>>

\* POST /v1/deployments/apply: the timestamp is taken, the releases are loaded.
StartApply(t) ==
  /\ reconciler.step = "check" /\ ~UpToDate
  /\ apply[t].step = "idle" /\ clock < MaxApplies
  /\ clock' = clock + 1
  /\ apply' = [apply EXCEPT ![t] = [step |-> "loading", rev |-> reconciler.rev,
                                    at |-> clock', waited |-> TRUE]]
  /\ Step("apply")
  /\ UNCHANGED <<gitVars, saved, serving, telemetry, faults, histories>>

ReportSuccess ==
  /\ reconciler.step = "report"
  /\ Report("success")
  /\ Step("store")
  /\ UNCHANGED <<head, deployed, saved, runtimeVars, telemetry, faults, histories>>

StoreSuccess ==
  /\ reconciler.step = "store"
  /\ Save(reconciler.rev, "success")
  /\ reconciler' = Idle
  /\ UNCHANGED <<gitVars, runtimeVars, telemetry, faults, histories>>

\* Mutant of StoreFailure: the row only remembers that the commit was seen.
StoreSeen ==
  /\ reconciler.step = "failed"
  /\ Report("failure") \/ reported' = reported
  /\ Save(reconciler.rev, "success")
  /\ reconciler' = Idle
  /\ UNCHANGED <<head, deployed, runtimeVars, telemetry, faults, histories>>

\* The except branch: 'failure' is reported, or that fails as well; saved it is.
StoreFailure ==
  /\ reconciler.step = "failed"
  /\ Report("failure") \/ reported' = reported
  /\ Save(reconciler.rev, "failed")
  /\ reconciler' = Idle
  /\ UNCHANGED <<head, deployed, runtimeVars, telemetry, faults, histories>>

\* create_deployment, or the first status or its save, raises; the answer of a
\* deployment that was created, or of the status, may be what is lost.
AnnouncementFails ==
  /\ reconciler.step \in {"create", "begin"}
  /\ Fault
  /\ \/ UNCHANGED <<deployed, reported, unsaved>>
     \/ /\ reconciler.step = "create"
        /\ deployed' = [deployed EXCEPT ![reconciler.rev] = @ + 1]
        /\ unsaved' = [unsaved EXCEPT ![reconciler.rev] = @ + 1]
        /\ reported' = reported
     \/ /\ reconciler.step = "begin"
        /\ Report("in_progress")
        /\ UNCHANGED <<deployed, unsaved>>
  /\ reconciler' = Idle
  /\ UNCHANGED <<head, saved, runtimeVars, telemetry, wasServed, strayed>>

\* A later call of the pass, or its last save, raises; GitHub may have recorded
\* the success whose answer is lost.
PassFails ==
  /\ reconciler.step \in {"check", "report", "store"}
  /\ Fault
  /\ \/ reported' = reported
     \/ reconciler.step = "report" /\ Report("success")
  /\ Step("failed")
  /\ UNCHANGED <<head, deployed, saved, runtimeVars, telemetry, histories>>

NobodyWaits == apply' = [t \in Threads |-> [apply[t] EXCEPT !.waited = FALSE]]

\* The client gives up; the runtime's thread goes on.
ApplyTimesOut ==
  /\ reconciler.step = "apply"
  /\ Fault
  /\ NobodyWaits
  /\ Step("failed")
  /\ UNCHANGED <<gitVars, saved, serving, clock, telemetry, histories>>

ReconcilerDies ==
  /\ reconciler.step # "idle"
  /\ Fault
  /\ NobodyWaits
  /\ reconciler' = Idle
  /\ unsaved' = IF reconciler.step = "save"
                THEN [unsaved EXCEPT ![reconciler.rev] = @ + 1] ELSE unsaved
  /\ UNCHANGED <<gitVars, saved, serving, clock, telemetry, wasServed, strayed>>

-----------------------------------------------------------------------------
(* The runtime.                                                            *)

\* Mutant of Observed: versions the manifest dropped are forgotten.
ObservedDeclared(rev, at) ==
  {[key |-> k, value |-> Manifest[rev][k], at |-> at] :
     k \in {q \in Keys : Declares(rev, q)}}

(***************************************************************************)
(* _observed_events: every key the manifest has, and the versions only the *)
(* previous one had, as stopped.  A feature that is gone is not mentioned. *)
(***************************************************************************)
Observed(rev, at) ==
  {[key |-> k, value |-> ValueOf(rev, k), at |-> at] :
     k \in {q \in Keys : \/ Declares(rev, q)
                         \/ q \in Versions /\ Declares(serving.rev, q)}}

Answer(t) ==
  /\ apply' = [apply EXCEPT ![t] = IdleApply]
  /\ IF apply[t].waited THEN Step("report") ELSE UNCHANGED reconciler

\* apply, with the lock: the revision it serves already changes nothing.
ApplyUnchanged(t) ==
  /\ apply[t].step = "loading" /\ apply[t].rev = serving.rev
  /\ Answer(t)
  /\ UNCHANGED <<gitVars, saved, serving, clock, telemetry, faults, histories>>

\* Manifest and events in one transaction.
CommitApply(t) ==
  /\ apply[t].step = "loading" /\ apply[t].rev # serving.rev
  /\ serving' = [rev |-> apply[t].rev, at |-> apply[t].at]
  /\ outbox' = [outbox EXCEPT !.pending = @ \cup Observed(apply[t].rev, apply[t].at),
                             !.stored = Append(@, apply[t].at)]
  /\ wasServed' = wasServed \cup {apply[t].rev}
  /\ strayed' = (strayed \/ ~apply[t].waited)
  /\ Answer(t)
  /\ UNCHANGED <<gitVars, saved, clock, sending, received, faults, unsaved>>

ApplyFails(t) ==
  /\ apply[t].step = "loading"
  /\ Fault
  /\ apply' = [apply EXCEPT ![t] = IdleApply]
  /\ IF apply[t].waited THEN Step("failed") ELSE UNCHANGED reconciler
  /\ UNCHANGED <<gitVars, saved, serving, clock, telemetry, histories>>

IdleSending == [step |-> "idle", events |-> {}]

\* _restore reads the manifest back; requests and the delivery are gone.
RuntimeRestarts ==
  /\ Fault
  /\ apply' = [t \in Threads |-> IdleApply]
  /\ sending' = IdleSending
  /\ IF reconciler.step = "apply" THEN Step("failed") ELSE UNCHANGED reconciler
  /\ UNCHANGED <<gitVars, saved, serving, clock, outbox, received, histories>>

-----------------------------------------------------------------------------
(* TelemetryWorker and the ingestion API.                                  *)

\* due: in the order of their ids, those whose next attempt has come.
DueEvents ==
  LET due == outbox.pending \ outbox.delayed
      Id(e) == CHOOSE i \in DOMAIN outbox.stored : outbox.stored[i] = e.at
  IN {e \in due : \A f \in due : Id(e) <= Id(f)}

\* send: the API saves the row ...
Send(e) ==
  /\ sending.step = "idle" /\ e \in DueEvents
  /\ received' = received \cup {e}
  /\ sending' = [step |-> "saved", events |-> {e}]
  /\ UNCHANGED <<gitVars, reconciler, saved, runtimeVars, outbox, faults, histories>>

\* ... and then tells its observer (Imports says what that does).
Observe(e) ==
  /\ sending = [step |-> "saved", events |-> {e}]
  /\ sending' = [sending EXCEPT !.step = "observed"]
  /\ UNCHANGED <<gitVars, reconciler, saved, runtimeVars, outbox, received, faults, histories>>

Complete ==
  /\ sending.step = "observed"
  /\ outbox' = [outbox EXCEPT !.pending = @ \ sending.events]
  /\ sending' = IdleSending
  /\ UNCHANGED <<gitVars, reconciler, saved, runtimeVars, received, faults, histories>>

\* fail: the call raised, before the row was saved or at any time after.
SendFails(e) ==
  /\ \/ sending.step = "idle" /\ e \in DueEvents
     \/ sending.step # "idle" /\ sending.events = {e}
  /\ Fault
  /\ outbox' = [outbox EXCEPT !.delayed = @ \cup {e}]
  /\ sending' = IdleSending
  /\ UNCHANGED <<gitVars, reconciler, saved, runtimeVars, received, histories>>

\* The clock passes next_attempt_at.
RetryDue(e) ==
  /\ e \in outbox.delayed
  /\ outbox' = [outbox EXCEPT !.delayed = @ \ {e}]
  /\ UNCHANGED <<gitVars, reconciler, saved, runtimeVars, sending, received, faults, histories>>

-----------------------------------------------------------------------------
ReconcilerStep ==
  \/ Poll \/ CreateDeployment \/ SaveCreated \/ Begin \/ AlreadyServed
  \/ ReportSuccess \/ StoreSuccess \/ StoreFailure
  \/ \E t \in Threads : StartApply(t)

RuntimeStep(t) == ApplyUnchanged(t) \/ CommitApply(t)

Faulty ==
  \/ AnnouncementFails \/ PassFails \/ ApplyTimesOut \/ ReconcilerDies \/ RuntimeRestarts
  \/ \E t \in Threads : ApplyFails(t)
  \/ \E e \in outbox.pending : SendFails(e)

Delivery == Complete \/ \E e \in outbox.pending : Send(e) \/ RetryDue(e)

\* Everything but what the observer of a delivered event does.
Unobserved ==
  Merge \/ ReconcilerStep \/ Faulty \/ Delivery \/ \E t \in Threads : RuntimeStep(t)

Next == Unobserved \/ \E e \in outbox.pending : Observe(e)

Spec == Init /\ [][Next]_vars

-----------------------------------------------------------------------------
TypeOK ==
  /\ head \in Revisions
  /\ deployed \in [Revisions -> Nat]
  /\ reported \in [Revisions -> SUBSET {"in_progress", "success", "failure"}]
  /\ reconciler \in ReconcilerRow
  /\ saved \in SavedRow
  /\ apply \in [Threads -> ApplyRow]
  /\ serving \in [rev : Revisions \cup {NoRevision}, at : 0 .. MaxApplies]
  /\ clock \in 0 .. MaxApplies
  /\ outbox \in OutboxRow
  /\ sending \in [step : {"idle", "saved", "observed"}, events : SUBSET Event]
  /\ received \subseteq Event
  /\ faults \in 0 .. MaxFaults
  /\ wasServed \subseteq Revisions
  /\ unsaved \in [Revisions -> Nat]
  /\ strayed \in BOOLEAN

(***************************************************************************)
(* What the runtime serves is never lost on its way: of the rows Histograph *)
(* has and the events still to be delivered, the latest one on a key says  *)
(* what is served, through restarts, failed deliveries and repeated ones.  *)
(* It holds until an apply takes effect that the reconciler had given up:  *)
(* apply reads the clock before it takes the lock.                         *)
(***************************************************************************)
Evidence == received \cup outbox.pending

LatestFor(k) ==
  {e \in Evidence : e.key = k /\ \A f \in Evidence : f.key = k => f.at <= e.at}

NothingLost ==
  ~strayed =>
    \A k \in Keys :
      /\ Declares(serving.rev, k) => LatestFor(k) # {}
      /\ \A e \in LatestFor(k) :
           k \in Versions \/ Declares(serving.rev, k) => e.value = ValueOf(serving.rev, k)

(***************************************************************************)
(* GitHub is told of a success only for a commit the runtime has served,   *)
(* whatever calls fail, time out or are repeated after a crash.            *)
(***************************************************************************)
SuccessWasServed == \A r \in Revisions : "success" \in reported[r] => r \in wasServed

(***************************************************************************)
(* While the reconciler rests on a saved success, that commit is served,   *)
(* unless an apply it had given up took effect after all (which nothing    *)
(* repairs: run_once compares the branch with its own row only).           *)
(***************************************************************************)
RestsOnServed == saved.status = "success" => serving.rev = saved.rev \/ strayed

(***************************************************************************)
(* A commit gets a second GitHub deployment only when the reconciler died, *)
(* or lost the answer, between creating one and saving its id.             *)
(***************************************************************************)
OneDeployment == \A r \in Revisions : deployed[r] <= 1 + unsaved[r]

=============================================================================
