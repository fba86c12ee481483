-------------------------------- MODULE Imports --------------------------------
(***************************************************************************)
(* The imported deployment: gitops_deployments holds the manifest of a     *)
(* commit (desired), what events said is served (observed_state) and       *)
(* sync_status, which compares the two.  A push or a request syncs: it     *)
(* fetches the manifest, stores it, compares, and asks the runtime for its *)
(* state; delivered events update the observed state as they arrive,       *)
(* whatever time they tell of.  Composed with Runtime, whose events these  *)
(* are.                                                                    *)
(*                                                                         *)
(* Abstracted: the interface and the model that a sync registers besides,  *)
(* and a second sync at the same time.                                     *)
(***************************************************************************)
EXTENDS Runtime

CONSTANT MaxSyncs   \* bound: syncs that begin

ASSUME SyncsType == MaxSyncs \in Nat

VARIABLES
  desired,        \* the imported commit
  shown,          \* observed_state, by key
  status,         \* sync_status
  syncer,         \* the sync in progress
  syncs,
  overwritten,    \* history: sync_status was computed from an older row
  overtaken       \* history: keys of which the row lacks the latest that arrived

importVars == <<desired, shown, status, syncer, syncs, overwritten, overtaken>>
allVars == <<vars, importVars>>

NotShown == [value |-> Absent, at |-> 0]

\* rev: the commit fetched.  computed: what _refresh_sync_status read from the
\* row.  seen, todo: the runtime's state, and its keys still to be stored.
SyncerRow == [step : {"idle", "record", "read", "write", "ask", "hydrate"},
              rev : Revisions \cup {NoRevision},
              computed : {"desired_only", "out_of_sync", "in_sync"},
              seen : [rev : Revisions \cup {NoRevision}, at : 0 .. MaxApplies],
              todo : SUBSET Keys]
IdleSyncer == [step |-> "idle", rev |-> NoRevision, computed |-> "desired_only",
               seen |-> [rev |-> NoRevision, at |-> 0], todo |-> {}]

ImportsInit ==
  /\ desired = NoRevision
  /\ shown = [k \in Keys |-> NotShown]
  /\ status = "desired_only"
  /\ syncer = IdleSyncer
  /\ syncs = 0
  /\ overwritten = FALSE
  /\ overtaken = {}

(***************************************************************************)
(* _sync_status: every declared key is shown with its value.  Keys the     *)
(* manifest leaves out are not compared.                                   *)
(***************************************************************************)
Compare(rev, state) ==
  IF \A k \in Keys : state[k] = NotShown THEN "desired_only"
  ELSE IF \A k \in Keys : Declares(rev, k) => state[k].value = ValueOf(rev, k)
       THEN "in_sync" ELSE "out_of_sync"

\* Whether the row stores observations of k: none is imported before a sync,
\* and a change counts when the manifest declares its feature.
Stores(k) == desired # NoRevision /\ (k \in Features => Declares(desired, k))

\* Mutant of Show: what is shown stays.
ShowFirst(k, value, at) ==
  IF Stores(k) /\ shown[k] = NotShown
  THEN /\ shown' = [shown EXCEPT ![k] = [value |-> value, at |-> at]]
       /\ status' = Compare(desired, shown')
       /\ UNCHANGED overtaken
  ELSE UNCHANGED <<shown, status, overtaken>>

\* No row of Histograph on this key is later.
LastArrived(k, at) == \A f \in received : f.key = k => f.at <= at

\* observe_deployment, observe_change: by arrival, under the row lock.
Show(k, value, at) ==
  IF Stores(k)
  THEN /\ shown' = [shown EXCEPT ![k] = [value |-> value, at |-> at]]
       /\ status' = Compare(desired, shown')
       /\ overtaken' = IF LastArrived(k, at) THEN overtaken \ {k} ELSE overtaken \cup {k}
  ELSE /\ UNCHANGED <<shown, status>>
       /\ overtaken' = IF at > shown[k].at THEN overtaken \cup {k} ELSE overtaken

ObserveDelivered(e) ==
  /\ Observe(e)
  /\ Show(e.key, e.value, e.at)
  /\ UNCHANGED <<desired, syncer, syncs, overwritten>>

-----------------------------------------------------------------------------
SyncerStep(step) == syncer' = [syncer EXCEPT !.step = step]

\* sync: get_file; the interface is resolved at that commit meanwhile.
Fetch ==
  /\ syncer.step = "idle" /\ syncs < MaxSyncs
  /\ syncs' = syncs + 1
  /\ syncer' = [IdleSyncer EXCEPT !.step = "record", !.rev = head]
  /\ UNCHANGED <<vars, desired, shown, status, overwritten, overtaken>>

\* record_sync, first transaction.
RecordSync ==
  /\ syncer.step = "record"
  /\ desired' = syncer.rev
  /\ status' = IF \A k \in Keys : shown[k] = NotShown THEN "desired_only" ELSE "out_of_sync"
  /\ SyncerStep("read")
  /\ UNCHANGED <<vars, shown, syncs, overwritten, overtaken>>

\* _refresh_sync_status, the SELECT (no row lock) ...
ReadStatus ==
  /\ syncer.step = "read"
  /\ syncer' = [syncer EXCEPT !.step = "write", !.computed = Compare(desired, shown)]
  /\ UNCHANGED <<vars, desired, shown, status, syncs, overwritten, overtaken>>

\* ... and the UPDATE.
WriteStatus ==
  /\ syncer.step = "write"
  /\ status' = syncer.computed
  /\ overwritten' = (overwritten \/ syncer.computed # Compare(desired, shown))
  /\ SyncerStep("ask")
  /\ UNCHANGED <<vars, desired, shown, syncs, overtaken>>

\* _hydrate_managed_runtime_state: the runtime answers, or it is not ready.
AskRuntime ==
  /\ syncer.step = "ask"
  /\ syncer' = IF serving.rev = NoRevision THEN IdleSyncer
               ELSE [syncer EXCEPT !.step = "hydrate", !.seen = serving,
                       !.todo = {k \in Keys : Declares(serving.rev, k)}]
  /\ UNCHANGED <<vars, desired, shown, status, syncs, overwritten, overtaken>>

\* One observe_deployment or observe_change per key; the last one ends the sync.
Hydrate(k) ==
  /\ syncer.step = "hydrate" /\ k \in syncer.todo
  /\ Show(k, ValueOf(syncer.seen.rev, k), syncer.seen.at)
  /\ syncer' = IF syncer.todo = {k} THEN IdleSyncer
               ELSE [syncer EXCEPT !.todo = @ \ {k}]
  /\ UNCHANGED <<vars, desired, syncs, overwritten>>

\* GitHub, the runtime or the database fails: fail_sync, or a log line.
SyncFails ==
  /\ syncer.step \in {"record", "read", "ask", "hydrate"}
  /\ Fault
  /\ syncer' = IdleSyncer
  /\ UNCHANGED <<gitVars, reconciler, saved, runtimeVars, telemetry, histories,
                 desired, shown, status, syncs, overwritten, overtaken>>

-----------------------------------------------------------------------------
SyncStep ==
  \/ Fetch \/ RecordSync \/ ReadStatus \/ WriteStatus \/ AskRuntime \/ SyncFails
  \/ \E k \in Keys : Hydrate(k)

ComposedNext ==
  \/ Unobserved /\ UNCHANGED importVars
  \/ \E e \in outbox.pending : ObserveDelivered(e)
  \/ SyncStep

ComposedInit == Init /\ ImportsInit
ComposedSpec == ComposedInit /\ [][ComposedNext]_allVars

\* The reconciler, the runtime's threads and the telemetry worker go on after
\* a failure; nobody has to push, sync or fail.
Fairness ==
  /\ WF_allVars(ReconcilerStep /\ UNCHANGED importVars)
  /\ \A t \in Threads : WF_allVars(RuntimeStep(t) /\ UNCHANGED importVars)
  /\ WF_allVars(\/ Delivery /\ UNCHANGED importVars
                \/ \E e \in outbox.pending : ObserveDelivered(e))

FairComposedSpec == ComposedSpec /\ Fairness

-----------------------------------------------------------------------------
ImportsTypeOK ==
  /\ desired \in Revisions \cup {NoRevision}
  /\ shown \in [Keys -> [value : Values \cup {Absent}, at : 0 .. MaxApplies]]
  /\ status \in {"desired_only", "out_of_sync", "in_sync"}
  /\ syncer \in SyncerRow
  /\ syncs \in 0 .. MaxSyncs
  /\ overwritten \in BOOLEAN
  /\ overtaken \subseteq Keys

(***************************************************************************)
(* 'in_sync' is said only of an observed state that has every value of the *)
(* imported manifest, while commits are imported, events arrive and states *)
(* are hydrated, in any order; except for a refresh that wrote what it had *)
(* computed from a row that changed meanwhile.                             *)
(***************************************************************************)
InSyncMatches ==
  status = "in_sync" => Compare(desired, shown) = "in_sync" \/ overwritten

(***************************************************************************)
(* Whatever is shown of a version was served: its value is that of a       *)
(* commit the runtime has applied.                                         *)
(***************************************************************************)
ShownWasServed ==
  \A k \in Keys : shown[k] # NotShown =>
    \E r \in wasServed : shown[k].value = ValueOf(r, k)

(***************************************************************************)
(* When the branch rests and nothing fails any more, the runtime comes to  *)
(* serve the head, GitHub and the reconciler's row say so, and all of it   *)
(* has been delivered; unless a given-up apply took effect.                *)
(***************************************************************************)
Converged ==
  /\ serving.rev = head
  /\ saved = [rev |-> head, status |-> "success"]
  /\ outbox.pending = {}
  /\ \A k \in Keys : Declares(head, k) => \E e \in LatestFor(k) : e.value = ValueOf(head, k)

Converges == <>[](Converged \/ strayed)

(***************************************************************************)
(* What an engineer reads from the deployment's page: once every event is  *)
(* delivered and no sync is under way, what is shown of a version, or of a *)
(* feature that is served, is what the runtime serves of it.  There are    *)
(* two exceptions, until a later observation is stored: an older one       *)
(* arrived after a newer one (the row does not compare times), or a newer  *)
(* one arrived while the imported manifest left the feature out.           *)
(***************************************************************************)
ObservedIsServed ==
  outbox.pending = {} /\ sending.step = "idle" /\ syncer.step = "idle" /\ ~strayed =>
    \A k \in Keys \ overtaken :
      shown[k] # NotShown /\ (k \in Versions \/ Declares(serving.rev, k)) =>
        shown[k].value = ValueOf(serving.rev, k)

=============================================================================
