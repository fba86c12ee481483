----------------------------- MODULE RuntimeProofs -----------------------------
(***************************************************************************)
(* What the reconciler and the runtime promise, for every set of versions, *)
(* features and manifests, any number of commits, applies and threads, and *)
(* any number of failures; alone and together with the imports.            *)
(***************************************************************************)
EXTENDS Imports, TLAPS

USE DEF gitVars, runtimeVars, telemetry, histories

\* A failure elsewhere, which shares the bound of faults.
FaultElsewhere ==
  /\ Fault
  /\ UNCHANGED <<gitVars, reconciler, saved, runtimeVars, telemetry, histories>>

-----------------------------------------------------------------------------
(* Types                                                                   *)

(***************************************************************************)
(* A pass that is under way, and an apply that is being worked on, are     *)
(* about a commit; the reconciler waits for one apply, of its commit.      *)
(***************************************************************************)
Waiting(t) ==
  apply[t].waited => /\ apply[t].step = "loading" /\ reconciler.step = "apply"
                     /\ apply[t].rev = reconciler.rev

Shape ==
  /\ reconciler.step # "idle" => reconciler.rev # NoRevision
  /\ \A t \in Threads : apply[t].step = "loading" => apply[t].rev # NoRevision
  /\ \A t \in Threads : Waiting(t)
  /\ \A t, u \in Threads : apply[t].waited /\ apply[u].waited => t = u

Types == TypeOK /\ Shape

LEMMA ConstantsOK ==
  /\ MaxRevision \in Nat /\ MaxApplies \in Nat /\ MaxFaults \in Nat /\ 1 \in Revisions
  /\ NoRevision \notin Revisions /\ Revisions \subseteq Nat
BY BoundsType DEF Revisions, NoRevision

LEMMA ValueTyped ==
  ASSUME NEW rev \in Revisions, NEW k \in Keys
  PROVE  ValueOf(rev, k) \in Values
BY ManifestType, OffType DEF ValueOf

LEMMA ObservedTyped ==
  ASSUME NEW rev \in Revisions, NEW at \in 0 .. MaxApplies
  PROVE  Observed(rev, at) \subseteq Event
BY ValueTyped DEF Observed, Event

LEMMA TypesInit == Init => Types
<1> SUFFICES ASSUME Init PROVE Types
  OBVIOUS
<1> USE ConstantsOK
<1>1. TypeOK
  <2>1. reconciler \in ReconcilerRow
    BY DEF Init, ReconcilerRow, Idle
  <2>2. saved \in SavedRow
    BY DEF Init, SavedRow
  <2>3. apply \in [Threads -> ApplyRow]
    BY DEF Init, ApplyRow, IdleApply
  <2>4. outbox \in OutboxRow
    BY DEF Init, OutboxRow
  <2>5. reported \in [Revisions -> SUBSET {"in_progress", "success", "failure"}]
    BY DEF Init
  <2>6. sending \in [step : {"idle", "saved", "observed"}, events : SUBSET Event]
    BY DEF Init
  <2>7. /\ deployed \in [Revisions -> Nat] /\ unsaved \in [Revisions -> Nat]
        /\ serving \in [rev : Revisions \cup {NoRevision}, at : 0 .. MaxApplies]
    BY DEF Init
  <2>8. /\ head \in Revisions /\ clock \in 0 .. MaxApplies /\ faults \in 0 .. MaxFaults
        /\ received \subseteq Event /\ wasServed \subseteq Revisions
    BY DEF Init
  <2>9. strayed \in BOOLEAN
    BY Zenon DEF Init
  <2>10. QED
    BY <2>1, <2>2, <2>3, <2>4, <2>5, <2>6, <2>7, <2>8, <2>9 DEF TypeOK
<1>2. Shape
  <2>1. reconciler.step = "idle"
    BY DEF Init, Idle
  <2>2. \A t \in Threads : apply[t].step = "idle" /\ ~apply[t].waited
    BY DEF Init, IdleApply
  <2>3. QED
    BY <2>1, <2>2 DEF Shape, Waiting
<1>3. QED
  BY <1>1, <1>2 DEF Types

LEMMA ReconcilerTypes ==
  ASSUME Types, ReconcilerStep \/ Merge
  PROVE  Types'
<1> USE ConstantsOK DEF Types, TypeOK, Shape, Waiting, ReconcilerRow, SavedRow, Step, Save, Idle
<1>1. CASE Merge
  BY <1>1 DEF Merge, Revisions
<1>2. CASE Poll
  BY <1>2 DEF Poll, Unfinished
<1>3. CASE CreateDeployment
  BY <1>3 DEF CreateDeployment
<1>4. CASE SaveCreated
  BY <1>4 DEF SaveCreated
<1>5. CASE Begin
  BY <1>5 DEF Begin, Report
<1>6. CASE AlreadyServed
  BY <1>6 DEF AlreadyServed
<1>7. CASE ReportSuccess
  BY <1>7 DEF ReportSuccess, Report
<1>8. CASE StoreSuccess
  BY <1>8 DEF StoreSuccess
<1>9. CASE StoreFailure
  BY <1>9 DEF StoreFailure, Report
<1>10. ASSUME NEW t \in Threads, StartApply(t) PROVE Types'
  <2>1. clock' \in 0 .. MaxApplies /\ reconciler.rev \in Revisions
    BY <1>10 DEF StartApply
  <2>2. apply' \in [Threads -> ApplyRow]
    BY <1>10, <2>1 DEF StartApply, ApplyRow
  <2>3. QED
    BY <1>10, <2>1, <2>2 DEF StartApply
<1>11. QED
  BY <1>1, <1>2, <1>3, <1>4, <1>5, <1>6, <1>7, <1>8, <1>9, <1>10 DEF ReconcilerStep

\* The applies that fail, or that nobody waits for any more.
ApplyEnds ==
  /\ apply' \in [Threads -> ApplyRow]
  /\ \A t \in Threads : /\ apply'[t] \in {IdleApply, apply[t], [apply[t] EXCEPT !.waited = FALSE]}
                        /\ apply'[t].waited => apply[t].waited

LEMMA ApplyEndings ==
  ASSUME Types
  PROVE  /\ NobodyWaits => ApplyEnds /\ \A t \in Threads : ~apply'[t].waited
         /\ apply' = [t \in Threads |-> IdleApply] => ApplyEnds
         /\ \A t \in Threads : apply' = [apply EXCEPT ![t] = IdleApply] => ApplyEnds
<1>1. apply \in [Threads -> ApplyRow]
  BY DEF Types, TypeOK
<1>2. IdleApply \in ApplyRow /\ ~IdleApply.waited
  BY ConstantsOK DEF IdleApply, ApplyRow
<1>3. \A t \in Threads : /\ [apply[t] EXCEPT !.waited = FALSE] \in ApplyRow
                        /\ ~[apply[t] EXCEPT !.waited = FALSE].waited
  BY <1>1 DEF ApplyRow
<1>4. QED
  BY <1>1, <1>2, <1>3, Zenon DEF ApplyEnds, NobodyWaits

LEMMA ApplyEndsShape ==
  ASSUME Types, ApplyEnds
  PROVE  /\ \A t \in Threads : apply'[t].step = "loading" => apply'[t].rev # NoRevision
         /\ \A t, u \in Threads : apply'[t].waited /\ apply'[u].waited => t = u
<1>1. \A t \in Threads : apply'[t].step = "loading" => apply[t].step = "loading" /\ apply'[t].rev = apply[t].rev
  BY DEF Types, TypeOK, ApplyEnds, ApplyRow, IdleApply
<1>2. QED
  BY <1>1 DEF Types, Shape, ApplyEnds

\* Nobody waits any more.
LEMMA NoneWaits ==
  ASSUME Types, ApplyEnds, \A t \in Threads : ~apply'[t].waited,
         reconciler' \in ReconcilerRow, reconciler'.step # "idle" => reconciler'.rev # NoRevision
  PROVE  Shape'
BY ApplyEndsShape DEF Shape, Waiting

LEMMA CountTyped ==
  ASSUME NEW count \in [Revisions -> Nat], NEW r \in Revisions
  PROVE  [count EXCEPT ![r] = @ + 1] \in [Revisions -> Nat]
OBVIOUS

LEMMA FaultTypes ==
  ASSUME Types, Faulty \/ FaultElsewhere
  PROVE  Types'
<1> USE ConstantsOK DEF Types, TypeOK, Shape, Waiting, ReconcilerRow, Step, Idle, Fault
<1>0. Fault => faults' \in 0 .. MaxFaults
  OBVIOUS
<1>1. CASE AnnouncementFails
  <2>1. reported' \in [Revisions -> SUBSET {"in_progress", "success", "failure"}]
    BY <1>1 DEF AnnouncementFails, Report
  <2>2. deployed' \in [Revisions -> Nat] /\ unsaved' \in [Revisions -> Nat]
    BY <1>1 DEF AnnouncementFails
  <2>3. QED
    BY <1>0, <1>1, <2>1, <2>2 DEF AnnouncementFails
<1>2. CASE PassFails
  <2>1. reconciler' \in ReconcilerRow /\ reconciler'.rev = reconciler.rev
    BY <1>2 DEF PassFails
  <2>2. reported' \in [Revisions -> SUBSET {"in_progress", "success", "failure"}]
    BY <1>2 DEF PassFails, Report
  <2>3. \A t \in Threads : ~apply[t].waited
    BY <1>2 DEF PassFails
  <2>4. QED
    BY <1>0, <1>2, <2>1, <2>2, <2>3 DEF PassFails
<1>3. CASE ApplyTimesOut
  BY <1>0, <1>3, ApplyEndings, NoneWaits DEF ApplyTimesOut, ApplyEnds
<1>4. CASE ReconcilerDies
  <2>1. unsaved' \in [Revisions -> Nat]
    <3>1. CASE reconciler.step = "save"
      <4>1. unsaved' = [unsaved EXCEPT ![reconciler.rev] = @ + 1]
        BY <1>4, <3>1 DEF ReconcilerDies
      <4>2. unsaved \in [Revisions -> Nat] /\ reconciler.rev \in Revisions
        BY <3>1
      <4>3. QED
        BY <4>1, <4>2, CountTyped, Zenon
    <3>2. CASE reconciler.step # "save"
      BY <1>4, <3>2 DEF ReconcilerDies
    <3>3. QED
      BY <3>1, <3>2
  <2>2. ApplyEnds /\ \A t \in Threads : ~apply'[t].waited
    BY <1>4, ApplyEndings DEF ReconcilerDies
  <2>3. reconciler' \in ReconcilerRow /\ reconciler'.step = "idle"
    BY <1>4 DEF ReconcilerDies
  <2>4. Shape'
    BY <2>2, <2>3, NoneWaits
  <2> HIDE DEF Shape
  <2>5. QED
    BY <1>0, <1>4, <2>1, <2>2, <2>3, <2>4 DEF ReconcilerDies, ApplyEnds
<1>5. CASE RuntimeRestarts
  <2>1. reconciler' \in ReconcilerRow /\ reconciler'.rev = reconciler.rev
        /\ (reconciler'.step = "idle" <=> reconciler.step = "idle")
    BY <1>5 DEF RuntimeRestarts
  <2>2. \A t \in Threads : ~apply'[t].waited
    BY <1>5 DEF RuntimeRestarts, IdleApply
  <2>3. Shape' /\ ApplyEnds
    BY <1>5, <2>1, <2>2, ApplyEndings, NoneWaits DEF RuntimeRestarts
  <2> HIDE DEF Shape
  <2>4. QED
    BY <1>0, <1>5, <2>1, <2>3 DEF RuntimeRestarts, ApplyEnds, IdleSending
<1>6. ASSUME NEW t \in Threads, ApplyFails(t) PROVE Types'
  <2>1. ApplyEnds /\ \A u \in Threads : apply'[u] = IF u = t THEN IdleApply ELSE apply[u]
    BY <1>6, ApplyEndings DEF ApplyFails
  <2>2. reconciler' \in ReconcilerRow /\ reconciler'.rev = reconciler.rev
    BY <1>6 DEF ApplyFails
  <2>3. Shape'
    <3>1. CASE apply[t].waited
      <4>1. \A u \in Threads : ~apply'[u].waited
        BY <2>1, <3>1 DEF IdleApply
      <4>2. QED
        BY <2>1, <2>2, <3>1, <4>1, NoneWaits
    <3>2. CASE ~apply[t].waited
      <4>1. reconciler' = reconciler
        BY <1>6, <3>2 DEF ApplyFails
      <4>2. \A u \in Threads : apply'[u].waited => apply'[u] = apply[u]
        BY <2>1 DEF IdleApply
      <4>3. QED
        BY <2>1, <4>1, <4>2, ApplyEndsShape
    <3>3. QED
      BY <3>1, <3>2
  <2> HIDE DEF Shape
  <2>4. QED
    BY <1>0, <1>6, <2>1, <2>2, <2>3 DEF ApplyFails, ApplyEnds
<1>7. ASSUME NEW e \in outbox.pending, SendFails(e) PROVE Types'
  BY <1>0, <1>7 DEF SendFails, OutboxRow, IdleSending
<1>8. CASE FaultElsewhere
  BY <1>0, <1>8 DEF FaultElsewhere
<1>9. QED
  BY <1>1, <1>2, <1>3, <1>4, <1>5, <1>6, <1>7, <1>8 DEF Faulty

LEMMA RuntimeTypes ==
  ASSUME Types, NEW t \in Threads, RuntimeStep(t)
  PROVE  Types'
<1> USE ConstantsOK DEF Types, TypeOK, Shape, Waiting, ReconcilerRow, Step, Answer, ApplyRow, IdleApply
<1>1. CASE ApplyUnchanged(t)
  BY <1>1 DEF ApplyUnchanged
<1>2. CASE CommitApply(t)
  <2>1. Observed(apply[t].rev, apply[t].at) \subseteq Event
    BY <1>2, ObservedTyped DEF CommitApply
  <2>2. outbox' \in OutboxRow
    <3>1. /\ outbox.pending \subseteq Event /\ outbox.delayed \subseteq Event
          /\ outbox.stored \in Seq(0 .. MaxApplies)
          /\ outbox = [pending |-> outbox.pending, delayed |-> outbox.delayed,
                       stored |-> outbox.stored]
      BY DEF OutboxRow
    <3>2. apply[t].at \in 0 .. MaxApplies
      BY <1>2 DEF CommitApply
    <3>3. Append(outbox.stored, apply[t].at) \in Seq(0 .. MaxApplies)
      BY <3>1, <3>2
    <3>4. outbox' = [pending |-> outbox.pending \cup Observed(apply[t].rev, apply[t].at),
                     delayed |-> outbox.delayed,
                     stored |-> Append(outbox.stored, apply[t].at)]
      BY <1>2, <3>1, Zenon DEF CommitApply
    <3> HIDE DEF Types
    <3>5. QED
      BY <2>1, <3>1, <3>3, <3>4 DEF OutboxRow
  <2>3. QED
    BY <1>2, <2>2 DEF CommitApply
<1>3. QED
  BY <1>1, <1>2 DEF RuntimeStep

LEMMA TelemetryTypes ==
  ASSUME Types, Delivery \/ \E e \in outbox.pending : Observe(e)
  PROVE  Types'
<1> USE DEF Types, TypeOK, Shape, Waiting, OutboxRow
<1>1. CASE Complete
  BY <1>1 DEF Complete, IdleSending
<1>2. ASSUME NEW e \in outbox.pending, Send(e) PROVE Types'
  BY <1>2 DEF Send
<1>3. ASSUME NEW e \in outbox.pending, RetryDue(e) PROVE Types'
  BY <1>3 DEF RetryDue
<1>4. ASSUME NEW e \in outbox.pending, Observe(e) PROVE Types'
  BY <1>4 DEF Observe
<1>5. QED
  BY <1>1, <1>2, <1>3, <1>4 DEF Delivery

LEMMA TypesStep ==
  ASSUME Types, [Next]_vars \/ FaultElsewhere
  PROVE  Types'
<1>1. CASE UNCHANGED vars
  <2> USE <1>1 DEF vars
  <2>1. TypeOK'
    BY DEF Types, TypeOK
  <2>2. Shape'
    BY DEF Types, Shape, Waiting
  <2>3. QED
    BY <2>1, <2>2 DEF Types
<1>2. QED
  BY <1>1, ReconcilerTypes, FaultTypes, RuntimeTypes, TelemetryTypes DEF Next, Unobserved

-----------------------------------------------------------------------------
(* What is reported was served                                             *)

(***************************************************************************)
(* A pass reaches its report only through an apply it waited for, or by    *)
(* finding its commit served; while it is under way its row is no success. *)
(***************************************************************************)
Reports ==
  /\ serving.rev # NoRevision => serving.rev \in wasServed
  /\ reconciler.step \in {"report", "store"} =>
       /\ reconciler.rev \in wasServed
       /\ serving.rev = reconciler.rev \/ strayed
  /\ reconciler.step \in {"check", "apply", "report", "store"} => saved.status # "success"

ReportInv == Reports /\ SuccessWasServed /\ RestsOnServed

LEMMA ReportInit == Init => ReportInv
BY DEF Init, ReportInv, Reports, SuccessWasServed, RestsOnServed, Idle

LEMMA ReportStep ==
  ASSUME Types, ReportInv, [Next]_vars \/ FaultElsewhere
  PROVE  ReportInv'
<1> USE DEF ReportInv, Reports, SuccessWasServed, RestsOnServed
<1> DEFINE rowOK == reconciler \in ReconcilerRow /\ saved \in SavedRow
<1>0. rowOK /\ reported \in [Revisions -> SUBSET {"in_progress", "success", "failure"}]
  BY DEF Types, TypeOK
<1>a. CASE ReconcilerStep \/ Merge
  <2> USE DEF Step, Save, Report, Idle, ReconcilerRow, SavedRow
  <2>1. CASE Merge
    BY <2>1 DEF Merge
  <2>2. CASE Poll
    BY <1>0, <2>2 DEF Poll, Unfinished
  <2>3. CASE CreateDeployment
    BY <1>0, <2>3 DEF CreateDeployment
  <2>4. CASE SaveCreated
    BY <1>0, <2>4 DEF SaveCreated
  <2>5. CASE Begin
    BY <1>0, <2>5 DEF Begin
  <2>6. CASE AlreadyServed
    BY <1>0, <2>6 DEF AlreadyServed, UpToDate, Types, Shape
  <2>7. CASE ReportSuccess
    BY <1>0, <2>7 DEF ReportSuccess
  <2>8. CASE StoreSuccess
    BY <1>0, <2>8 DEF StoreSuccess
  <2>9. CASE StoreFailure
    BY <1>0, <2>9 DEF StoreFailure
  <2>10. ASSUME NEW t \in Threads, StartApply(t) PROVE ReportInv'
    BY <1>0, <2>10 DEF StartApply
  <2>11. QED
    BY <1>a, <2>1, <2>2, <2>3, <2>4, <2>5, <2>6, <2>7, <2>8, <2>9, <2>10 DEF ReconcilerStep
<1>b. CASE Faulty \/ FaultElsewhere
  <2>1. UNCHANGED <<saved, serving, wasServed, strayed>>
    BY <1>b DEF Faulty, FaultElsewhere, AnnouncementFails, PassFails, ApplyTimesOut,
                ReconcilerDies, RuntimeRestarts, ApplyFails, SendFails
  <2>2. reconciler'.step \in {"idle", "failed"} \/ UNCHANGED reconciler
    BY <1>0, <1>b DEF Faulty, FaultElsewhere, AnnouncementFails, PassFails, ApplyTimesOut,
                      ReconcilerDies, RuntimeRestarts, ApplyFails, SendFails, Step, Idle,
                      ReconcilerRow
  <2>3. \A r \in Revisions :
          "success" \in reported'[r] =>
            \/ "success" \in reported[r]
            \/ reconciler.step = "report" /\ r = reconciler.rev
    <3>1. CASE AnnouncementFails
      BY <1>0, <3>1 DEF AnnouncementFails, Report
    <3>2. CASE PassFails
      BY <1>0, <3>2 DEF PassFails, Report
    <3>3. CASE UNCHANGED reported
      BY <3>3
    <3>4. QED
      BY <1>b, <3>1, <3>2, <3>3 DEF Faulty, FaultElsewhere, ApplyTimesOut, ReconcilerDies,
                                    RuntimeRestarts, ApplyFails, SendFails
  <2>4. QED
    BY <2>1, <2>2, <2>3
<1>c. ASSUME NEW t \in Threads, RuntimeStep(t) PROVE ReportInv'
  <2>0. apply[t].step = "loading" /\ apply[t].rev # NoRevision /\ Waiting(t)
    BY <1>c DEF RuntimeStep, ApplyUnchanged, CommitApply, Types, Shape
  <2>1. CASE ApplyUnchanged(t)
    BY <1>0, <2>0, <2>1 DEF ApplyUnchanged, Answer, Step, Waiting, ReconcilerRow
  <2>2. CASE CommitApply(t) /\ apply[t].waited
    <3>1. reconciler' = [reconciler EXCEPT !.step = "report"]
      BY <2>2 DEF CommitApply, Answer, Step
    <3>2. QED
      BY <1>0, <2>0, <2>2, <3>1 DEF CommitApply, Waiting, ReconcilerRow
  <2>3. CASE CommitApply(t) /\ ~apply[t].waited
    BY <2>0, <2>3 DEF CommitApply, Answer
  <2>4. QED
    BY <1>c, <2>1, <2>2, <2>3 DEF RuntimeStep
<1>d. CASE Delivery \/ \E e \in outbox.pending : Observe(e)
  BY <1>d DEF Delivery, Complete, Send, RetryDue, Observe
<1>e. CASE UNCHANGED vars
  BY <1>e DEF vars
<1>f. QED
  BY <1>a, <1>b, <1>c, <1>d, <1>e DEF Next, Unobserved


-----------------------------------------------------------------------------
(* One GitHub deployment per commit                                        *)

(***************************************************************************)
(* The saved row never names a commit after the one under way, nor that    *)
(* one after the head; a commit the row has passed has one deployment that *)
(* was saved, a later one has at most the one that is about to be.         *)
(***************************************************************************)
Order ==
  /\ saved.rev <= head
  /\ reconciler.rev <= head
  /\ reconciler.step \in {"create", "save"} => saved.rev < reconciler.rev

Pending(r) == reconciler.step = "save" /\ reconciler.rev = r

Counted(r) ==
  deployed[r] <= unsaved[r] + (IF r <= saved.rev \/ Pending(r) THEN 1 ELSE 0)

BeginsSaved ==
  reconciler.step \in {"begin", "check", "apply", "report", "store", "failed"} =>
    reconciler.rev = saved.rev

DeployInv == Order /\ BeginsSaved /\ \A r \in Revisions : Counted(r)

LEMMA DeployInit == Init => DeployInv
BY ConstantsOK DEF Init, DeployInv, Order, BeginsSaved, Counted, Pending, Idle, NoRevision

LEMMA DeployStep ==
  ASSUME Types, DeployInv, [Next]_vars \/ FaultElsewhere
  PROVE  DeployInv'
<1>0. /\ reconciler \in ReconcilerRow /\ saved \in SavedRow /\ head \in Revisions
      /\ deployed \in [Revisions -> Nat] /\ unsaved \in [Revisions -> Nat]
      /\ Revisions \subseteq Nat /\ NoRevision = 0
      /\ reconciler.step # "idle" => reconciler.rev \in Revisions
  BY ConstantsOK DEF Types, TypeOK, Shape, ReconcilerRow, NoRevision
<1>1. head \in Nat /\ saved.rev \in Nat /\ reconciler.rev \in Nat
  BY <1>0, ConstantsOK DEF ReconcilerRow, SavedRow, Revisions, NoRevision
<1> USE <1>0, <1>1 DEF DeployInv, Order, BeginsSaved, Counted, Pending, ReconcilerRow, SavedRow
<1>a. CASE ReconcilerStep \/ Merge
  <2> USE DEF Step, Save, Report, Idle
  <2>1. CASE Merge
    BY <2>1 DEF Merge
  <2>2. CASE Poll
    BY <2>2 DEF Poll, Unfinished, Announced
  <2>3. CASE CreateDeployment
    BY <2>3 DEF CreateDeployment
  <2>4. CASE SaveCreated
    BY <2>4 DEF SaveCreated
  <2>5. CASE Begin
    BY <2>5 DEF Begin
  <2>6. CASE AlreadyServed
    BY <2>6 DEF AlreadyServed
  <2>7. CASE ReportSuccess
    BY <2>7 DEF ReportSuccess
  <2>8. CASE StoreSuccess
    BY <2>8 DEF StoreSuccess
  <2>9. CASE StoreFailure
    BY <2>9 DEF StoreFailure
  <2>10. ASSUME NEW t \in Threads, StartApply(t) PROVE DeployInv'
    BY <2>10 DEF StartApply
  <2>11. QED
    BY <1>a, <2>1, <2>2, <2>3, <2>4, <2>5, <2>6, <2>7, <2>8, <2>9, <2>10 DEF ReconcilerStep
<1>b. CASE AnnouncementFails
  <2>1. CASE UNCHANGED <<deployed, unsaved>>
    BY <1>b, <2>1 DEF AnnouncementFails, Idle
  <2>2. CASE /\ reconciler.step = "create"
             /\ deployed' = [deployed EXCEPT ![reconciler.rev] = @ + 1]
             /\ unsaved' = [unsaved EXCEPT ![reconciler.rev] = @ + 1]
    BY <1>b, <2>2 DEF AnnouncementFails, Idle
  <2>3. QED
    BY <1>b, <2>1, <2>2 DEF AnnouncementFails
<1>c. CASE ReconcilerDies
  <2>1. CASE reconciler.step = "save"
    BY <1>c, <2>1 DEF ReconcilerDies, Idle
  <2>2. CASE reconciler.step # "save"
    BY <1>c, <2>2 DEF ReconcilerDies, Idle
  <2>3. QED
    BY <2>1, <2>2
<1>d. CASE \/ FaultElsewhere \/ PassFails \/ ApplyTimesOut \/ RuntimeRestarts
           \/ \E t \in Threads : ApplyFails(t)
           \/ \E e \in outbox.pending : SendFails(e)
  <2>1. UNCHANGED <<saved, head, deployed, unsaved>>
    BY <1>d DEF FaultElsewhere, PassFails, ApplyTimesOut, RuntimeRestarts, ApplyFails, SendFails
  <2>2. \/ UNCHANGED reconciler
        \/ /\ reconciler' = [reconciler EXCEPT !.step = "failed"]
           /\ reconciler.step \in {"check", "report", "store", "apply"}
    BY <1>d DEF FaultElsewhere, PassFails, ApplyTimesOut, RuntimeRestarts, ApplyFails, SendFails,
                Step, Types, Shape, Waiting
  <2>3. QED
    BY <2>1, <2>2
<1>e. ASSUME NEW t \in Threads, RuntimeStep(t) PROVE DeployInv'
  <2>1. UNCHANGED <<saved, head, deployed, unsaved>>
    BY <1>e DEF RuntimeStep, ApplyUnchanged, CommitApply
  <2>2. \/ UNCHANGED reconciler
        \/ /\ reconciler' = [reconciler EXCEPT !.step = "report"]
           /\ reconciler.step = "apply"
    BY <1>e DEF RuntimeStep, ApplyUnchanged, CommitApply, Answer, Step, Types, Shape, Waiting
  <2>3. QED
    BY <2>1, <2>2
<1>f. CASE Delivery \/ \E e \in outbox.pending : Observe(e)
  BY <1>f DEF Delivery, Complete, Send, RetryDue, Observe
<1>g. CASE UNCHANGED vars
  BY <1>g DEF vars
<1>h. QED
  BY <1>a, <1>b, <1>c, <1>d, <1>e, <1>f, <1>g DEF Next, Unobserved, Faulty


-----------------------------------------------------------------------------
(* What is served is not lost                                              *)

(***************************************************************************)
(* The times: nothing is from after the last apply; the apply the          *)
(* reconciler waits for is later than what is served.  What is being sent  *)
(* was received.                                                           *)
(***************************************************************************)
Times ==
  /\ serving.at <= clock
  /\ \A t \in Threads : apply[t].at <= clock
  /\ sending.events \subseteq received

\* The evidence on key k says what revision rev means for it.
Latest(e) == \A f \in Evidence : f.key = e.key => f.at <= e.at

(***************************************************************************)
(* Until an apply strays: nothing is later than what is served, each key   *)
(* it has was told of at its time, and a version's latest evidence is its  *)
(* present traffic.                                                        *)
(***************************************************************************)
Told ==
  /\ \A t \in Threads : apply[t].waited => serving.at < apply[t].at
  /\ \A e \in Evidence : e.at <= serving.at
  /\ \A k \in Keys : Declares(serving.rev, k) =>
       \E e \in Evidence : e.key = k /\ e.at = serving.at
  /\ \A e \in Evidence : e.at = serving.at /\ Declares(serving.rev, e.key) =>
       e.value = ValueOf(serving.rev, e.key)
  /\ \A e \in Evidence : e.key \in Versions /\ Latest(e) =>
       e.value = ValueOf(serving.rev, e.key)

EvidenceInv ==
  /\ Times
  /\ serving.rev = NoRevision => Evidence = {}
  /\ ~strayed => Told

LEMMA EvidenceInit == Init => EvidenceInv
BY ConstantsOK DEF Init, EvidenceInv, Times, Told, Evidence, IdleApply, Declares, NoRevision

LEMMA EvidenceSuffices == Types /\ EvidenceInv => NothingLost
<1> SUFFICES ASSUME Types, EvidenceInv, ~strayed, NEW k \in Keys
             PROVE  /\ Declares(serving.rev, k) => LatestFor(k) # {}
                    /\ \A e \in LatestFor(k) :
                         k \in Versions \/ Declares(serving.rev, k) =>
                           e.value = ValueOf(serving.rev, k)
  BY DEF NothingLost
<1>0. Evidence \subseteq Event
  BY DEF Types, TypeOK, OutboxRow, Evidence
<1>1. \A e \in Evidence : e.at \in Nat
  BY <1>0 DEF Event
<1>2. serving.at \in Nat
  BY DEF Types, TypeOK
<1>3. ASSUME Declares(serving.rev, k)
      PROVE  /\ LatestFor(k) # {}
             /\ \A e \in LatestFor(k) : e.value = ValueOf(serving.rev, k)
  <2>1. PICK e \in Evidence : e.key = k /\ e.at = serving.at
    BY <1>3 DEF EvidenceInv, Told
  <2>2. e \in LatestFor(k)
    BY <2>1 DEF LatestFor, EvidenceInv, Told
  <2>3. \A f \in LatestFor(k) : f \in Evidence /\ f.key = k /\ f.at = serving.at
    BY <1>1, <1>2, <2>1 DEF LatestFor, EvidenceInv, Told
  <2>4. QED
    BY <1>3, <2>2, <2>3 DEF EvidenceInv, Told
<1>4. ASSUME k \in Versions, NEW e \in LatestFor(k) PROVE e.value = ValueOf(serving.rev, k)
  BY <1>4 DEF LatestFor, Latest, EvidenceInv, Told
<1>5. QED
  BY <1>3, <1>4

\* What a step that commits no apply leaves of the evidence.
EvidenceRests ==
  /\ UNCHANGED <<serving, strayed>> /\ Evidence' = Evidence
  /\ clock' >= clock /\ clock' \in Nat /\ sending'.events \subseteq received'

LEMMA RestingEvidence ==
  ASSUME Types, EvidenceInv, EvidenceRests,
         \A t \in Threads : /\ apply'[t].at \in Nat /\ apply'[t].at <= clock'
                            /\ apply'[t].waited => \/ apply[t].waited /\ apply'[t].at = apply[t].at
                                                   \/ apply'[t].at > clock
  PROVE  EvidenceInv'
<1>1. /\ clock \in Nat /\ serving.at \in Nat
      /\ \A t \in Threads : apply[t].at \in Nat
  BY DEF Types, TypeOK, ApplyRow
<1>2. Times'
  BY <1>1 DEF EvidenceInv, Times, EvidenceRests
<1>3. ASSUME NEW e PROVE Latest(e)' <=> Latest(e)
  BY DEF Latest, EvidenceRests
<1>4. ASSUME ~strayed, NEW t \in Threads, apply'[t].waited PROVE serving.at < apply'[t].at
  <2>1. CASE apply[t].waited /\ apply'[t].at = apply[t].at
    BY <1>4, <2>1 DEF EvidenceInv, Told
  <2>2. CASE apply'[t].at > clock
    BY <1>1, <2>2 DEF EvidenceInv, Times
  <2>3. QED
    BY <1>4, <2>1, <2>2
<1>5. ~strayed => Told'
  BY <1>3, <1>4 DEF EvidenceInv, Told, EvidenceRests, Declares, ValueOf
<1>6. QED
  BY <1>2, <1>5 DEF EvidenceInv, EvidenceRests


LEMMA ObservedEvents ==
  ASSUME NEW rev, NEW at
  PROVE  /\ \A e \in Observed(rev, at) :
              /\ e.at = at /\ e.value = ValueOf(rev, e.key) /\ e.key \in Keys
              /\ Declares(rev, e.key) \/ (e.key \in Versions /\ Declares(serving.rev, e.key))
         /\ \A k \in Keys : (Declares(rev, k) \/ (k \in Versions /\ Declares(serving.rev, k))) =>
              \E e \in Observed(rev, at) : e.key = k
<1> DEFINE told == {q \in Keys : Declares(rev, q) \/ (q \in Versions /\ Declares(serving.rev, q))}
           event(k) == [key |-> k, value |-> ValueOf(rev, k), at |-> at]
<1>1. Observed(rev, at) = {event(k) : k \in told}
  BY DEF Observed
<1>2. \A k : event(k).key = k /\ event(k).value = ValueOf(rev, k) /\ event(k).at = at
  OBVIOUS
<1> HIDE DEF event
<1>3. ASSUME NEW e \in Observed(rev, at)
      PROVE  /\ e.at = at /\ e.value = ValueOf(rev, e.key) /\ e.key \in Keys
             /\ Declares(rev, e.key) \/ (e.key \in Versions /\ Declares(serving.rev, e.key))
  <2>1. PICK k \in told : e = event(k)
    BY <1>1
  <2>2. QED
    BY <1>2, <2>1
<1>4. ASSUME NEW k \in told PROVE \E e \in Observed(rev, at) : e.key = k
  BY <1>1, <1>2
<1>5. QED
  BY <1>3, <1>4

(***************************************************************************)
(* An apply that takes effect for whoever waits for it: its events are     *)
(* later than all evidence, and tell of every key that it serves and every *)
(* version that it no longer does.                                         *)
(***************************************************************************)
LEMMA CommittedEvidence ==
  ASSUME Types, EvidenceInv, ~strayed,
         NEW t \in Threads, CommitApply(t), apply[t].waited
  PROVE  Told'
<1> DEFINE rev == apply[t].rev
           at == apply[t].at
           new == Observed(rev, at)
<1>0. /\ rev \in Revisions /\ at \in 0 .. MaxApplies /\ serving.at \in Nat /\ Evidence \subseteq Event
      /\ new \subseteq Event
  <2>1. rev \in Revisions /\ at \in 0 .. MaxApplies /\ serving.at \in Nat
    BY DEF CommitApply, Types, TypeOK, Shape, ApplyRow
  <2>2. QED
    BY <2>1, ObservedTyped DEF Types, TypeOK, OutboxRow, Evidence
<1>1. serving' = [rev |-> rev, at |-> at] /\ Evidence' = Evidence \cup new
  BY DEF CommitApply, Evidence, Types, TypeOK, OutboxRow
<1>2. /\ \A e \in Evidence : e.at \in Nat /\ e.at < at
      /\ at \in Nat
  BY <1>0 DEF EvidenceInv, Told, Event
<1>3. \A e \in new :
        /\ e.at = at /\ e.value = ValueOf(rev, e.key) /\ e.key \in Keys
        /\ Declares(rev, e.key) \/ (e.key \in Versions /\ Declares(serving.rev, e.key))
  BY ObservedEvents
<1>4. \A k \in Keys : (Declares(rev, k) \/ (k \in Versions /\ Declares(serving.rev, k))) =>
        \E e \in new : e.key = k
  BY ObservedEvents
<1>a. \A u \in Threads : apply'[u].waited => serving'.at < apply'[u].at
  BY DEF CommitApply, Answer, IdleApply, Types, TypeOK, Shape
<1>5. serving'.rev = rev /\ serving'.at = at
  BY <1>1
<1> HIDE DEF rev, at, new
<1>b. \A e \in Evidence' : e.at <= serving'.at
  BY <1>1, <1>2, <1>3, <1>5
<1>c. \A k \in Keys : Declares(serving'.rev, k) =>
        \E e \in Evidence' : e.key = k /\ e.at = serving'.at
  BY <1>1, <1>3, <1>4, <1>5
<1>d. \A e \in Evidence' : e.at = serving'.at /\ Declares(serving'.rev, e.key) =>
        e.value = ValueOf(serving'.rev, e.key)
  BY <1>1, <1>2, <1>3, <1>5
<1>e. ASSUME NEW e \in Evidence', e.key \in Versions,
             \A f \in Evidence' : f.key = e.key => f.at <= e.at
      PROVE  e.value = ValueOf(rev, e.key)
  <2>1. CASE e \in new
    BY <1>3, <2>1
  <2>2. CASE e \in Evidence
    <3>0. e.key \in Keys
      BY <1>e DEF Keys
    <3>1. ~Declares(rev, e.key) /\ ~Declares(serving.rev, e.key)
      <4>1. \A f \in new : f.key # e.key
        BY <1>1, <1>2, <1>3, <1>e, <2>2
      <4>2. QED
        BY <1>4, <1>e, <3>0, <4>1
    <3>2. Latest(e)
      BY <1>1, <1>e DEF Latest
    <3>3. e.value = ValueOf(serving.rev, e.key)
      BY <1>e, <2>2, <3>2 DEF EvidenceInv, Told
    <3>4. serving.rev # NoRevision /\ rev # NoRevision
      BY <1>0, <2>2, ConstantsOK DEF EvidenceInv
    <3>5. QED
      BY <3>1, <3>3, <3>4 DEF Declares, ValueOf
  <2>3. QED
    BY <1>1, <1>e, <2>1, <2>2
<1>f. QED
  <2>1. \A e \in Evidence' : e.key \in Versions /\ Latest(e)' => e.value = ValueOf(serving.rev, e.key)'
    BY <1>5, <1>e DEF Latest, ValueOf
  <2>2. QED
    BY <1>a, <1>b, <1>c, <1>d, <2>1 DEF Told, Declares, ValueOf

LEMMA EvidenceStep ==
  ASSUME Types, EvidenceInv, [Next]_vars \/ FaultElsewhere
  PROVE  EvidenceInv'
<1>0. /\ \A t \in Threads : apply[t] \in ApplyRow
      /\ clock \in Nat /\ Times /\ IdleApply.at = 0 /\ ~IdleApply.waited
      /\ sending.events \subseteq received
  BY DEF Types, TypeOK, EvidenceInv, Times, IdleApply
<1>t. Times => \A t \in Threads : apply[t].at \in Nat /\ apply[t].at <= clock
  BY <1>0 DEF Times, ApplyRow
<1>a. CASE \/ Merge \/ Poll \/ CreateDeployment \/ SaveCreated \/ Begin \/ AlreadyServed
           \/ ReportSuccess \/ StoreSuccess \/ StoreFailure
           \/ AnnouncementFails \/ PassFails \/ FaultElsewhere \/ UNCHANGED vars
  <2>1. UNCHANGED <<serving, strayed, outbox, received, clock, apply, sending>>
    BY <1>a DEF Merge, Poll, CreateDeployment, SaveCreated, Begin, AlreadyServed, ReportSuccess,
                StoreSuccess, StoreFailure, AnnouncementFails, PassFails, FaultElsewhere, vars
  <2>2. EvidenceRests
    BY <1>0, <2>1 DEF EvidenceRests, Evidence
  <2>3. QED
    BY <1>0, <1>t, <2>1, <2>2, RestingEvidence
<1>b. ASSUME NEW t \in Threads, StartApply(t) PROVE EvidenceInv'
  <2>1. EvidenceRests /\ clock' = clock + 1
    BY <1>0, <1>b DEF EvidenceRests, Evidence, StartApply
  <2>2. \A u \in Threads : apply'[u].at = clock' \/ apply'[u] = apply[u]
    BY <1>b DEF StartApply, Types, TypeOK
  <2>3. QED
    BY <1>0, <1>t, <2>1, <2>2, RestingEvidence
<1>c. CASE ApplyTimesOut \/ ReconcilerDies
  <2>1. EvidenceRests /\ clock' = clock
    BY <1>0, <1>c DEF EvidenceRests, Evidence, ApplyTimesOut, ReconcilerDies
  <2>2. \A t \in Threads : apply'[t].at = apply[t].at /\ ~apply'[t].waited
    BY <1>0, <1>c DEF ApplyTimesOut, ReconcilerDies, NobodyWaits, ApplyRow
  <2>3. QED
    BY <1>0, <1>t, <2>1, <2>2, RestingEvidence
<1>d. CASE RuntimeRestarts \/ (\E t \in Threads : ApplyFails(t) \/ ApplyUnchanged(t))
  <2>1. EvidenceRests /\ clock' = clock
    BY <1>0, <1>d DEF EvidenceRests, Evidence, RuntimeRestarts, ApplyFails, ApplyUnchanged, IdleSending
  <2>2. \A t \in Threads : apply'[t] = IdleApply \/ apply'[t] = apply[t]
    BY <1>d DEF RuntimeRestarts, ApplyFails, ApplyUnchanged, Answer, Types, TypeOK
  <2>3. QED
    BY <1>0, <1>t, <2>1, <2>2, RestingEvidence
<1>e. ASSUME NEW t \in Threads, CommitApply(t) PROVE EvidenceInv'
  <2>1. /\ \A u \in Threads : apply'[u] = IdleApply \/ apply'[u] = apply[u]
        /\ serving' = [rev |-> apply[t].rev, at |-> apply[t].at]
        /\ strayed' = (strayed \/ ~apply[t].waited)
        /\ UNCHANGED <<clock, sending, received>>
    BY <1>e DEF CommitApply, Answer, Types, TypeOK
  <2>2. Times'
    BY <1>0, <1>t, <2>1 DEF Times
  <2>3. serving'.rev # NoRevision
    BY <1>e, <2>1 DEF CommitApply, Types, Shape
  <2>4. ~strayed' => Told'
    BY <1>e, <2>1, CommittedEvidence DEF EvidenceInv
  <2>5. QED
    BY <2>2, <2>3, <2>4 DEF EvidenceInv
<1>f. CASE \/ Complete
           \/ \E e \in outbox.pending : Send(e) \/ RetryDue(e) \/ SendFails(e) \/ Observe(e)
  <2>1. EvidenceRests /\ UNCHANGED <<clock, apply>>
    <3>1. CASE Complete
      BY <1>0, <3>1 DEF EvidenceRests, Evidence, Complete, IdleSending, Types, TypeOK, OutboxRow
    <3>2. ASSUME NEW e \in outbox.pending, Send(e) PROVE EvidenceRests /\ UNCHANGED <<clock, apply>>
      BY <1>0, <3>2 DEF EvidenceRests, Evidence, Send
    <3>3. ASSUME NEW e \in outbox.pending, RetryDue(e) \/ SendFails(e) \/ Observe(e)
          PROVE  EvidenceRests /\ UNCHANGED <<clock, apply>>
      <4>1. outbox'.pending = outbox.pending
        <5>1. outbox' = outbox \/ \E d : outbox' = [outbox EXCEPT !.delayed = d]
          BY <3>3 DEF RetryDue, SendFails, Observe
        <5>2. QED
          BY <1>0, <5>1 DEF Types, TypeOK, OutboxRow
      <4>2. received' = received /\ UNCHANGED <<serving, strayed, clock, apply>>
        BY <3>3 DEF RetryDue, SendFails, Observe
      <4>3. /\ clock \in Nat /\ sending'.events \subseteq sending.events
            /\ sending.events \subseteq received
        BY <1>0, <3>3 DEF RetryDue, SendFails, Observe, IdleSending, Types, TypeOK
      <4>4. QED
        BY <4>1, <4>2, <4>3 DEF EvidenceRests, Evidence
    <3>4. QED
      BY <1>f, <3>1, <3>2, <3>3
  <2>2. QED
    BY <1>0, <1>t, <2>1, RestingEvidence
<1>g. QED
  BY <1>a, <1>b, <1>c, <1>d, <1>e, <1>f
  DEF Next, Unobserved, ReconcilerStep, Faulty, Delivery, RuntimeStep


-----------------------------------------------------------------------------
(* The runtime and its reconciler                                          *)

RuntimeInv == Types /\ ReportInv /\ DeployInv /\ EvidenceInv

LEMMA RuntimeInvHolds ==
  /\ Init => RuntimeInv
  /\ RuntimeInv /\ ([Next]_vars \/ FaultElsewhere) => RuntimeInv'
BY TypesInit, TypesStep, ReportInit, ReportStep, DeployInit, DeployStep, EvidenceInit, EvidenceStep
DEF RuntimeInv

LEMMA RuntimeInvSuffices ==
  RuntimeInv => TypeOK /\ SuccessWasServed /\ RestsOnServed /\ OneDeployment /\ NothingLost
<1> SUFFICES ASSUME RuntimeInv PROVE OneDeployment
  BY EvidenceSuffices DEF RuntimeInv, Types, ReportInv
<1>1. deployed \in [Revisions -> Nat] /\ unsaved \in [Revisions -> Nat]
  BY DEF RuntimeInv, Types, TypeOK
<1>2. QED
  BY <1>1 DEF RuntimeInv, DeployInv, Counted, OneDeployment

LEMMA RuntimeAlone == Spec => []RuntimeInv
BY RuntimeInvHolds, PTL DEF Spec

-----------------------------------------------------------------------------
(* Together with the imports                                               *)

(***************************************************************************)
(* The imports read the runtime and observe its events, but change nothing *)
(* of it; their own failures are failures elsewhere.                       *)
(***************************************************************************)
LEMMA ComposedStep == [ComposedNext]_allVars => [Next]_vars \/ FaultElsewhere
<1>1. CASE UNCHANGED allVars
  BY <1>1 DEF allVars
<1>2. CASE Unobserved \/ \E e \in outbox.pending : ObserveDelivered(e)
  BY <1>2 DEF Next, ObserveDelivered
<1>3. CASE SyncStep
  BY <1>3 DEF SyncStep, Fetch, RecordSync, ReadStatus, WriteStatus, AskRuntime, Hydrate, SyncFails,
              FaultElsewhere
<1>4. QED
  BY <1>1, <1>2, <1>3 DEF ComposedNext

LEMMA RuntimeComposed == ComposedSpec => []RuntimeInv
BY RuntimeInvHolds, ComposedStep, PTL DEF ComposedSpec, ComposedInit

(***************************************************************************)
(* Every row of the reconciler, the runtime and its outbox keeps its type. *)
(***************************************************************************)
THEOREM RuntimeTypeCorrect == ComposedSpec => []TypeOK
BY RuntimeComposed, RuntimeInvSuffices, PTL

(***************************************************************************)
(* run_once reports 'success' only for a commit the runtime has served,    *)
(* whatever fails, times out or is repeated.                               *)
(***************************************************************************)
THEOREM SuccessIsServed == ComposedSpec => []SuccessWasServed
BY RuntimeComposed, RuntimeInvSuffices, PTL

(***************************************************************************)
(* While reconciler_deployments says 'success', that commit is served,     *)
(* unless an apply nobody waited for took effect.                          *)
(***************************************************************************)
THEOREM RestIsServed == ComposedSpec => []RestsOnServed
BY RuntimeComposed, RuntimeInvSuffices, PTL

(***************************************************************************)
(* A commit has one GitHub deployment and those whose id was never saved.  *)
(***************************************************************************)
THEOREM DeployedOnce == ComposedSpec => []OneDeployment
BY RuntimeComposed, RuntimeInvSuffices, PTL

(***************************************************************************)
(* The outbox loses nothing: the latest event on a key, delivered or not,  *)
(* is what is served, through restarts, failed and repeated deliveries.    *)
(***************************************************************************)
THEOREM ServedIsTold == ComposedSpec => []NothingLost
BY RuntimeComposed, RuntimeInvSuffices, PTL

-----------------------------------------------------------------------------
(* The imported deployment                                                 *)

(***************************************************************************)
(* A sync hydrates from a commit that was served, and every event tells a  *)
(* value that was: what Show is given, whoever calls it.                   *)
(***************************************************************************)
Asked == syncer.step = "hydrate" => syncer.seen.rev \in wasServed

EventsServed == \A e \in Evidence : \E r \in wasServed : e.value = ValueOf(r, e.key)

LEMMA IdleTyped == IdleSyncer \in SyncerRow
<1>1. 0 \in 0 .. MaxApplies
  BY ConstantsOK
<1>2. QED
  BY <1>1 DEF IdleSyncer, SyncerRow

LEMMA ShowTyped ==
  ASSUME ImportsTypeOK, NEW k \in Keys, NEW value \in Values, NEW at \in 0 .. MaxApplies,
         Show(k, value, at)
  PROVE  /\ shown' \in [Keys -> [value : Values \cup {Absent}, at : 0 .. MaxApplies]]
         /\ status' \in {"desired_only", "out_of_sync", "in_sync"}
         /\ overtaken' \subseteq Keys
<1>1. shown' \in [Keys -> [value : Values \cup {Absent}, at : 0 .. MaxApplies]]
  BY DEF ImportsTypeOK, Show
<1>2. status' \in {"desired_only", "out_of_sync", "in_sync"}
  BY DEF ImportsTypeOK, Show, Compare
<1>3. overtaken' \subseteq Keys
  BY DEF ImportsTypeOK, Show
<1>4. QED
  BY <1>1, <1>2, <1>3

LEMMA ImportsTyped ==
  ASSUME Types, ImportsTypeOK, Asked, [ComposedNext]_allVars
  PROVE  ImportsTypeOK'
<1> USE SyncsType DEF SyncerRow, SyncerStep, IdleSyncer
<1>0. /\ syncer \in SyncerRow /\ head \in Revisions
      /\ serving \in [rev : Revisions \cup {NoRevision}, at : 0 .. MaxApplies]
      /\ 0 \in 0 .. MaxApplies /\ syncs \in 0 .. MaxSyncs
  BY ConstantsOK DEF Types, TypeOK, ImportsTypeOK
<1>1. CASE UNCHANGED importVars
  BY <1>1 DEF importVars, ImportsTypeOK
<1>2. ASSUME NEW e \in outbox.pending, ObserveDelivered(e) PROVE ImportsTypeOK'
  <2>1. e \in Event
    BY DEF Types, TypeOK, OutboxRow
  <2>2. e.key \in Keys /\ e.value \in Values /\ e.at \in 0 .. MaxApplies
    BY <2>1 DEF Event
  <2>3. Show(e.key, e.value, e.at) /\ UNCHANGED <<desired, syncer, syncs, overwritten>>
    BY <1>2 DEF ObserveDelivered
  <2>4. QED
    BY <2>2, <2>3, ShowTyped DEF ImportsTypeOK
<1>3. CASE Fetch
  <2>1. syncer' \in SyncerRow
    BY <1>0, <1>3, IdleTyped DEF Fetch
  <2>2. syncs' \in 0 .. MaxSyncs
    BY <1>0, <1>3 DEF Fetch
  <2>3. UNCHANGED <<desired, shown, status, overwritten, overtaken>>
    BY <1>3 DEF Fetch
  <2>4. QED
    BY <2>1, <2>2, <2>3 DEF ImportsTypeOK
<1>4. CASE RecordSync
  BY <1>0, <1>4 DEF RecordSync, ImportsTypeOK
<1>5. CASE ReadStatus
  <2>1. Compare(desired, shown) \in {"desired_only", "out_of_sync", "in_sync"}
    BY DEF Compare
  <2>2. QED
    BY <1>0, <1>5, <2>1 DEF ReadStatus, ImportsTypeOK
<1>6. CASE WriteStatus
  <2>1. overwritten' \in BOOLEAN
    BY <1>6, Zenon DEF WriteStatus, ImportsTypeOK
  <2>2. QED
    BY <1>0, <1>6, <2>1 DEF WriteStatus, ImportsTypeOK
<1>7. CASE AskRuntime
  BY <1>0, <1>7 DEF AskRuntime, ImportsTypeOK
<1>8. ASSUME NEW k \in Keys, Hydrate(k) PROVE ImportsTypeOK'
  <2>1. syncer.seen.at \in 0 .. MaxApplies /\ syncer' \in SyncerRow
    BY <1>0, <1>8 DEF Hydrate
  <2>2. ValueOf(syncer.seen.rev, k) \in Values
    BY <1>8, ValueTyped DEF Hydrate, Asked, Types, TypeOK
  <2>3. QED
    BY <1>8, <2>1, <2>2, ShowTyped DEF Hydrate, ImportsTypeOK
<1>9. CASE SyncFails
  BY <1>0, <1>9 DEF SyncFails, ImportsTypeOK
<1>10. QED
  BY <1>1, <1>2, <1>3, <1>4, <1>5, <1>6, <1>7, <1>8, <1>9
  DEF ComposedNext, SyncStep, allVars

\* wasServed only grows, and new evidence is of what is served now.
LEMMA EventsServedStep ==
  ASSUME Types, EventsServed, [Next]_vars \/ FaultElsewhere
  PROVE  EventsServed' /\ wasServed \subseteq wasServed'
<1>1. CASE \E t \in Threads : CommitApply(t)
  <2>1. PICK t \in Threads : CommitApply(t)
    BY <1>1
  <2>2. wasServed' = wasServed \cup {apply[t].rev}
    BY <2>1 DEF CommitApply
  <2>3. Evidence' = Evidence \cup Observed(apply[t].rev, apply[t].at)
    BY <2>1 DEF CommitApply, Evidence, Types, TypeOK, OutboxRow
  <2>4. \A e \in Observed(apply[t].rev, apply[t].at) : e.value = ValueOf(apply[t].rev, e.key)
    BY ObservedEvents
  <2>5. QED
    BY <2>2, <2>3, <2>4 DEF EventsServed, ValueOf
<1>2. CASE ~\E t \in Threads : CommitApply(t)
  <2>1. wasServed' = wasServed
    BY <1>2 DEF Next, Unobserved, Merge, ReconcilerStep, Poll, CreateDeployment, SaveCreated, Begin,
                AlreadyServed, StartApply, ReportSuccess, StoreSuccess, StoreFailure, Faulty,
                AnnouncementFails, PassFails, ApplyTimesOut, ReconcilerDies, RuntimeRestarts,
                ApplyFails, SendFails, Delivery, Complete, Send, RetryDue, Observe, RuntimeStep,
                ApplyUnchanged, FaultElsewhere, vars
  <2>2. Evidence' \subseteq Evidence
    <3>1. CASE Delivery \/ \E e \in outbox.pending : Observe(e)
      <4>0. outbox \in OutboxRow
        BY DEF Types, TypeOK
      <4>1. CASE Complete
        BY <4>0, <4>1 DEF Complete, Evidence, OutboxRow
      <4>2. ASSUME NEW e \in outbox.pending, Send(e) PROVE Evidence' \subseteq Evidence
        BY <4>2 DEF Send, Evidence
      <4>3. ASSUME NEW e \in outbox.pending, RetryDue(e) PROVE Evidence' \subseteq Evidence
        BY <4>0, <4>3 DEF RetryDue, Evidence, OutboxRow
      <4>4. ASSUME NEW e \in outbox.pending, Observe(e) PROVE Evidence' \subseteq Evidence
        BY <4>4 DEF Observe, Evidence
      <4>5. QED
        BY <3>1, <4>1, <4>2, <4>3, <4>4 DEF Delivery
    <3>2. CASE Faulty
      BY <3>2 DEF Faulty, AnnouncementFails, PassFails, ApplyTimesOut, ReconcilerDies,
                  RuntimeRestarts, ApplyFails, SendFails, Evidence, Types, TypeOK, OutboxRow
    <3>3. CASE Merge \/ ReconcilerStep \/ FaultElsewhere \/ UNCHANGED vars
      BY <3>3 DEF Merge, ReconcilerStep, Poll, CreateDeployment, SaveCreated, Begin, AlreadyServed,
                  StartApply, ReportSuccess, StoreSuccess, StoreFailure, FaultElsewhere, vars, Evidence
    <3>4. ASSUME NEW t \in Threads, ApplyUnchanged(t) PROVE Evidence' \subseteq Evidence
      BY <3>4 DEF ApplyUnchanged, Evidence
    <3>5. QED
      BY <1>2, <3>1, <3>2, <3>3, <3>4 DEF Next, Unobserved, RuntimeStep
  <2>3. QED
    BY <2>1, <2>2 DEF EventsServed, ValueOf
<1>3. QED
  BY <1>1, <1>2

ServedInv == Asked /\ EventsServed /\ ShownWasServed

LEMMA ShownStep ==
  ASSUME ImportsTypeOK, ShownWasServed, wasServed \subseteq wasServed',
         NEW k \in Keys, NEW value, NEW at, Show(k, value, at),
         \E r \in wasServed : value = ValueOf(r, k)
  PROVE  ShownWasServed'
<1>1. \A q \in Keys : shown'[q] = shown[q] \/ (q = k /\ shown'[q].value = value)
  BY DEF Show, ImportsTypeOK
<1>2. ASSUME NEW q \in Keys, shown'[q] # NotShown
      PROVE  \E r \in wasServed' : shown'[q].value = ValueOf(r, q)
  BY <1>1, <1>2 DEF ShownWasServed
<1>3. QED
  BY <1>2 DEF ShownWasServed, ValueOf, NotShown

LEMMA ServedStep ==
  ASSUME RuntimeInv, ImportsTypeOK, ServedInv, [ComposedNext]_allVars
  PROVE  ServedInv'
<1>1. Types /\ Asked /\ EventsServed /\ ShownWasServed /\ syncer \in SyncerRow
  BY DEF RuntimeInv, ServedInv, ImportsTypeOK
<1>2. EventsServed' /\ wasServed \subseteq wasServed'
  BY <1>1, ComposedStep, EventsServedStep
<1>3. Asked'
  <2>1. CASE UNCHANGED <<syncer>>
    BY <1>1, <1>2, <2>1 DEF Asked
  <2>2. CASE syncer'.step # "hydrate"
    BY <2>2 DEF Asked
  <2>3. CASE AskRuntime
    <3>1. serving.rev # NoRevision => serving.rev \in wasServed
      BY DEF RuntimeInv, ReportInv, Reports
    <3>2. serving.rev # NoRevision => syncer'.seen = serving
      BY <1>1, <2>3 DEF AskRuntime, SyncerRow
    <3>3. QED
      BY <1>2, <2>2, <2>3, <3>1, <3>2 DEF AskRuntime, IdleSyncer, Asked
  <2>4. ASSUME NEW k \in Keys, Hydrate(k) PROVE Asked'
    <3>1. syncer'.step = "hydrate" => syncer'.seen = syncer.seen
      BY <1>1, <2>4 DEF Hydrate, IdleSyncer, SyncerRow
    <3>2. QED
      BY <1>1, <1>2, <2>4, <3>1 DEF Hydrate, Asked
  <2>5. CASE Fetch \/ RecordSync \/ ReadStatus \/ WriteStatus \/ SyncFails
    <3>1. CASE Fetch \/ SyncFails
      <4>1. CASE Fetch
        BY <2>2, <4>1, IdleTyped DEF Fetch, SyncerRow
      <4>2. CASE SyncFails
        BY <2>2, <4>2 DEF SyncFails, IdleSyncer
      <4>3. QED
        BY <3>1, <4>1, <4>2
    <3>2. CASE RecordSync \/ WriteStatus
      BY <1>1, <2>2, <3>2 DEF RecordSync, WriteStatus, SyncerStep, SyncerRow
    <3>3. CASE ReadStatus
      <4>1. syncer'.step = "write"
        BY <1>1, <3>3 DEF ReadStatus, SyncerRow
      <4>2. QED
        BY <2>2, <4>1
    <3>4. QED
      BY <2>5, <3>1, <3>2, <3>3
  <2>6. QED
    BY <2>1, <2>3, <2>4, <2>5 DEF ComposedNext, SyncStep, allVars, importVars, ObserveDelivered
<1>4. ShownWasServed'
  <2>1. CASE UNCHANGED shown
    BY <1>1, <1>2, <2>1 DEF ShownWasServed, ValueOf, NotShown
  <2>2. ASSUME NEW e \in outbox.pending, ObserveDelivered(e) PROVE ShownWasServed'
    <3>1. e \in Event /\ e \in Evidence
      BY <1>1 DEF Types, TypeOK, OutboxRow, Evidence
    <3>2. e.key \in Keys /\ \E r \in wasServed : e.value = ValueOf(r, e.key)
      BY <1>1, <3>1 DEF Event, EventsServed
    <3>3. QED
      BY <1>1, <1>2, <2>2, <3>2, ShownStep DEF ObserveDelivered
  <2>3. ASSUME NEW k \in Keys, Hydrate(k) PROVE ShownWasServed'
    BY <1>1, <1>2, <2>3, ShownStep DEF Hydrate, Asked
  <2>4. QED
    BY <2>1, <2>2, <2>3 DEF ComposedNext, allVars, importVars, SyncStep, Fetch, RecordSync, ReadStatus,
       WriteStatus, AskRuntime, SyncFails
<1>5. QED
  BY <1>2, <1>3, <1>4 DEF ServedInv

(***************************************************************************)
(* Every way status is written compares it with the row it is written to,  *)
(* but for the refresh, which writes what it computed before.              *)
(***************************************************************************)
LEMMA InSyncStep ==
  ASSUME InSyncMatches, [ComposedNext]_allVars
  PROVE  InSyncMatches'
<1> USE DEF InSyncMatches
<1>1. Compare(desired, shown)' = Compare(desired', shown')
  BY DEF Compare, NotShown, Declares, ValueOf
<1>2. CASE UNCHANGED <<desired, shown, status, overwritten>>
  BY <1>1, <1>2
<1>3. ASSUME NEW k, NEW value, NEW at, Show(k, value, at), UNCHANGED <<desired, overwritten>>
      PROVE  InSyncMatches'
  BY <1>1, <1>3 DEF Show
<1>4. CASE RecordSync
  BY <1>4 DEF RecordSync
<1>5. CASE WriteStatus
  BY <1>1, <1>5 DEF WriteStatus
<1>6. QED
  BY <1>2, <1>3, <1>4, <1>5 DEF ComposedNext, allVars, importVars, ObserveDelivered, SyncStep, Fetch,
     ReadStatus, AskRuntime, SyncFails, Hydrate

ImportsInv == RuntimeInv /\ ImportsTypeOK /\ ServedInv /\ InSyncMatches

LEMMA ImportsInitOK == ComposedInit => ImportsInv
<1> SUFFICES ASSUME ComposedInit PROVE ImportsInv
  OBVIOUS
<1>1. RuntimeInv
  BY RuntimeInvHolds DEF ComposedInit
<1>2. ImportsTypeOK
  <2>1. 0 \in 0 .. MaxApplies /\ 0 \in 0 .. MaxSyncs
    BY ConstantsOK, SyncsType
  <2>2. shown \in [Keys -> [value : Values \cup {Absent}, at : 0 .. MaxApplies]]
    BY <2>1 DEF ComposedInit, ImportsInit, NotShown
  <2>3. overwritten \in BOOLEAN /\ overtaken \subseteq Keys
    BY DEF ComposedInit, ImportsInit
  <2>4. desired \in Revisions \cup {NoRevision} /\ syncs \in 0 .. MaxSyncs
        /\ status \in {"desired_only", "out_of_sync", "in_sync"} /\ syncer = IdleSyncer
    BY <2>1 DEF ComposedInit, ImportsInit
  <2>5. QED
    BY <2>2, <2>3, <2>4, IdleTyped DEF ImportsTypeOK
<1>3. Evidence = {}
  BY DEF ComposedInit, Init, Evidence
<1>4. ServedInv
  BY <1>3 DEF ComposedInit, ImportsInit, ServedInv, Asked, EventsServed, ShownWasServed, IdleSyncer
<1>5. QED
  BY <1>1, <1>2, <1>4 DEF ImportsInv, InSyncMatches, ComposedInit, ImportsInit

LEMMA ImportsComposed == ComposedSpec => []ImportsInv
<1>1. ImportsInv /\ [ComposedNext]_allVars => ImportsInv'
  BY RuntimeInvHolds, ComposedStep, ImportsTyped, ServedStep, InSyncStep
  DEF ImportsInv, RuntimeInv, ServedInv
<1>2. QED
  BY <1>1, ImportsInitOK, PTL DEF ComposedSpec

(***************************************************************************)
(* The imported deployment and the sync in progress keep their types.      *)
(***************************************************************************)
THEOREM ImportsTypeCorrect == ComposedSpec => []ImportsTypeOK
BY ImportsComposed, PTL DEF ImportsInv

(***************************************************************************)
(* 'in_sync' is right but for exactly one case: a refresh that wrote what  *)
(* it had computed from a row that changed meanwhile.                      *)
(***************************************************************************)
THEOREM InSyncIsHonest == ComposedSpec => []InSyncMatches
BY ImportsComposed, PTL DEF ImportsInv

(***************************************************************************)
(* Nothing is ever shown that the runtime did not serve, whether an event  *)
(* or a hydration stored it, and in whatever order they came.              *)
(***************************************************************************)
THEOREM ShownIsServed == ComposedSpec => []ShownWasServed
BY ImportsComposed, PTL DEF ImportsInv, ServedInv

-----------------------------------------------------------------------------
(* What is shown, once everything has arrived                              *)

\* Some event, delivered or not, tells this of k.
ToldOf(k, value, at) == [key |-> k, value |-> value, at |-> at] \in Evidence

(***************************************************************************)
(* What is served, what a sync has still to store and what is shown are    *)
(* all told of by events.                                                  *)
(***************************************************************************)
ServedTold == \A k \in Keys : Declares(serving.rev, k) =>
                ToldOf(k, ValueOf(serving.rev, k), serving.at)
SeenTold == \A k \in syncer.todo : ToldOf(k, ValueOf(syncer.seen.rev, k), syncer.seen.at)
ShownTold == \A k \in Keys : shown[k] # NotShown => ToldOf(k, shown[k].value, shown[k].at)

(***************************************************************************)
(* The observer has been told of event e: it is saved and its delivery is  *)
(* complete, or about to be.  One whose call failed is pending again.      *)
(***************************************************************************)
Arrived(e) ==
  /\ e \in received
  /\ e \in outbox.pending => sending.step = "observed" /\ e \in sending.events

\* Nothing that arrived is later than what is shown, overtaken keys excepted.
NewestShown ==
  \A k \in Keys \ overtaken : shown[k] # NotShown =>
    \A e : Arrived(e) /\ e.key = k => e.at <= shown[k].at

FollowedInv == ServedTold /\ SeenTold /\ ShownTold /\ NewestShown

LEMMA FollowedInit == ComposedInit => FollowedInv
BY DEF ComposedInit, Init, ImportsInit, IdleSyncer, FollowedInv, ServedTold, SeenTold, ShownTold,
       NewestShown, Arrived, Declares, NoRevision

LEMMA FollowedSuffices ==
  ASSUME RuntimeInv, ImportsTypeOK, FollowedInv
  PROVE  ObservedIsServed
<1> SUFFICES ASSUME outbox.pending = {}, ~strayed,
                    NEW k \in Keys \ overtaken, shown[k] # NotShown,
                    k \in Versions \/ Declares(serving.rev, k)
             PROVE  shown[k].value = ValueOf(serving.rev, k)
  BY DEF ObservedIsServed
<1> DEFINE e == [key |-> k, value |-> shown[k].value, at |-> shown[k].at]
<1>1. e \in Evidence /\ e.key = k /\ e.value = shown[k].value /\ e.at = shown[k].at
  BY DEF FollowedInv, ShownTold, ToldOf
<1> HIDE DEF e
<1>2. \A f \in Evidence : Arrived(f)
  BY DEF Evidence, Arrived
<1>3. \A f \in Evidence : f.key = k => f.at <= e.at
  BY <1>1, <1>2 DEF FollowedInv, NewestShown
<1>4. e \in LatestFor(k)
  BY <1>1, <1>3 DEF LatestFor
<1>5. QED
  BY <1>1, <1>4, RuntimeInvSuffices DEF NothingLost

\* Saved events stay, and one leaves the outbox only when it is saved.
LEMMA EvidenceGrows ==
  ASSUME Types, EvidenceInv, [Next]_vars \/ FaultElsewhere
  PROVE  Evidence \subseteq Evidence'
<1>0. outbox \in OutboxRow /\ sending.events \subseteq received
  BY DEF Types, TypeOK, EvidenceInv, Times
<1>1. CASE Delivery \/ \E e \in outbox.pending : Observe(e)
  BY <1>0, <1>1 DEF Delivery, Complete, Send, RetryDue, Observe, Evidence, OutboxRow
<1>2. CASE Faulty
  BY <1>0, <1>2 DEF Faulty, AnnouncementFails, PassFails, ApplyTimesOut, ReconcilerDies,
     RuntimeRestarts, ApplyFails, SendFails, Evidence, OutboxRow
<1>3. CASE Merge \/ ReconcilerStep \/ FaultElsewhere \/ UNCHANGED vars
  BY <1>3 DEF Merge, ReconcilerStep, Poll, CreateDeployment, SaveCreated, Begin, AlreadyServed,
     StartApply, ReportSuccess, StoreSuccess, StoreFailure, FaultElsewhere, vars, Evidence
<1>4. ASSUME NEW t \in Threads, RuntimeStep(t) PROVE Evidence \subseteq Evidence'
  BY <1>0, <1>4 DEF RuntimeStep, ApplyUnchanged, CommitApply, Evidence, OutboxRow
<1>5. QED
  BY <1>1, <1>2, <1>3, <1>4 DEF Next, Unobserved

\* Only its observer makes an event arrive.
LEMMA ArrivedStep ==
  ASSUME Types, EvidenceInv, [Next]_vars \/ FaultElsewhere, NEW e, Arrived(e)', ~Arrived(e)
  PROVE  e \in outbox.pending /\ Observe(e)
<1>0. outbox \in OutboxRow
  BY DEF Types, TypeOK
<1>1. CASE Complete
  BY <1>0, <1>1 DEF Complete, Arrived, IdleSending, OutboxRow
<1>2. ASSUME NEW f \in outbox.pending, Send(f) \/ RetryDue(f) \/ SendFails(f) PROVE FALSE
  <2>1. CASE Send(f)
    BY <1>2, <2>1 DEF Send, Arrived
  <2>2. CASE RetryDue(f) \/ SendFails(f)
    BY <1>0, <2>2 DEF RetryDue, SendFails, Arrived, IdleSending, OutboxRow
  <2>3. QED
    BY <1>2, <2>1, <2>2
<1>3. ASSUME NEW f \in outbox.pending, Observe(f) PROVE f = e
  BY <1>3 DEF Observe, Arrived
<1>4. CASE Faulty /\ ~\E f \in outbox.pending : SendFails(f)
  BY <1>4 DEF Faulty, AnnouncementFails, PassFails, ApplyTimesOut, ReconcilerDies, RuntimeRestarts,
     ApplyFails, IdleSending, Arrived
<1>5. CASE Merge \/ ReconcilerStep \/ FaultElsewhere \/ UNCHANGED vars
  BY <1>5 DEF Merge, ReconcilerStep, Poll, CreateDeployment, SaveCreated, Begin, AlreadyServed,
     StartApply, ReportSuccess, StoreSuccess, StoreFailure, FaultElsewhere, vars, Arrived
<1>6. ASSUME NEW t \in Threads, RuntimeStep(t) PROVE FALSE
  BY <1>0, <1>6 DEF RuntimeStep, ApplyUnchanged, CommitApply, Arrived, OutboxRow
<1>7. QED
  BY <1>1, <1>2, <1>3, <1>4, <1>5, <1>6 DEF Next, Unobserved, Delivery

LEMMA ServedToldStep ==
  ASSUME Types, EvidenceInv, ServedTold, [Next]_vars \/ FaultElsewhere
  PROVE  ServedTold'
<1>1. Evidence \subseteq Evidence'
  BY EvidenceGrows
<1>2. CASE serving' = serving
  BY <1>1, <1>2 DEF ServedTold, ToldOf, Declares, ValueOf
<1>3. ASSUME NEW t \in Threads, CommitApply(t) PROVE ServedTold'
  <2>1. /\ serving'.rev = apply[t].rev /\ serving'.at = apply[t].at
        /\ Observed(apply[t].rev, apply[t].at) \subseteq Evidence'
    BY <1>3 DEF CommitApply, Evidence, Types, TypeOK, OutboxRow
  <2>2. \A k \in Keys : Declares(apply[t].rev, k) =>
          [key |-> k, value |-> ValueOf(apply[t].rev, k), at |-> apply[t].at]
            \in Observed(apply[t].rev, apply[t].at)
    BY DEF Observed
  <2>3. QED
    BY <2>1, <2>2 DEF ServedTold, ToldOf, Declares, ValueOf
<1>4. serving' = serving \/ \E t \in Threads : CommitApply(t)
  BY DEF Next, Unobserved, Merge, ReconcilerStep, Poll, CreateDeployment, SaveCreated, Begin,
     AlreadyServed, StartApply, ReportSuccess, StoreSuccess, StoreFailure, Faulty, AnnouncementFails,
     PassFails, ApplyTimesOut, ReconcilerDies, RuntimeRestarts, ApplyFails, SendFails, Delivery,
     Complete, Send, RetryDue, Observe, RuntimeStep, ApplyUnchanged, FaultElsewhere, vars
<1>5. QED
  BY <1>2, <1>3, <1>4

(***************************************************************************)
(* Show stores what some event tells, and is honest about what it hides:   *)
(* the key is overtaken unless what it shows is the last to arrive.        *)
(***************************************************************************)
LEMMA ShowFollows ==
  ASSUME ImportsTypeOK, ShownTold, NewestShown, Evidence \subseteq Evidence',
         NEW k \in Keys, NEW value, NEW at \in Nat, Show(k, value, at), ToldOf(k, value, at),
         received' = received,
         \A e : Arrived(e)' => Arrived(e) \/ (e.key = k /\ e.at = at)
  PROVE  ShownTold' /\ NewestShown'
<1>1. /\ \A q \in Keys \ {k} : /\ shown'[q] = shown[q]
                               /\ q \in overtaken' <=> q \in overtaken
      /\ \A q \in Keys : shown[q].at \in Nat
  BY DEF ImportsTypeOK, Show
<1>2. CASE Stores(k)
  <2>1. /\ shown'[k].value = value /\ shown'[k].at = at
        /\ k \notin overtaken' => LastArrived(k, at)
    BY <1>2 DEF ImportsTypeOK, Show
  <2>2. ShownTold'
    BY <1>1, <2>1 DEF ShownTold, ToldOf, NotShown
  <2>3. ASSUME NEW e, k \notin overtaken', Arrived(e)', e.key = k PROVE e.at <= at
    BY <2>1, <2>3 DEF Arrived, LastArrived
  <2>4. NewestShown'
    BY <1>1, <2>1, <2>3 DEF NewestShown, NotShown
  <2>5. QED
    BY <2>2, <2>4
<1>3. CASE ~Stores(k)
  <2>1. /\ shown' = shown
        /\ k \notin overtaken' => k \notin overtaken /\ at <= shown[k].at
    BY <1>1, <1>3 DEF Show
  <2>2. ShownTold'
    BY <2>1 DEF ShownTold, ToldOf, NotShown
  <2>3. NewestShown'
    BY <1>1, <2>1 DEF NewestShown, NotShown
  <2>4. QED
    BY <2>2, <2>3
<1>4. QED
  BY <1>2, <1>3

LEMMA ShownRests ==
  ASSUME ShownTold, NewestShown, Evidence \subseteq Evidence',
         shown' = shown, overtaken' = overtaken, \A e : Arrived(e)' => Arrived(e)
  PROVE  ShownTold' /\ NewestShown'
BY DEF ShownTold, NewestShown, ToldOf, NotShown

LEMMA SeenStep ==
  ASSUME ImportsTypeOK, ServedTold, SeenTold, Evidence \subseteq Evidence', [ComposedNext]_allVars
  PROVE  SeenTold'
<1>0. syncer \in SyncerRow
  BY DEF ImportsTypeOK
<1>1. CASE AskRuntime
  <2>1. CASE serving.rev = NoRevision
    BY <1>1, <2>1 DEF AskRuntime, IdleSyncer, SeenTold
  <2>2. CASE serving.rev # NoRevision
    <3>1. syncer'.seen = serving /\ syncer'.todo = {k \in Keys : Declares(serving.rev, k)}
      BY <1>0, <1>1, <2>2 DEF AskRuntime, SyncerRow
    <3>2. QED
      BY <3>1 DEF ServedTold, SeenTold, ToldOf, ValueOf
  <2>3. QED
    BY <2>1, <2>2
<1>2. ASSUME syncer'.todo \subseteq syncer.todo, syncer'.seen = syncer.seen \/ syncer'.todo = {}
      PROVE  SeenTold'
  BY <1>2 DEF SeenTold, ToldOf, ValueOf
<1>3. CASE Fetch \/ SyncFails
  <2>1. CASE Fetch
    BY <2>1 DEF Fetch, IdleSyncer, SeenTold
  <2>2. CASE SyncFails
    BY <2>2 DEF SyncFails, IdleSyncer, SeenTold
  <2>3. QED
    BY <1>3, <2>1, <2>2
<1>4. CASE RecordSync \/ ReadStatus \/ WriteStatus
  <2>1. syncer'.todo = syncer.todo /\ syncer'.seen = syncer.seen
    BY <1>0, <1>4 DEF RecordSync, ReadStatus, WriteStatus, SyncerStep, SyncerRow
  <2>2. QED
    BY <1>2, <2>1
<1>5. ASSUME NEW k \in Keys, Hydrate(k) PROVE SeenTold'
  <2>1. /\ syncer'.todo \subseteq syncer.todo
        /\ syncer'.seen = syncer.seen \/ syncer'.todo = {}
    BY <1>0, <1>5 DEF Hydrate, IdleSyncer, SyncerRow
  <2>2. QED
    BY <1>2, <2>1
<1>6. CASE UNCHANGED syncer
  BY <1>2, <1>6
<1>7. QED
  BY <1>1, <1>3, <1>4, <1>5, <1>6 DEF ComposedNext, SyncStep, allVars, importVars, ObserveDelivered

LEMMA FollowedStep ==
  ASSUME RuntimeInv, ImportsTypeOK, FollowedInv, [ComposedNext]_allVars
  PROVE  FollowedInv'
<1>0. Types /\ EvidenceInv /\ ([Next]_vars \/ FaultElsewhere)
  BY ComposedStep DEF RuntimeInv
<1>1. ServedTold /\ SeenTold /\ ShownTold /\ NewestShown
  BY DEF FollowedInv
<1>2. Evidence \subseteq Evidence'
  BY <1>0, EvidenceGrows
<1>3. ServedTold' /\ SeenTold'
  BY <1>0, <1>1, <1>2, ServedToldStep, SeenStep
<1>4. \A e : Arrived(e)' => Arrived(e) \/ (e \in outbox.pending /\ Observe(e))
  BY <1>0, ArrivedStep
<1>5. ASSUME NEW e \in outbox.pending, ObserveDelivered(e) PROVE ShownTold' /\ NewestShown'
  <2>1. e \in Event /\ e \in Evidence
    BY <1>0 DEF Types, TypeOK, OutboxRow, Evidence
  <2>2. e.key \in Keys /\ e.at \in Nat /\ e = [key |-> e.key, value |-> e.value, at |-> e.at]
    BY <2>1 DEF Event
  <2>3. ToldOf(e.key, e.value, e.at)
    BY <2>1, <2>2 DEF ToldOf
  <2>4. Show(e.key, e.value, e.at) /\ Observe(e) /\ received' = received
    BY <1>5 DEF ObserveDelivered, Observe
  <2>5. \A f : Arrived(f)' => Arrived(f) \/ f = e
    <3>1. ASSUME NEW f, Observe(f) PROVE f = e
      BY <2>4, <3>1 DEF Observe
    <3>2. QED
      BY <1>4, <3>1
  <2>6. QED
    BY <1>1, <1>2, <2>2, <2>3, <2>4, <2>5, ShowFollows
<1>6. ASSUME NEW k \in Keys, Hydrate(k) PROVE ShownTold' /\ NewestShown'
  <2>1. syncer.seen.at \in Nat /\ k \in syncer.todo
    BY <1>6 DEF Hydrate, ImportsTypeOK, SyncerRow
  <2>2. Show(k, ValueOf(syncer.seen.rev, k), syncer.seen.at) /\ received' = received
    BY <1>6 DEF Hydrate, vars
  <2>3. ToldOf(k, ValueOf(syncer.seen.rev, k), syncer.seen.at)
    BY <1>1, <2>1 DEF SeenTold
  <2>4. \A f : Arrived(f)' => Arrived(f)
    BY <1>6 DEF Hydrate, vars, Arrived
  <2>5. QED
    BY <1>1, <1>2, <2>1, <2>2, <2>3, <2>4, ShowFollows
<1>7. CASE UNCHANGED importVars /\ (Unobserved \/ UNCHANGED vars)
  <2>1. shown' = shown /\ overtaken' = overtaken
    BY <1>7 DEF importVars
  <2>2. ASSUME NEW e, Observe(e) PROVE FALSE
    <3>1. sending.step = "saved" /\ sending'.step = "observed"
      BY <1>0, <2>2 DEF Observe, Types, TypeOK
    <3>2. sending' = sending \/ sending'.step \in {"saved", "idle"}
      <4>1. CASE Merge \/ ReconcilerStep \/ \E t \in Threads : RuntimeStep(t)
        BY <4>1 DEF Merge, ReconcilerStep, Poll, CreateDeployment, SaveCreated, Begin,
           AlreadyServed, StartApply, ReportSuccess, StoreSuccess, StoreFailure, RuntimeStep,
           ApplyUnchanged, CommitApply
      <4>2. CASE Faulty
        BY <4>2 DEF Faulty, AnnouncementFails, PassFails, ApplyTimesOut, ReconcilerDies,
           RuntimeRestarts, ApplyFails, SendFails, IdleSending
      <4>3. CASE Delivery
        BY <4>3 DEF Delivery, Complete, Send, RetryDue, IdleSending
      <4>4. QED
        BY <1>7, <4>1, <4>2, <4>3 DEF Unobserved, vars
    <3>3. QED
      BY <3>1, <3>2
  <2>3. \A e : Arrived(e)' => Arrived(e)
    BY <1>4, <2>2
  <2>4. QED
    BY <1>1, <1>2, <1>3, <2>1, <2>3, ShownRests DEF FollowedInv
<1>8. CASE Fetch \/ RecordSync \/ ReadStatus \/ WriteStatus \/ AskRuntime \/ SyncFails
  <2>1. UNCHANGED <<shown, overtaken, received, outbox, sending>>
    BY <1>8 DEF Fetch, RecordSync, ReadStatus, WriteStatus, AskRuntime, SyncFails, vars
  <2>2. \A e : Arrived(e)' => Arrived(e)
    BY <2>1 DEF Arrived
  <2>3. QED
    BY <1>1, <1>2, <1>3, <2>1, <2>2, ShownRests DEF FollowedInv
<1>9. QED
  BY <1>1, <1>3, <1>5, <1>6, <1>7, <1>8 DEF FollowedInv, ComposedNext, SyncStep, allVars

LEMMA FollowedComposed == ComposedSpec => []FollowedInv
<1>1. ImportsInv /\ FollowedInv /\ [ComposedNext]_allVars => FollowedInv'
  BY FollowedStep DEF ImportsInv
<1>2. QED
  BY <1>1, FollowedInit, ImportsComposed, PTL DEF ComposedSpec

(***************************************************************************)
(* Once every event is delivered and no sync is under way, the page shows  *)
(* of each version and each served feature what the runtime serves, unless *)
(* a given-up apply took effect, an older observation arrived after a      *)
(* newer one or a newer one was left out; whatever else failed, was        *)
(* repeated or came out of order.                                          *)
(***************************************************************************)
THEOREM ShownIsCurrent == ComposedSpec => []ObservedIsServed
<1>1. ImportsInv /\ FollowedInv => ObservedIsServed
  BY FollowedSuffices DEF ImportsInv
<1>2. QED
  BY <1>1, ImportsComposed, FollowedComposed, PTL

==============================================================================
