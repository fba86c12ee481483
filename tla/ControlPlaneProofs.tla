-------------------------- MODULE ControlPlaneProofs --------------------------
(***************************************************************************)
(* Theorems about ControlPlane, for every set of incidents, actions,       *)
(* workers and requests, and every number of crashes: the types, what a    *)
(* resolution and a verification rest on, and that incidents keep their    *)
(* contract.                                                               *)
(***************************************************************************)
EXTENDS ControlPlane, IncidentsProofs, TLAPS

(***************************************************************************)
(* Which job can be at which step, and on which rows.                      *)
(***************************************************************************)
ShapeOK(row) ==
  /\ row.step = "idle" <=> row.job = "none"
  /\ row.step # "idle" => row.inc \in Incidents
  /\ row.job \in {"execute", "recover", "result"} =>
       row.act \in Actions /\ row.inc = IncidentOf[row.act]
  /\ row.step \in {"check", "write"} =>
       row.job \in {"investigate", "recover", "transition"} /\ row.to \in IncidentStatus
  /\ row.job = "investigate" => row.to = "investigating"
  /\ row.job = "recover" => row.to = "resolved"
  /\ row.step = "cancel" => row.job \in {"recover", "transition"}
  /\ row.step \in {"read", "update"} => row.job \in {"investigate", "recover", "reinvestigate"}
  /\ row.step = "reread" => row.job = "investigate"
  /\ row.step = "propose" => row.job \in {"investigate", "reinvestigate"}
  /\ row.step = "complete" => row.job \in {"investigate", "reinvestigate", "recover"}
  /\ row.step = "fail" => row.job = "investigate"
  /\ row.step = "run" => row.job \in {"execute", "result"}
  /\ row.step \in {"evaluate", "mark", "retry"} => row.job = "recover"
  /\ row.step \in {"record", "store"} => row.job \in {"record", "recover"}

ThreadShape ==
  \A t \in Threads :
    /\ ShapeOK(thread[t])
    /\ thread[t].step # "idle" => incident[thread[t].inc].status # "absent"

\* remediation_actions.incident_id REFERENCES incidents.
ForeignKey ==
  \A a \in Actions :
    action[a].status # "absent" => incident[IncidentOf[a]].status # "absent"

TypeInv == TypeOK /\ ThreadShape /\ ForeignKey

\* No statement removes a row or takes an incident back to "absent".
RowsStay ==
  /\ incident' \in [Incidents -> IncidentRow]
  /\ \A i \in Incidents : incident[i].status # "absent" => incident'[i].status # "absent"

(***************************************************************************)
(* One thread moves to a well-formed record while the incidents it and the *)
(* others refer to stay.                                                   *)
(***************************************************************************)
LEMMA OneThreadMoves ==
  ASSUME TypeInv, RowsStay,
         NEW t \in Threads, NEW row \in ThreadRow, ShapeOK(row),
         row.step # "idle" => incident'[row.inc].status # "absent",
         thread' = [thread EXCEPT ![t] = row]
  PROVE  thread' \in [Threads -> ThreadRow] /\ ThreadShape'
<1>1. thread' \in [Threads -> ThreadRow]
  BY DEF TypeInv, TypeOK
<1>2. ASSUME NEW u \in Threads
      PROVE  /\ ShapeOK(thread'[u])
             /\ thread'[u].step # "idle" => incident'[thread'[u].inc].status # "absent"
  <2>1. CASE u = t
    BY <2>1 DEF TypeInv, TypeOK
  <2>2. CASE u # t
    <3>1. thread'[u] = thread[u]
      BY <2>2 DEF TypeInv, TypeOK
    <3>2. QED
      BY <3>1 DEF TypeInv, TypeOK, ThreadShape, ShapeOK, RowsStay
  <2>3. QED
    BY <2>1, <2>2
<1>3. QED
  BY <1>1, <1>2 DEF ThreadShape

LEMMA FinishKeeps ==
  ASSUME TypeInv, RowsStay, NEW t \in Threads, Finish(t)
  PROVE  thread' \in [Threads -> ThreadRow] /\ ThreadShape'
<1>1. Idle \in ThreadRow /\ ShapeOK(Idle)
  BY DEF Idle, ThreadRow, ShapeOK, Reports, Steps, NoRecovery
<1>2. QED
  BY <1>1, OneThreadMoves DEF Finish, Become, Idle

\* A thread that goes on with its job keeps everything but the step.
LEMMA GotoKeeps ==
  ASSUME TypeInv, RowsStay, NEW t \in Threads, NEW step \in Steps,
         Goto(t, step), thread[t].step # "idle",
         ShapeOK([thread[t] EXCEPT !.step = step])
  PROVE  thread' \in [Threads -> ThreadRow] /\ ThreadShape'
<1> DEFINE row == [thread[t] EXCEPT !.step = step]
<1>1. row \in ThreadRow /\ row.inc = thread[t].inc
  BY DEF TypeInv, TypeOK, ThreadRow
<1>2. thread' = [thread EXCEPT ![t] = row]
  BY DEF Goto, Become
<1>3. incident'[row.inc].status # "absent"
  BY <1>1 DEF TypeInv, TypeOK, ThreadShape, ShapeOK, RowsStay
<1>4. QED
  BY <1>1, <1>2, <1>3, OneThreadMoves

-----------------------------------------------------------------------------
(* The statements on the tables keep the types                             *)

LEMMA SetIncidentKeeps ==
  ASSUME TypeInv, NEW i \in Incidents, NEW row \in IncidentRow,
         row.status = incident[i].status \/ row.status # "absent",
         SetIncident(i, row)
  PROVE  RowsStay
BY DEF TypeInv, TypeOK, RowsStay, SetIncident

LEMMA IncidentStatementsKeep ==
  ASSUME TypeInv, NEW i \in Incidents
  PROVE  /\ CreateIncident(i) => RowsStay
         /\ ClaimInvestigation(i) => RowsStay
         /\ CompleteInvestigation(i) => RowsStay
         /\ FailInvestigation(i) => RowsStay
         /\ InvestigationLeaseExpires(i) => RowsStay
         /\ \A n \in Nat : UpdateEvidence(i, n) => RowsStay
         /\ \A n \in Nat : RecordRecovery(i, n) => RowsStay
         /\ \A to \in IncidentStatus : TransitionRow(i, to) => RowsStay
         /\ UNCHANGED incident => RowsStay
<1>0. incident[i] \in IncidentRow
  BY DEF TypeInv, TypeOK
<1> USE <1>0, SetIncidentKeeps DEF IncidentRow, Lease, InvestigationStatus
<1>1. CreateIncident(i) => RowsStay
  BY DEF CreateIncident, AbsentIncident, NoRecovery, IncidentStatus, ActiveStatus
<1>2. ClaimInvestigation(i) => RowsStay
  BY DEF ClaimInvestigation
<1>3. CompleteInvestigation(i) => RowsStay
  BY DEF CompleteInvestigation
<1>4. FailInvestigation(i) => RowsStay
  BY DEF FailInvestigation
<1>5. InvestigationLeaseExpires(i) => RowsStay
  BY DEF InvestigationLeaseExpires
<1>6. \A n \in Nat : UpdateEvidence(i, n) => RowsStay
  BY DEF UpdateEvidence
<1>7. \A n \in Nat : RecordRecovery(i, n) => RowsStay
  BY DEF RecordRecovery
<1>8. \A to \in IncidentStatus : TransitionRow(i, to) => RowsStay
  <2>1. NextEpoch(i) \in Nat
    BY MaxEpochType DEF NextEpoch
  <2>2. QED
    BY <2>1 DEF TransitionRow, IncidentStatus, ActiveStatus, InactiveStatus
<1>9. UNCHANGED incident => RowsStay
  BY DEF RowsStay, TypeInv, TypeOK
<1>10. QED
  BY <1>1, <1>2, <1>3, <1>4, <1>5, <1>6, <1>7, <1>8, <1>9

\* Whose action may be in the table.
MayExist(a) ==
  action[a].status # "absent" \/ incident[IncidentOf[a]].status # "absent"

\* The types stay, and an action is inserted only for an existing incident.
ActionsOK ==
  /\ action' \in [Actions -> ActionRow]
  /\ observed' \in [Actions -> Observation]
  /\ \A a \in Actions : action'[a].status # "absent" => MayExist(a)

LEMMA SetActionKeeps ==
  ASSUME TypeInv, NEW a \in Actions, NEW row \in ActionRow, SetAction(a, row)
  PROVE  (row.status # "absent" => MayExist(a)) => ActionsOK
BY DEF TypeInv, TypeOK, ActionsOK, SetAction, MayExist

LEMMA ActionStatementsKeep ==
  ASSUME TypeInv, NEW a \in Actions
  PROVE  /\ incident[IncidentOf[a]].status # "absent" =>
              \A adapter \in Adapter : Propose(a, adapter) => ActionsOK
         /\ \A d \in {"approve", "reject"} : Decide(a, d) => ActionsOK
         /\ ApproveAndStartExternal(a) => ActionsOK
         /\ ClaimApproved(a) => ActionsOK
         /\ \A r \in ExecutionResult : CompleteExecution(a, r) => ActionsOK
         /\ ClaimRecovery(a) => ActionsOK
         /\ CancelStaleProposal(a) => ActionsOK
         /\ RescheduleRecovery(a) => ActionsOK
         /\ MarkRecoveryVerified(a) => ActionsOK
         /\ \A removed \in BOOLEAN : RuntimeReports(a, removed) => ActionsOK
         /\ SetAction(a, [action[a] EXCEPT !.lease = "expired"]) => ActionsOK
<1>0. action[a] \in ActionRow
  BY DEF TypeInv, TypeOK
<1>u. UNCHANGED <<action, observed>> => ActionsOK
  BY DEF TypeInv, TypeOK, ActionsOK, MayExist
<1> USE <1>0, SetActionKeeps DEF ActionRow, ActionStatus, Finished, Lease, MayExist
<1>1. incident[IncidentOf[a]].status # "absent" =>
        \A adapter \in Adapter : Propose(a, adapter) => ActionsOK
  BY <1>u DEF Propose, AbsentAction, ActionsOK
<1>2. \A d \in {"approve", "reject"} : Decide(a, d) => ActionsOK
  BY DEF Decide, Decidable
<1>3. ApproveAndStartExternal(a) => ActionsOK
  <2> SUFFICES ASSUME ApproveAndStartExternal(a) PROVE ActionsOK
    OBVIOUS
  <2> DEFINE row == [action[a] EXCEPT !.decision = "approve", !.status = "executing",
                                      !.tracked = TRUE, !.lease = "none"]
  <2>1. row \in ActionRow
    OBVIOUS
  <2>2. action' = [action EXCEPT ![a] = row]
    BY DEF ApproveAndStartExternal
  <2>3. observed' \in [Actions -> Observation]
    BY DEF ApproveAndStartExternal, TypeInv, TypeOK
  <2> HIDE DEF row
  <2>4. QED
    BY <2>1, <2>2, <2>3
    DEF ActionsOK, MayExist, TypeInv, TypeOK, ApproveAndStartExternal, Decidable
<1>4. ClaimApproved(a) => ActionsOK
  <2> SUFFICES ASSUME ClaimApproved(a) PROVE ActionsOK
    OBVIOUS
  <2> DEFINE row == [action[a] EXCEPT !.status = "executing", !.lease = "live"]
  <2>1. row \in ActionRow
    OBVIOUS
  <2>2. action' = [action EXCEPT ![a] = row]
    BY DEF ClaimApproved
  <2>3. observed' \in [Actions -> Observation]
    BY DEF ClaimApproved, TypeInv, TypeOK
  <2> HIDE DEF row
  <2>4. QED
    BY <2>1, <2>2, <2>3
    DEF ActionsOK, MayExist, TypeInv, TypeOK, ClaimApproved, ExecutionClaimable
<1>5. \A r \in ExecutionResult : CompleteExecution(a, r) => ActionsOK
  BY <1>u DEF CompleteExecution, ExecutionResult
<1>6. ClaimRecovery(a) => ActionsOK
  BY DEF ClaimRecovery
<1>7. CancelStaleProposal(a) => ActionsOK
  BY DEF CancelStaleProposal
<1>8. RescheduleRecovery(a) => ActionsOK
  BY <1>u DEF RescheduleRecovery
<1>9. MarkRecoveryVerified(a) => ActionsOK
  <2> DEFINE row == [action[a] EXCEPT !.verified = TRUE, !.lease = "none"]
  <2>1. row \in ActionRow /\ row.status = action[a].status
    OBVIOUS
  <2>2. MarkRecoveryVerified(a) => SetAction(a, row)
    BY DEF MarkRecoveryVerified
  <2> HIDE DEF row
  <2>3. QED
    BY <2>1, <2>2
<1>10. \A removed \in BOOLEAN : RuntimeReports(a, removed) => ActionsOK
  BY DEF RuntimeReports, Observation, RemovalReported, ActionsOK, TypeInv, TypeOK
<1>11. SetAction(a, [action[a] EXCEPT !.lease = "expired"]) => ActionsOK
  OBVIOUS
<1>12. QED
  BY <1>1, <1>2, <1>3, <1>4, <1>5, <1>6, <1>7, <1>8, <1>9, <1>10, <1>11

LEMMA CancellationKeeps ==
  ASSUME TypeInv, NEW i \in Incidents, CancelForIncident(i)
  PROVE  ActionsOK
<1>1. \A a \in Actions : [action[a] EXCEPT !.status = "cancelled", !.lease = "none"] \in ActionRow
  BY DEF TypeInv, TypeOK, ActionRow, ActionStatus, Finished, Lease
<1>2. action' \in [Actions -> ActionRow]
  BY <1>1 DEF CancelForIncident, TypeInv, TypeOK
<1>3. QED
  BY <1>2 DEF ActionsOK, MayExist, CancelForIncident, TypeInv, TypeOK

-----------------------------------------------------------------------------
(* Every step keeps the types                                              *)

\* What a step must establish.
Kept ==
  /\ RowsStay
  /\ ActionsOK
  /\ thread' \in [Threads -> ThreadRow]
  /\ ThreadShape'
  /\ crashes' \in Nat

LEMMA KeptTypeInv ==
  ASSUME TypeInv, Kept
  PROVE  TypeInv'
<1>1. ForeignKey'
  BY IncidentOfType DEF Kept, TypeInv, ForeignKey, RowsStay, ActionsOK, MayExist
<1>2. QED
  BY <1>1 DEF Kept, TypeInv, TypeOK, RowsStay, ActionsOK

LEMMA UnchangedTables ==
  ASSUME TypeInv
  PROVE  /\ UNCHANGED incident => RowsStay
         /\ UNCHANGED <<action, observed>> => ActionsOK
         /\ UNCHANGED crashes => crashes' \in Nat
BY DEF TypeInv, TypeOK, RowsStay, ActionsOK, MayExist

\* The rows a thread that has work refers to.
LEMMA ThreadRows ==
  ASSUME TypeInv, NEW t \in Threads
  PROVE  /\ thread[t] \in ThreadRow
         /\ ShapeOK(thread[t])
         /\ thread[t].step # "idle" =>
              /\ thread[t].inc \in Incidents
              /\ incident[thread[t].inc] \in IncidentRow
              /\ incident[thread[t].inc].status \in IncidentStatus
BY DEF TypeInv, TypeOK, ThreadShape, ShapeOK, IncidentRow

\* The same with any record the thread may become.
LEMMA BecomeKeeps ==
  ASSUME TypeInv, RowsStay, NEW t \in Threads, NEW row \in ThreadRow,
         ShapeOK(row), Become(t, row),
         \/ row.step = "idle"
         \/ row.inc = thread[t].inc /\ thread[t].step # "idle"
         \/ incident'[row.inc].status # "absent"
  PROVE  thread' \in [Threads -> ThreadRow] /\ ThreadShape'
<1>1. row.step # "idle" => incident'[row.inc].status # "absent"
  BY ThreadRows DEF RowsStay, TypeInv, ThreadShape
<1>2. QED
  BY <1>1, OneThreadMoves DEF Become

LEMMA RaiseKeeps ==
  ASSUME TypeInv, RowsStay, NEW t \in Threads, thread[t].step # "idle", Raise(t)
  PROVE  thread' \in [Threads -> ThreadRow] /\ ThreadShape'
<1>1. CASE thread[t].job = "investigate"
  <2>1. Goto(t, "fail")
    BY <1>1 DEF Raise
  <2>2. ShapeOK([thread[t] EXCEPT !.step = "fail"])
    BY <1>1, ThreadRows DEF ShapeOK, ThreadRow
  <2>3. QED
    BY <2>1, <2>2, GotoKeeps DEF Steps
<1>2. CASE thread[t].job = "recover"
  <2>1. Goto(t, "retry")
    BY <1>2 DEF Raise
  <2>2. ShapeOK([thread[t] EXCEPT !.step = "retry"])
    BY <1>2, ThreadRows DEF ShapeOK, ThreadRow
  <2>3. QED
    BY <2>1, <2>2, GotoKeeps DEF Steps
<1>3. CASE thread[t].job \notin {"investigate", "recover"}
  BY <1>3, FinishKeeps DEF Raise
<1>4. QED
  BY <1>1, <1>2, <1>3

LEMMA TransitionedKeeps ==
  ASSUME TypeInv, RowsStay, NEW t \in Threads, thread[t].step \in {"check", "write"},
         Transitioned(t)
  PROVE  thread' \in [Threads -> ThreadRow] /\ ThreadShape'
<1>1. CASE thread[t].job = "investigate"
  <2>1. Goto(t, "read")
    BY <1>1, ThreadRows DEF Transitioned, ShapeOK, InactiveStatus
  <2>2. ShapeOK([thread[t] EXCEPT !.step = "read"])
    BY <1>1, ThreadRows DEF ShapeOK, ThreadRow
  <2>3. QED
    BY <2>1, <2>2, GotoKeeps DEF Steps
<1>2. CASE thread[t].job # "investigate" /\ thread[t].to \in InactiveStatus
  <2>1. Goto(t, "cancel")
    BY <1>2 DEF Transitioned
  <2>2. ShapeOK([thread[t] EXCEPT !.step = "cancel"])
    BY <1>2, ThreadRows DEF ShapeOK, ThreadRow
  <2>3. QED
    BY <2>1, <2>2, GotoKeeps DEF Steps
<1>3. CASE thread[t].job # "investigate" /\ thread[t].to \notin InactiveStatus
  BY <1>3, FinishKeeps DEF Transitioned
<1>4. QED
  BY <1>1, <1>2, <1>3

-----------------------------------------------------------------------------
(* Each step of Next establishes Kept                                      *)

LEMMA ClaimsKeep ==
  ASSUME TypeInv, NEW t \in Workers, WorkerClaims(t)
  PROVE  Kept
<1>0. t \in Threads
  BY DEF Threads
<1>1. ASSUME NEW i \in Incidents, StartInvestigation(t, i) PROVE Kept
  <2> DEFINE row == [Idle EXCEPT !.job = "investigate", !.inc = i, !.to = "investigating",
                                 !.step = IF incident[i].status = "open" THEN "check" ELSE "read"]
  <2>1. RowsStay
    BY <1>1, IncidentStatementsKeep DEF StartInvestigation
  <2>2. row \in ThreadRow /\ ShapeOK(row)
    BY DEF Idle, ThreadRow, ShapeOK, Reports, Steps, NoRecovery, WorkerJobs,
           IncidentStatus, ActiveStatus
  <2>3. row.inc = i /\ incident'[i].status # "absent"
    BY <1>1, <2>1 DEF StartInvestigation, ClaimInvestigation, IsActive, ActiveStatus,
                      RowsStay, Idle
  <2>4. Become(t, row)
    BY <1>1 DEF StartInvestigation, Begin
  <2> HIDE DEF row
  <2>5. thread' \in [Threads -> ThreadRow] /\ ThreadShape'
    BY <1>0, <2>1, <2>2, <2>3, <2>4, BecomeKeeps
  <2>6. QED
    BY <1>1, <2>1, <2>5, UnchangedTables DEF StartInvestigation, Kept
<1>2. ASSUME NEW a \in Actions, StartExecution(t, a) PROVE Kept
  <2> DEFINE row == [Idle EXCEPT !.job = "execute", !.act = a,
                                 !.inc = IncidentOf[a], !.step = "run"]
  <2>1. RowsStay /\ IncidentOf[a] \in Incidents
    BY <1>2, UnchangedTables, IncidentOfType DEF StartExecution
  <2>2. row \in ThreadRow /\ ShapeOK(row)
    BY <2>1 DEF Idle, ThreadRow, ShapeOK, Reports, Steps, NoRecovery, WorkerJobs
  <2>3. row.inc = IncidentOf[a] /\ incident'[IncidentOf[a]].status # "absent"
    BY <1>2, <2>1 DEF StartExecution, ClaimApproved, ExecutionClaimable, ForActiveIncident,
                      IsActive, ActiveStatus, RowsStay, Idle
  <2>4. Become(t, row)
    BY <1>2 DEF StartExecution, Begin
  <2> HIDE DEF row
  <2>5. thread' \in [Threads -> ThreadRow] /\ ThreadShape'
    BY <1>0, <2>1, <2>2, <2>3, <2>4, BecomeKeeps
  <2>6. QED
    BY <1>2, <2>1, <2>5, UnchangedTables, ActionStatementsKeep DEF StartExecution, Kept
<1>3. ASSUME NEW a \in Actions, StartRecovery(t, a) PROVE Kept
  <2> DEFINE row == [Idle EXCEPT !.job = "recover", !.act = a, !.to = "resolved",
                                 !.inc = IncidentOf[a], !.step = "evaluate"]
  <2>1. RowsStay /\ IncidentOf[a] \in Incidents
    BY <1>3, UnchangedTables, IncidentOfType DEF StartRecovery
  <2>2. row \in ThreadRow /\ ShapeOK(row)
    BY <2>1 DEF Idle, ThreadRow, ShapeOK, Reports, Steps, NoRecovery, WorkerJobs,
                IncidentStatus, InactiveStatus
  <2>3. row.inc = IncidentOf[a] /\ incident'[IncidentOf[a]].status # "absent"
    BY <1>3, <2>1 DEF StartRecovery, ClaimRecovery, ForActiveIncident,
                      IsActive, ActiveStatus, RowsStay, Idle
  <2>4. Become(t, row)
    BY <1>3 DEF StartRecovery, Begin
  <2> HIDE DEF row
  <2>5. thread' \in [Threads -> ThreadRow] /\ ThreadShape'
    BY <1>0, <2>1, <2>2, <2>3, <2>4, BecomeKeeps
  <2>6. QED
    BY <1>3, <2>1, <2>5, UnchangedTables, ActionStatementsKeep DEF StartRecovery, Kept
<1>4. QED
  BY <1>1, <1>2, <1>3 DEF WorkerClaims

LEMMA RequestsKeep ==
  ASSUME TypeInv, NEW t \in Handlers, RequestArrives(t)
  PROVE  Kept
<1>0. t \in Threads
  BY DEF Threads
<1>1. ASSUME NEW row \in ThreadRow, ShapeOK(row), row.inc \in Incidents,
             incident[row.inc].status # "absent", Begin(t, row), UNCHANGED <<tables, crashes>>
      PROVE  Kept
  <2>1. RowsStay /\ ActionsOK /\ crashes' \in Nat
    BY <1>1, UnchangedTables DEF tables
  <2>2. thread' \in [Threads -> ThreadRow] /\ ThreadShape'
    BY <1>0, <1>1, <2>1, BecomeKeeps DEF Begin, RowsStay
  <2>3. QED
    BY <2>1, <2>2 DEF Kept
<1> USE DEF Idle, ThreadRow, ShapeOK, Reports, Steps, HandlerJobs, NoRecovery
<1>2. ASSUME NEW i \in Incidents, NEW to \in IncidentStatus, RequestTransition(t, i, to)
      PROVE  Kept
  BY <1>1, <1>2 DEF RequestTransition
<1>3. ASSUME NEW i \in Incidents, RequestRecord(t, i) PROVE Kept
  <2>1. incident[i].epoch \in Nat
    BY DEF TypeInv, TypeOK, IncidentRow
  <2>2. QED
    BY <1>1, <1>3, <2>1 DEF RequestRecord
<1>4. ASSUME NEW i \in Incidents, RequestInvestigation(t, i) PROVE Kept
  <2>1. incident[i].status \in IncidentStatus
    BY <1>4 DEF TypeInv, TypeOK, IncidentRow, RequestInvestigation
  <2>2. QED
    BY <1>1, <1>4, <2>1 DEF RequestInvestigation
<1>5. ASSUME NEW a \in Actions, RequestResult(t, a) PROVE Kept
  BY <1>1, <1>5, IncidentOfType DEF RequestResult, TypeInv, ForeignKey
<1>6. QED
  BY <1>2, <1>3, <1>4, <1>5 DEF RequestArrives

\* The steps of a running thread, in the order of ThreadStep.
LEMMA ThreadStepsKeep ==
  ASSUME TypeInv, NEW t \in Threads, ThreadStep(t)
  PROVE  Kept
<1> DEFINE self == thread[t]
           Moved == thread' \in [Threads -> ThreadRow] /\ ThreadShape'
<1>0. self \in ThreadRow /\ ShapeOK(self)
  BY ThreadRows
<1>r. self.step # "idle" =>
        /\ self.inc \in Incidents
        /\ incident[self.inc] \in IncidentRow
        /\ incident[self.inc].status \in IncidentStatus
  BY ThreadRows
<1>1. ASSUME CheckTransition(t) PROVE Kept
  <2>1. RowsStay /\ ActionsOK /\ crashes' \in Nat
    BY <1>1, UnchangedTables DEF CheckTransition, tables
  <2>2. CASE Transitioned(t)
    BY <1>1, <2>1, <2>2, TransitionedKeeps DEF CheckTransition, At, Kept
  <2>3. CASE Goto(t, "write")
    <3>1. ShapeOK([self EXCEPT !.step = "write"])
      BY <1>1, <1>0 DEF CheckTransition, At, ShapeOK, ThreadRow
    <3>2. QED
      BY <1>1, <2>1, <2>3, <3>1, GotoKeeps DEF CheckTransition, At, Kept, Steps
  <2>4. CASE Raise(t)
    BY <1>1, <2>1, <2>4, RaiseKeeps DEF CheckTransition, At, Kept
  <2>5. QED
    BY <1>1, <2>2, <2>3, <2>4 DEF CheckTransition
<1>2. ASSUME WriteTransition(t) PROVE Kept
  <2>1. self.inc \in Incidents /\ self.to \in IncidentStatus /\ self.step = "write"
    BY <1>2, <1>0, <1>r DEF WriteTransition, At, ShapeOK
  <2>2. RowsStay /\ ActionsOK /\ crashes' \in Nat
    BY <1>2, <2>1, UnchangedTables, IncidentStatementsKeep DEF WriteTransition
  <2>3. QED
    BY <1>2, <2>1, <2>2, TransitionedKeeps, RaiseKeeps DEF WriteTransition, Kept
<1>3. ASSUME CancelActions(t) PROVE Kept
  <2>1. self.inc \in Incidents /\ self.step = "cancel"
    BY <1>3, <1>r DEF CancelActions, At
  <2>2. RowsStay /\ ActionsOK /\ crashes' \in Nat
    BY <1>3, <2>1, UnchangedTables, CancellationKeeps DEF CancelActions
  <2>3. CASE self.job = "recover"
    <3>1. ShapeOK([self EXCEPT !.step = "complete"])
      BY <2>1, <2>3, <1>0 DEF ShapeOK, ThreadRow
    <3>2. QED
      BY <1>3, <2>1, <2>2, <2>3, <3>1, GotoKeeps DEF CancelActions, Kept, Steps
  <2>4. CASE self.job # "recover"
    BY <1>3, <2>2, <2>4, FinishKeeps DEF CancelActions, Kept
  <2>5. QED
    BY <2>3, <2>4
<1>4. ASSUME ReadIncident(t) PROVE Kept
  <2> DEFINE row == [self EXCEPT !.step = "update", !.recovery = incident[self.inc].recovery]
  <2>1. RowsStay /\ ActionsOK /\ crashes' \in Nat
    BY <1>4, UnchangedTables DEF ReadIncident, tables
  <2>2. self.step = "read" /\ incident[self.inc].recovery \in Nat
    BY <1>4, <1>r DEF ReadIncident, At, IncidentRow
  <2>3. row \in ThreadRow /\ ShapeOK(row) /\ row.inc = self.inc
    BY <2>2, <1>0 DEF ShapeOK, ThreadRow, Steps
  <2>4. Become(t, row)
    BY <1>4 DEF ReadIncident
  <2> HIDE DEF row
  <2>5. QED
    BY <2>1, <2>2, <2>3, <2>4, BecomeKeeps DEF Kept
<1>5. ASSUME UpdateInvestigation(t) PROVE Kept
  <2>1. PICK report \in ReportsFor(self.recovery) :
          /\ UpdateEvidence(self.inc, self.recovery)
          /\ Become(t, [self EXCEPT !.report = report, !.recovery = NoRecovery,
                                    !.step = AfterReport(self.job, report)])
    BY <1>5 DEF UpdateInvestigation
  <2> DEFINE row == [self EXCEPT !.report = report, !.recovery = NoRecovery,
                                 !.step = AfterReport(self.job, report)]
  <2>2. self.step = "update" /\ self.inc \in Incidents /\ self.recovery \in Nat
    BY <1>5, <1>0, <1>r DEF UpdateInvestigation, At, ThreadRow
  <2>3. RowsStay /\ ActionsOK /\ crashes' \in Nat
    BY <1>5, <2>1, <2>2, IncidentStatementsKeep, UnchangedTables DEF UpdateInvestigation
  <2>4. report \in Reports /\ AfterReport(self.job, report) \in
          {"reread", "propose", "check", "retry"}
    BY <2>2, <1>0 DEF ReportsFor, Reports, AfterReport
  <2>5. row \in ThreadRow
    BY <2>4, <1>0 DEF ThreadRow, Steps, NoRecovery
  <2>6. ShapeOK(row) /\ row.inc = self.inc
    BY <2>2, <2>4, <1>0
    DEF ShapeOK, ThreadRow, AfterReport, IncidentStatus, InactiveStatus
  <2> HIDE DEF row
  <2>7. Become(t, row)
    BY <2>1 DEF row
  <2>8. QED
    BY <2>2, <2>3, <2>5, <2>6, <2>7, BecomeKeeps DEF Kept
<1>6. ASSUME InvestigationFails(t) PROVE Kept
  BY <1>6, UnchangedTables, RaiseKeeps DEF InvestigationFails, At, Kept, tables
<1>7. ASSUME RereadIncident(t) PROVE Kept
  <2> DEFINE row == [self EXCEPT !.step = "propose", !.status = incident[self.inc].status]
  <2>1. RowsStay /\ ActionsOK /\ crashes' \in Nat
    BY <1>7, UnchangedTables DEF RereadIncident, tables
  <2>2. self.step = "reread" /\ incident[self.inc].status \in IncidentStatus
    BY <1>7, <1>r DEF RereadIncident, At
  <2>3. row \in ThreadRow /\ ShapeOK(row) /\ row.inc = self.inc
    BY <2>2, <1>0 DEF ShapeOK, ThreadRow, Steps
  <2>4. Become(t, row)
    BY <1>7 DEF RereadIncident
  <2> HIDE DEF row
  <2>5. QED
    BY <2>1, <2>2, <2>3, <2>4, BecomeKeeps DEF Kept
<1>8. ASSUME ProposeAction(t) PROVE Kept
  <2>1. self.step = "propose" /\ RowsStay /\ crashes' \in Nat
    BY <1>8, UnchangedTables DEF ProposeAction, At
  <2>2. ActionsOK
    <3>1. CASE UNCHANGED <<action, observed>>
      BY <3>1, UnchangedTables
    <3>2. ASSUME NEW a \in Actions, NEW adapter \in Adapter,
                 IncidentOf[a] = self.inc, Propose(a, adapter)
          PROVE  ActionsOK
      <4>1. incident[IncidentOf[a]].status # "absent"
        BY <2>1, <3>2, <1>r DEF IncidentStatus, ActiveStatus, InactiveStatus
      <4>2. QED
        BY <3>2, <4>1, ActionStatementsKeep
    <3>3. QED
      BY <1>8, <3>1, <3>2 DEF ProposeAction
  <2>3. ShapeOK([self EXCEPT !.step = "complete"])
    BY <2>1, <1>0 DEF ShapeOK, ThreadRow
  <2>4. QED
    BY <1>8, <2>1, <2>2, <2>3, GotoKeeps DEF ProposeAction, Kept, Steps
<1>9. ASSUME Complete(t) PROVE Kept
  <2>1. self.step = "complete" /\ self.inc \in Incidents
    BY <1>9, <1>r DEF Complete, At
  <2>2. RowsStay /\ ActionsOK /\ crashes' \in Nat
    BY <1>9, <2>1, UnchangedTables, IncidentStatementsKeep DEF Complete
  <2>3. CASE self.job = "recover"
    <3>1. ShapeOK([self EXCEPT !.step = "mark"])
      BY <2>1, <2>3, <1>0 DEF ShapeOK, ThreadRow
    <3>2. QED
      BY <1>9, <2>1, <2>2, <2>3, <3>1, GotoKeeps DEF Complete, Kept, Steps
  <2>4. CASE self.job # "recover"
    BY <1>9, <2>2, <2>4, FinishKeeps DEF Complete, Kept
  <2>5. QED
    BY <2>3, <2>4
<1>10. ASSUME Fail(t) PROVE Kept
  BY <1>10, <1>r, UnchangedTables, IncidentStatementsKeep, FinishKeeps DEF Fail, At, Kept
<1>11. ASSUME FinishExecution(t) PROVE Kept
  <2>1. self.step = "run" /\ self.act \in Actions
    BY <1>11, <1>0 DEF FinishExecution, At, ShapeOK
  <2>2. PICK result \in ResultsFor(t) : CompleteExecution(self.act, result)
    BY <1>11 DEF FinishExecution
  <2>3. result \in ExecutionResult
    BY <2>2 DEF ResultsFor, ExecutionResult
  <2>4. QED
    BY <1>11, <2>1, <2>2, <2>3, UnchangedTables, ActionStatementsKeep, FinishKeeps
    DEF FinishExecution, Kept
<1>12. ASSUME Evaluate(t) PROVE Kept
  <2>1. self.step = "evaluate" /\ RowsStay /\ ActionsOK /\ crashes' \in Nat
    BY <1>12, UnchangedTables DEF Evaluate, At, tables
  <2>2. CASE Goto(t, "retry")
    <3>1. ShapeOK([self EXCEPT !.step = "retry"])
      BY <2>1, <1>0 DEF ShapeOK, ThreadRow
    <3>2. QED
      BY <2>1, <2>2, <3>1, GotoKeeps DEF Kept, Steps
  <2>3. CASE Become(t, [self EXCEPT !.step = "record", !.recovery = incident[self.inc].epoch])
    <3> DEFINE row == [self EXCEPT !.step = "record", !.recovery = incident[self.inc].epoch]
    <3>1. incident[self.inc].epoch \in Nat
      BY <2>1, <1>r DEF IncidentRow
    <3>2. row \in ThreadRow /\ ShapeOK(row) /\ row.inc = self.inc
      BY <2>1, <3>1, <1>0 DEF ShapeOK, ThreadRow, Steps
    <3>3. Become(t, row)
      BY <2>3
    <3> HIDE DEF row
    <3>4. QED
      BY <2>1, <3>2, <3>3, BecomeKeeps DEF Kept
  <2>4. QED
    BY <1>12, <2>2, <2>3 DEF Evaluate
<1>13. ASSUME CheckRecord(t) PROVE Kept
  <2>1. self.step = "record" /\ RowsStay /\ ActionsOK /\ crashes' \in Nat
    BY <1>13, UnchangedTables DEF CheckRecord, At, tables
  <2>2. CASE Raise(t)
    BY <2>1, <2>2, RaiseKeeps DEF Kept
  <2>3. CASE Goto(t, "store")
    <3>1. ShapeOK([self EXCEPT !.step = "store"])
      BY <2>1, <1>0 DEF ShapeOK, ThreadRow
    <3>2. QED
      BY <2>1, <2>3, <3>1, GotoKeeps DEF Kept, Steps
  <2>4. QED
    BY <1>13, <2>2, <2>3 DEF CheckRecord
<1>14. ASSUME StoreRecovery(t) PROVE Kept
  <2>1. self.step = "store" /\ self.inc \in Incidents /\ self.recovery \in Nat
    BY <1>14, <1>0, <1>r DEF StoreRecovery, At, ThreadRow
  <2>2. RowsStay /\ ActionsOK /\ crashes' \in Nat
    BY <1>14, <2>1, UnchangedTables, IncidentStatementsKeep DEF StoreRecovery
  <2>3. CASE self.job = "recover"
    <3>1. ShapeOK([self EXCEPT !.step = "read"])
      BY <2>1, <2>3, <1>0 DEF ShapeOK, ThreadRow
    <3>2. QED
      BY <1>14, <2>1, <2>2, <2>3, <3>1, GotoKeeps DEF StoreRecovery, Kept, Steps
  <2>4. CASE self.job # "recover"
    BY <1>14, <2>2, <2>4, FinishKeeps DEF StoreRecovery, Kept
  <2>5. QED
    BY <2>3, <2>4
<1>15. ASSUME MarkVerified(t) PROVE Kept
  <2>1. self.act \in Actions
    BY <1>15, <1>0 DEF MarkVerified, At, ShapeOK
  <2>2. QED
    BY <1>15, <2>1, UnchangedTables, ActionStatementsKeep, FinishKeeps DEF MarkVerified, Kept
<1>16. ASSUME Retry(t) PROVE Kept
  <2>1. self.act \in Actions
    BY <1>16, <1>0 DEF Retry, At, ShapeOK
  <2>2. QED
    BY <1>16, <2>1, UnchangedTables, ActionStatementsKeep, FinishKeeps DEF Retry, Kept
<1>17. QED
  BY <1>1, <1>2, <1>3, <1>4, <1>5, <1>6, <1>7, <1>8, <1>9, <1>10, <1>11, <1>12, <1>13,
     <1>14, <1>15, <1>16 DEF ThreadStep

\* Steps of the environment and crashes.
LEMMA EnvironmentKeeps ==
  ASSUME TypeInv, Environment
  PROVE  Kept
<1>1. ASSUME RowsStay, UNCHANGED thread
      PROVE  thread' \in [Threads -> ThreadRow] /\ ThreadShape'
  BY <1>1 DEF TypeInv, TypeOK, ThreadShape, ShapeOK, RowsStay
<1>2. ASSUME NEW i \in Incidents, MonitorTriggers(i) \/ IncidentLeaseExpires(i)
      PROVE  Kept
  BY <1>1, <1>2, UnchangedTables, IncidentStatementsKeep
  DEF MonitorTriggers, IncidentLeaseExpires, Kept
<1>3. ASSUME NEW a \in Actions, NEW d \in {"approve", "reject"}, EngineerDecides(a, d)
      PROVE  Kept
  BY <1>1, <1>3, UnchangedTables, ActionStatementsKeep DEF EngineerDecides, Kept
<1>4. ASSUME NEW a \in Actions, PullRequestMerged(a) \/ ManifestMovedOn(a) \/ Reported(a)
      PROVE  Kept
  BY <1>1, <1>4, UnchangedTables, ActionStatementsKeep
  DEF PullRequestMerged, ManifestMovedOn, Reported, Kept
<1>5. ASSUME NEW a \in Actions, ActionLeaseExpires(a) PROVE Kept
  <2>1. RowsStay /\ ActionsOK /\ crashes' \in Nat
    BY <1>5, UnchangedTables, ActionStatementsKeep DEF ActionLeaseExpires
  <2>2. \A t \in Threads : thread'[t] = thread[t] \/ thread'[t] = [thread[t] EXCEPT !.lost = TRUE]
    BY <1>5 DEF ActionLeaseExpires
  <2>3. \A t \in Threads : [thread[t] EXCEPT !.lost = TRUE] \in ThreadRow
    BY ThreadRows DEF ThreadRow
  <2>4. thread' \in [Threads -> ThreadRow]
    <3>1. thread' = [t \in Threads |-> thread'[t]]
      BY <1>5 DEF ActionLeaseExpires
    <3>2. QED
      BY <2>2, <2>3, <3>1, ThreadRows
  <2>5. ASSUME NEW t \in Threads
        PROVE  /\ ShapeOK(thread'[t])
               /\ thread'[t].step # "idle" => incident'[thread'[t].inc].status # "absent"
    <3>1. /\ thread'[t].step = thread[t].step /\ thread'[t].job = thread[t].job
          /\ thread'[t].inc = thread[t].inc   /\ thread'[t].act = thread[t].act
          /\ thread'[t].to = thread[t].to
      BY <2>2, ThreadRows DEF ThreadRow
    <3>2. QED
      BY <2>1, <3>1, ThreadRows DEF ShapeOK, RowsStay, TypeInv, ThreadShape
  <2>6. QED
    BY <2>1, <2>4, <2>5 DEF Kept, ThreadShape
<1>6. QED
  BY <1>2, <1>3, <1>4, <1>5 DEF Environment

LEMMA CrashKeeps ==
  ASSUME TypeInv, NEW t \in Threads, Crash(t)
  PROVE  Kept
<1>1. RowsStay /\ ActionsOK
  BY UnchangedTables DEF Crash, tables
<1>2. crashes' \in Nat
  BY DEF Crash, TypeInv, TypeOK
<1>3. QED
  BY <1>1, <1>2, FinishKeeps DEF Crash, Kept

LEMMA InitTypeInv == Init => TypeInv
<1> SUFFICES ASSUME Init PROVE TypeInv
  OBVIOUS
<1> USE DEF Init, IncidentsInit, RemediationInit
<1>1. incident \in [Incidents -> IncidentRow]
  BY DEF AbsentIncident, IncidentRow, InvestigationStatus, Lease, NoRecovery
<1>2. action \in [Actions -> ActionRow] /\ observed \in [Actions -> Observation]
  BY DEF AbsentAction, ActionRow, Adapter, Lease, Observation
<1>3. Idle \in ThreadRow /\ ShapeOK(Idle) /\ Idle.step = "idle"
  BY DEF Idle, ThreadRow, ShapeOK, Reports, Steps, NoRecovery
<1>4. thread \in [Threads -> ThreadRow] /\ ThreadShape
  BY <1>3 DEF ThreadShape
<1>5. ForeignKey
  BY DEF ForeignKey, AbsentAction
<1>6. QED
  BY <1>1, <1>2, <1>4, <1>5 DEF TypeInv, TypeOK

LEMMA NextTypeInv == TypeInv /\ [Next]_vars => TypeInv'
<1> SUFFICES ASSUME TypeInv, [Next]_vars PROVE TypeInv'
  OBVIOUS
<1>1. CASE UNCHANGED vars
  BY <1>1 DEF vars, TypeInv, TypeOK, ThreadShape, ForeignKey
<1>2. CASE Next
  <2>1. Kept
    BY <1>2, ThreadStepsKeep, CrashKeeps, ClaimsKeep, RequestsKeep, EnvironmentKeeps DEF Next
  <2>2. QED
    BY <2>1, KeptTypeInv
<1>3. QED
  BY <1>1, <1>2

LEMMA TypeInvariant == Spec => []TypeInv
<1>1. Init => TypeInv
  BY InitTypeInv
<1>2. TypeInv /\ [Next]_vars => TypeInv'
  BY NextTypeInv
<1>3. QED
  BY <1>1, <1>2, PTL DEF Spec

(***************************************************************************)
(* Type correctness: whatever the interleaving, every row and every job is *)
(* well formed.  It is inductive only together with the shape of the jobs  *)
(* (ThreadShape) and the foreign key of the actions (ForeignKey).          *)
(***************************************************************************)
THEOREM TypeCorrect == Spec => []TypeOK
<1>1. TypeInv => TypeOK
  BY DEF TypeInv
<1>2. QED
  BY <1>1, TypeInvariant, PTL

-----------------------------------------------------------------------------
(* Recoveries                                                              *)
(*                                                                         *)
(* Nothing is resolved or marked verified without a verified recovery.     *)
(* Both properties compare rows that different transactions write, so the  *)
(* inductive invariant says what each job may rely on at each step: the    *)
(* facts it checked are facts that no other process can take back.         *)


\* Evidence of a recovery, and a resolved status, come with the event.
EvidenceInv ==
  \A i \in Incidents :
    incident[i].recovery # NoRecovery \/ incident[i].status = "resolved" =>
      incident[i].verifiedEvent

PastStore == {"read", "update", "check", "write", "cancel", "complete", "mark"}
PastEvaluate == {"record", "store"} \cup PastStore

\* What a job at its step has established in the tables.
EstablishedIn(row, acts, obs, incs) ==
  /\ row.job = "recover" => acts[row.act].status = "succeeded"
  /\ row.job = "recover" /\ row.step \in PastEvaluate =>
       obs[row.act] \in RemovalReported
  /\ \/ row.job = "recover" /\ row.step \in PastStore
     \/ row.step = "update" /\ row.recovery # NoRecovery
     \/ row.step = "write" /\ row.to = "resolved"
     => incs[row.inc].verifiedEvent

Established(row) == EstablishedIn(row, action, observed, incident)
EstablishedNext(row) == EstablishedIn(row, action', observed', incident')

RecoveryInv ==
  /\ EvidenceInv
  /\ \A t \in Threads : Established(thread[t])
  /\ VerifiedMeansRecovered

\* What no step takes back.
EventsLast ==
  \A i \in Incidents :
    incident[i].verifiedEvent /\ incident[i].status # "absent" =>
      incident'[i].verifiedEvent

SuccessLasts ==
  \A a \in Actions :
    action[a].status = "succeeded" =>
      /\ action'[a].status = "succeeded"
      /\ observed[a] \in RemovalReported => observed'[a] \in RemovalReported

\* An action newly marked verified has recovered.
Recovered(a) ==
  /\ action[a].status = "succeeded"
  /\ observed[a] \in RemovalReported
  /\ incident[IncidentOf[a]].verifiedEvent

MarksSound ==
  \A a \in Actions : action'[a].verified => action[a].verified \/ Recovered(a)

\* What a step must do to the tables.
Sound == EventsLast /\ SuccessLasts /\ MarksSound /\ EvidenceInv'

-----------------------------------------------------------------------------
(* The statements on the tables                                            *)

LEMMA SetIncidentSound ==
  ASSUME TypeInv, EvidenceInv, NEW i \in Incidents, NEW row \in IncidentRow,
         SetIncident(i, row),
         row.recovery # NoRecovery \/ row.status = "resolved" => row.verifiedEvent,
         incident[i].verifiedEvent /\ incident[i].status # "absent" => row.verifiedEvent
  PROVE  EventsLast /\ EvidenceInv'
BY DEF TypeInv, TypeOK, SetIncident, EventsLast, EvidenceInv

LEMMA IncidentStatementsSound ==
  ASSUME TypeInv, EvidenceInv, NEW i \in Incidents
  PROVE  /\ CreateIncident(i) => EventsLast /\ EvidenceInv'
         /\ ClaimInvestigation(i) => EventsLast /\ EvidenceInv'
         /\ CompleteInvestigation(i) => EventsLast /\ EvidenceInv'
         /\ FailInvestigation(i) => EventsLast /\ EvidenceInv'
         /\ InvestigationLeaseExpires(i) => EventsLast /\ EvidenceInv'
         /\ \A n \in Nat :
              /\ UpdateEvidence(i, n)
              /\ n # NoRecovery => incident[i].verifiedEvent
              => EventsLast /\ EvidenceInv'
         /\ \A n \in Nat : RecordRecovery(i, n) =>
              EventsLast /\ EvidenceInv' /\ incident'[i].verifiedEvent
         /\ \A to \in IncidentStatus :
              /\ TransitionRow(i, to)
              /\ to = "resolved" => incident[i].verifiedEvent
              => EventsLast /\ EvidenceInv'
         /\ UNCHANGED incident => EventsLast /\ EvidenceInv'
<1>0. /\ incident[i] \in IncidentRow
      /\ incident[i].recovery # NoRecovery \/ incident[i].status = "resolved" =>
           incident[i].verifiedEvent
  BY DEF TypeInv, TypeOK, EvidenceInv
<1> USE <1>0, SetIncidentSound DEF IncidentRow, Lease, InvestigationStatus, NoRecovery
<1>1. CreateIncident(i) => EventsLast /\ EvidenceInv'
  BY DEF CreateIncident, AbsentIncident, IncidentStatus, ActiveStatus
<1>2. ClaimInvestigation(i) => EventsLast /\ EvidenceInv'
  BY DEF ClaimInvestigation
<1>3. CompleteInvestigation(i) => EventsLast /\ EvidenceInv'
  BY DEF CompleteInvestigation
<1>4. FailInvestigation(i) => EventsLast /\ EvidenceInv'
  BY DEF FailInvestigation
<1>5. InvestigationLeaseExpires(i) => EventsLast /\ EvidenceInv'
  BY DEF InvestigationLeaseExpires
<1>6. ASSUME NEW n \in Nat, UpdateEvidence(i, n), n # NoRecovery => incident[i].verifiedEvent
      PROVE  EventsLast /\ EvidenceInv'
  BY <1>6 DEF UpdateEvidence
<1>7. ASSUME NEW n \in Nat, RecordRecovery(i, n)
      PROVE  EventsLast /\ EvidenceInv' /\ incident'[i].verifiedEvent
  BY <1>7 DEF RecordRecovery, SetIncident, TypeInv, TypeOK
<1>8. ASSUME NEW to \in IncidentStatus, TransitionRow(i, to),
             to = "resolved" => incident[i].verifiedEvent
      PROVE  EventsLast /\ EvidenceInv'
  <2>1. NextEpoch(i) \in Nat
    BY MaxEpochType DEF NextEpoch
  <2>2. QED
    BY <1>8, <2>1 DEF TransitionRow, IncidentStatus, ActiveStatus, InactiveStatus
<1>9. UNCHANGED incident => EventsLast /\ EvidenceInv'
  BY DEF EventsLast, EvidenceInv
<1>10. QED
  BY <1>1, <1>2, <1>3, <1>4, <1>5, <1>6, <1>7, <1>8, <1>9

LEMMA SetActionSound ==
  ASSUME TypeInv, NEW a \in Actions, NEW row \in ActionRow, SetAction(a, row),
         action[a].status = "succeeded" => row.status = "succeeded",
         row.verified => action[a].verified \/ Recovered(a)
  PROVE  SuccessLasts /\ MarksSound
BY DEF TypeInv, TypeOK, SetAction, SuccessLasts, MarksSound

LEMMA ActionStatementsSound ==
  ASSUME TypeInv, NEW a \in Actions
  PROVE  /\ \A adapter \in Adapter : Propose(a, adapter) => SuccessLasts /\ MarksSound
         /\ \A d \in {"approve", "reject"} : Decide(a, d) => SuccessLasts /\ MarksSound
         /\ ApproveAndStartExternal(a) => SuccessLasts /\ MarksSound
         /\ ClaimApproved(a) => SuccessLasts /\ MarksSound
         /\ \A r \in ExecutionResult : CompleteExecution(a, r) => SuccessLasts /\ MarksSound
         /\ ClaimRecovery(a) => SuccessLasts /\ MarksSound
         /\ CancelStaleProposal(a) => SuccessLasts /\ MarksSound
         /\ RescheduleRecovery(a) => SuccessLasts /\ MarksSound
         /\ MarkRecoveryVerified(a) /\ Recovered(a) => SuccessLasts /\ MarksSound
         /\ \A removed \in BOOLEAN : RuntimeReports(a, removed) => SuccessLasts /\ MarksSound
         /\ SetAction(a, [action[a] EXCEPT !.lease = "expired"]) => SuccessLasts /\ MarksSound
         /\ UNCHANGED <<action, observed>> => SuccessLasts /\ MarksSound
<1>0. action[a] \in ActionRow
  BY DEF TypeInv, TypeOK
<1>u. UNCHANGED <<action, observed>> => SuccessLasts /\ MarksSound
  BY DEF SuccessLasts, MarksSound
<1> USE <1>0, SetActionSound DEF ActionRow, ActionStatus, Finished, Lease
<1>1. \A adapter \in Adapter : Propose(a, adapter) => SuccessLasts /\ MarksSound
  BY <1>u DEF Propose, AbsentAction
<1>2. \A d \in {"approve", "reject"} : Decide(a, d) => SuccessLasts /\ MarksSound
  BY DEF Decide, Decidable
<1>3. ASSUME ApproveAndStartExternal(a) PROVE SuccessLasts /\ MarksSound
  <2> DEFINE row == [action[a] EXCEPT !.decision = "approve", !.status = "executing",
                                      !.tracked = TRUE, !.lease = "none"]
  <2>1. /\ row.verified = action[a].verified
        /\ action[a].status = "proposed"
    BY <1>3 DEF ApproveAndStartExternal, Decidable
  <2>2. action' = [action EXCEPT ![a] = row]
    BY <1>3 DEF ApproveAndStartExternal
  <2>3. \A b \in Actions \ {a} : observed'[b] = observed[b]
    BY <1>3 DEF ApproveAndStartExternal, TypeInv, TypeOK
  <2> HIDE DEF row
  <2>4. QED
    BY <2>1, <2>2, <2>3 DEF SuccessLasts, MarksSound, TypeInv, TypeOK
<1>4. ASSUME ClaimApproved(a) PROVE SuccessLasts /\ MarksSound
  <2> DEFINE row == [action[a] EXCEPT !.status = "executing", !.lease = "live"]
  <2>1. /\ row.verified = action[a].verified
        /\ action[a].status # "succeeded"
    BY <1>4 DEF ClaimApproved, ExecutionClaimable
  <2>2. action' = [action EXCEPT ![a] = row]
    BY <1>4 DEF ClaimApproved
  <2>3. \A b \in Actions \ {a} : observed'[b] = observed[b]
    BY <1>4 DEF ClaimApproved, TypeInv, TypeOK
  <2> HIDE DEF row
  <2>4. QED
    BY <2>1, <2>2, <2>3 DEF SuccessLasts, MarksSound, TypeInv, TypeOK
<1>5. \A r \in ExecutionResult : CompleteExecution(a, r) => SuccessLasts /\ MarksSound
  BY <1>u DEF CompleteExecution, ExecutionResult
<1>6. ClaimRecovery(a) => SuccessLasts /\ MarksSound
  BY DEF ClaimRecovery
<1>7. CancelStaleProposal(a) => SuccessLasts /\ MarksSound
  BY DEF CancelStaleProposal
<1>8. RescheduleRecovery(a) => SuccessLasts /\ MarksSound
  BY <1>u DEF RescheduleRecovery
<1>9. ASSUME MarkRecoveryVerified(a), Recovered(a) PROVE SuccessLasts /\ MarksSound
  <2> DEFINE row == [action[a] EXCEPT !.verified = TRUE, !.lease = "none"]
  <2>1. row \in ActionRow /\ row.status = action[a].status
    OBVIOUS
  <2>2. SetAction(a, row)
    BY <1>9 DEF MarkRecoveryVerified
  <2> HIDE DEF row
  <2>3. QED
    BY <1>9, <2>1, <2>2
<1>10. \A removed \in BOOLEAN : RuntimeReports(a, removed) => SuccessLasts /\ MarksSound
  BY DEF RuntimeReports, Observation, RemovalReported, SuccessLasts, MarksSound,
         TypeInv, TypeOK
<1>11. SetAction(a, [action[a] EXCEPT !.lease = "expired"]) => SuccessLasts /\ MarksSound
  OBVIOUS
<1>12. QED
  BY <1>u, <1>1, <1>2, <1>3, <1>4, <1>5, <1>6, <1>7, <1>8, <1>9, <1>10, <1>11

LEMMA CancellationSound ==
  ASSUME TypeInv, NEW i \in Incidents, CancelForIncident(i)
  PROVE  SuccessLasts /\ MarksSound
BY DEF CancelForIncident, SuccessLasts, MarksSound, TypeInv, TypeOK, ActionRow

-----------------------------------------------------------------------------
(* The jobs                                                                *)

LEMMA VerifiedStays ==
  ASSUME TypeInv, RecoveryInv, Sound
  PROVE  VerifiedMeansRecovered'
<1>1. ASSUME NEW a \in Actions, action'[a].verified
      PROVE  /\ action'[a].status = "succeeded"
             /\ observed'[a] \in RemovalReported
             /\ incident'[IncidentOf[a]].verifiedEvent
  <2>1. Recovered(a)
    BY <1>1 DEF Sound, MarksSound, RecoveryInv, VerifiedMeansRecovered, Recovered
  <2>2. IncidentOf[a] \in Incidents /\ incident[IncidentOf[a]].status # "absent"
    BY <2>1, IncidentOfType DEF Recovered, TypeInv, ForeignKey
  <2>3. QED
    BY <2>1, <2>2 DEF Recovered, Sound, SuccessLasts, EventsLast
<1>2. QED
  BY <1>1 DEF VerifiedMeansRecovered

\* What a job established stays established.
LEMMA EstablishedStays ==
  ASSUME TypeInv, Sound, NEW row \in ThreadRow, ShapeOK(row), Established(row),
         row.step # "idle" => incident[row.inc].status # "absent"
  PROVE  EstablishedNext(row)
BY DEF Sound, SuccessLasts, EventsLast, Established, EstablishedNext, EstablishedIn,
       ShapeOK, PastStore, PastEvaluate

LEMMA OthersStay ==
  ASSUME TypeInv, RecoveryInv, Sound, NEW t \in Threads, NEW row \in ThreadRow,
         Become(t, row), EstablishedNext(row)
  PROVE  RecoveryInv'
<1>1. ASSUME NEW u \in Threads PROVE EstablishedNext(thread'[u])
  <2>1. CASE u = t
    <3>1. thread'[u] = row
      BY <2>1 DEF Become, TypeInv, TypeOK
    <3>2. QED
      BY <3>1
  <2>2. CASE u # t
    <3>1. thread'[u] = thread[u]
      BY <2>2 DEF Become, TypeInv, TypeOK
    <3>2. EstablishedNext(thread[u])
      BY EstablishedStays, ThreadRows DEF RecoveryInv, TypeInv, ThreadShape
    <3>3. QED
      BY <3>1, <3>2
  <2>3. QED
    BY <2>1, <2>2
<1>2. \A u \in Threads : Established(thread[u])'
  BY <1>1 DEF Established, EstablishedNext
<1>3. QED
  BY <1>2, VerifiedStays DEF RecoveryInv, Sound

\* What a job must have established before it goes on to a step.
MayGoTo(t, step) ==
  LET self == thread[t]
  IN  /\ self.job = "recover" /\ step \in PastEvaluate => self.step \in PastEvaluate
      /\ \/ self.job = "recover" /\ step \in PastStore
         \/ step = "write" /\ self.to = "resolved"
         => incident'[self.inc].verifiedEvent

LEMMA GotoSound ==
  ASSUME TypeInv, RecoveryInv, Sound, NEW t \in Threads, NEW step \in Steps \ {"update"},
         thread[t].step # "idle", Goto(t, step), MayGoTo(t, step)
  PROVE  RecoveryInv'
<1> DEFINE self == thread[t]
           row == [self EXCEPT !.step = step]
<1>1. /\ row \in ThreadRow /\ row.step = step /\ row.job = self.job /\ row.act = self.act
      /\ row.inc = self.inc /\ row.to = self.to /\ row.recovery = self.recovery
  BY ThreadRows DEF ThreadRow
<1>2. Become(t, row)
  BY DEF Goto
<1>3. self.job = "recover" => action'[self.act].status = "succeeded"
  BY ThreadRows DEF RecoveryInv, Established, EstablishedIn, Sound, SuccessLasts, ShapeOK
<1>4. self.job = "recover" /\ step \in PastEvaluate => observed'[self.act] \in RemovalReported
  BY ThreadRows DEF MayGoTo, RecoveryInv, Established, EstablishedIn, Sound, SuccessLasts, ShapeOK
<1> HIDE DEF row
<1>5. EstablishedNext(row)
  BY <1>1, <1>3, <1>4 DEF MayGoTo, EstablishedNext, EstablishedIn
<1>6. QED
  BY <1>1, <1>2, <1>5, OthersStay

LEMMA FinishSound ==
  ASSUME TypeInv, RecoveryInv, Sound, NEW t \in Threads, Finish(t)
  PROVE  RecoveryInv'
<1>1. Idle \in ThreadRow /\ EstablishedNext(Idle)
  BY DEF Idle, ThreadRow, Reports, Steps, NoRecovery, EstablishedNext, EstablishedIn
<1>2. QED
  BY <1>1, OthersStay DEF Finish

LEMMA RaiseSound ==
  ASSUME TypeInv, RecoveryInv, Sound, NEW t \in Threads, thread[t].step # "idle", Raise(t)
  PROVE  RecoveryInv'
<1>1. CASE Goto(t, "fail")
  BY <1>1, GotoSound DEF MayGoTo, PastEvaluate, PastStore, Steps
<1>2. CASE Goto(t, "retry")
  BY <1>2, GotoSound DEF MayGoTo, PastEvaluate, PastStore, Steps
<1>3. CASE Finish(t)
  BY <1>3, FinishSound
<1>4. QED
  BY <1>1, <1>2, <1>3 DEF Raise

LEMMA TransitionedSound ==
  ASSUME TypeInv, RecoveryInv, Sound, NEW t \in Threads, thread[t].step \in {"check", "write"},
         Transitioned(t)
  PROVE  RecoveryInv'
<1> DEFINE self == thread[t]
<1>1. /\ self.job = "recover" => incident'[self.inc].verifiedEvent
      /\ self.step \in PastEvaluate
  BY ThreadRows DEF RecoveryInv, Established, EstablishedIn, TypeInv, ThreadShape, Sound, EventsLast,
                    PastStore, PastEvaluate
<1>2. CASE Goto(t, "read") /\ self.job = "investigate"
  BY <1>1, <1>2, GotoSound DEF MayGoTo, Steps
<1>3. CASE Goto(t, "cancel")
  BY <1>1, <1>3, GotoSound DEF MayGoTo, Steps
<1>4. CASE Finish(t)
  BY <1>4, FinishSound
<1>5. QED
  BY <1>2, <1>3, <1>4, ThreadRows DEF Transitioned, ShapeOK, InactiveStatus

-----------------------------------------------------------------------------
(* Every step keeps the invariant                                          *)

\* The record of a thread whose investigation has reported.
LEMMA ReportedRow ==
  ASSUME NEW self \in ThreadRow, NEW report \in Reports, NEW next \in Steps
  PROVE  LET row == [self EXCEPT !.report = report, !.recovery = NoRecovery,
                                 !.step = next]
         IN  /\ row \in ThreadRow /\ row.job = self.job /\ row.act = self.act
             /\ row.inc = self.inc /\ row.step = next
  BY DEF ThreadRow, NoRecovery

LEMMA ThreadStepsSound ==
  ASSUME TypeInv, RecoveryInv, NEW t \in Threads, ThreadStep(t)
  PROVE  RecoveryInv'
<1> DEFINE self == thread[t]
<1>0. /\ self \in ThreadRow /\ ShapeOK(self) /\ Established(self) /\ EvidenceInv
      /\ self.step # "idle" =>
           self.inc \in Incidents /\ incident[self.inc].status # "absent"
  BY ThreadRows DEF RecoveryInv, TypeInv, ThreadShape
<1>u. /\ UNCHANGED incident => EventsLast /\ EvidenceInv'
      /\ UNCHANGED <<action, observed>> => SuccessLasts /\ MarksSound
      /\ UNCHANGED tables => Sound
  BY <1>0 DEF EventsLast, EvidenceInv, SuccessLasts, MarksSound, Sound, tables
<1>1. ASSUME CheckTransition(t) PROVE RecoveryInv'
  <2>1. Sound /\ self.step = "check"
    BY <1>1, <1>u DEF CheckTransition, At
  <2>2. CASE /\ Goto(t, "write")
             /\ self.to = "resolved" => incident[self.inc].recovery # NoRecovery
    <3>1. self.to = "resolved" => incident'[self.inc].verifiedEvent
      BY <1>0, <2>1, <2>2 DEF EvidenceInv, Sound, EventsLast
    <3>2. self.job = "recover" => incident'[self.inc].verifiedEvent
      BY <1>0, <2>1 DEF Established, EstablishedIn, PastStore, Sound, EventsLast
    <3>3. QED
      BY <2>1, <2>2, <3>1, <3>2, GotoSound DEF MayGoTo, PastEvaluate, PastStore, Steps
  <2>3. CASE Transitioned(t)
    BY <2>1, <2>3, TransitionedSound
  <2>4. CASE Raise(t)
    BY <2>1, <2>4, RaiseSound
  <2>5. QED
    BY <1>1, <2>2, <2>3, <2>4 DEF CheckTransition
<1>2. ASSUME WriteTransition(t) PROVE RecoveryInv'
  <2>1. self.step = "write" /\ self.to \in IncidentStatus
    BY <1>2, <1>0 DEF WriteTransition, At, ShapeOK
  <2>2. self.to = "resolved" => incident[self.inc].verifiedEvent
    BY <1>0, <2>1 DEF Established, EstablishedIn
  <2>3. EventsLast /\ EvidenceInv'
    BY <1>0, <1>2, <1>u, <2>1, <2>2, IncidentStatementsSound DEF WriteTransition
  <2>4. Sound
    BY <1>2, <1>u, <2>3 DEF WriteTransition, Sound
  <2>5. QED
    BY <1>2, <2>1, <2>4, TransitionedSound, RaiseSound DEF WriteTransition
<1>3. ASSUME CancelActions(t) PROVE RecoveryInv'
  <2>1. self.step = "cancel" /\ Sound
    BY <1>0, <1>3, <1>u, CancellationSound DEF CancelActions, At, Sound
  <2>2. CASE self.job = "recover" /\ Goto(t, "complete")
    <3>1. incident'[self.inc].verifiedEvent
      BY <1>0, <2>1, <2>2 DEF Established, EstablishedIn, PastStore, Sound, EventsLast
    <3>2. QED
      BY <2>1, <2>2, <3>1, GotoSound DEF MayGoTo, PastEvaluate, PastStore, Steps
  <2>3. QED
    BY <1>3, <2>1, <2>2, FinishSound DEF CancelActions
<1>4. ASSUME ReadIncident(t) PROVE RecoveryInv'
  <2> DEFINE row == [self EXCEPT !.step = "update", !.recovery = incident[self.inc].recovery]
  <2>1. Sound /\ self.step = "read" /\ incident[self.inc].recovery \in Nat
    BY <1>4, <1>u, ThreadRows DEF ReadIncident, At, IncidentRow
  <2>2. /\ row \in ThreadRow /\ row.step = "update" /\ row.job = self.job
        /\ row.act = self.act /\ row.inc = self.inc
        /\ row.recovery = incident[self.inc].recovery
    BY <1>0, <2>1 DEF ThreadRow, Steps
  <2>3. Become(t, row)
    BY <1>4 DEF ReadIncident
  <2> HIDE DEF row
  <2>4. EstablishedNext(row)
    <3>1. incident[self.inc].recovery # NoRecovery => incident'[self.inc].verifiedEvent
      BY <1>0, <2>1 DEF EvidenceInv, Sound, EventsLast
    <3>2. self.job = "recover" => /\ action'[self.act].status = "succeeded"
                                  /\ observed'[self.act] \in RemovalReported
                                  /\ incident'[self.inc].verifiedEvent
      BY <1>0, <2>1 DEF Established, EstablishedIn, PastStore, PastEvaluate, Sound,
                        EventsLast, SuccessLasts, ShapeOK
    <3>3. QED
      BY <2>2, <3>1, <3>2 DEF EstablishedNext, EstablishedIn
  <2>5. QED
    BY <2>1, <2>2, <2>3, <2>4, OthersStay
<1>5. ASSUME UpdateInvestigation(t) PROVE RecoveryInv'
  <2>1. PICK report \in ReportsFor(self.recovery) :
          /\ UpdateEvidence(self.inc, self.recovery)
          /\ Become(t, [self EXCEPT !.report = report, !.recovery = NoRecovery,
                                    !.step = AfterReport(self.job, report)])
    BY <1>5 DEF UpdateInvestigation
  <2> DEFINE row == [self EXCEPT !.report = report, !.recovery = NoRecovery,
                                 !.step = AfterReport(self.job, report)]
  <2>2. self.step = "update" /\ self.recovery \in Nat
    BY <1>0, <1>5 DEF UpdateInvestigation, At, ThreadRow
  <2>3. self.recovery # NoRecovery => incident[self.inc].verifiedEvent
    BY <1>0, <2>2 DEF Established, EstablishedIn
  <2>4. EventsLast /\ EvidenceInv'
    BY <1>0, <2>1, <2>2, <2>3, IncidentStatementsSound
  <2>5. Sound
    BY <1>5, <1>u, <2>4 DEF UpdateInvestigation, Sound
  <2>6. report \in Reports /\ AfterReport(self.job, report) \in
          {"reread", "propose", "check", "retry"}
    BY <1>0, <2>2 DEF ReportsFor, Reports, AfterReport, ShapeOK
  <2>7. /\ row \in ThreadRow /\ row.job = self.job /\ row.act = self.act
        /\ row.inc = self.inc /\ row.step = AfterReport(self.job, report)
    <3>1. AfterReport(self.job, report) \in Steps /\ report \in Reports /\ NoRecovery \in Nat
      BY <2>6 DEF Steps, NoRecovery
    <3>2. QED
      BY <1>0, <3>1, ReportedRow
  <2>8. Become(t, row)
    BY <2>1
  <2> HIDE DEF row
  <2>9. EstablishedNext(row)
    <3>1. self.job = "recover" => /\ action'[self.act].status = "succeeded"
                                  /\ observed'[self.act] \in RemovalReported
                                  /\ incident'[self.inc].verifiedEvent
      BY <1>0, <2>2, <2>5 DEF Established, EstablishedIn, PastStore, PastEvaluate, Sound,
                              EventsLast, SuccessLasts, ShapeOK
    <3>2. QED
      BY <2>6, <2>7, <3>1 DEF EstablishedNext, EstablishedIn
  <2>10. QED
    BY <2>5, <2>7, <2>8, <2>9, OthersStay
<1>6. ASSUME InvestigationFails(t) PROVE RecoveryInv'
  BY <1>6, <1>u, RaiseSound DEF InvestigationFails, At
<1>7. ASSUME RereadIncident(t) PROVE RecoveryInv'
  <2> DEFINE row == [self EXCEPT !.step = "propose", !.status = incident[self.inc].status]
  <2>1. Sound /\ self.step = "reread" /\ incident[self.inc].status \in IncidentStatus
    BY <1>7, <1>u, ThreadRows DEF RereadIncident, At
  <2>2. row \in ThreadRow /\ row.step = "propose" /\ row.job = self.job
    BY <1>0, <2>1 DEF ThreadRow, Steps
  <2>3. Become(t, row) /\ self.job = "investigate"
    BY <1>0, <1>7, <2>1 DEF RereadIncident, ShapeOK
  <2> HIDE DEF row
  <2>4. EstablishedNext(row)
    BY <2>2, <2>3 DEF EstablishedNext, EstablishedIn
  <2>5. QED
    BY <2>1, <2>2, <2>3, <2>4, OthersStay
<1>8. ASSUME ProposeAction(t) PROVE RecoveryInv'
  <2>1. Sound
    BY <1>0, <1>8, <1>u, ActionStatementsSound DEF ProposeAction, Sound
  <2>2. self.step = "propose" /\ self.job # "recover" /\ Goto(t, "complete")
    BY <1>0, <1>8 DEF ProposeAction, At, ShapeOK
  <2>3. QED
    BY <2>1, <2>2, GotoSound DEF MayGoTo, Steps
<1>9. ASSUME Complete(t) PROVE RecoveryInv'
  <2>1. self.step = "complete" /\ Sound
    BY <1>0, <1>9, <1>u, IncidentStatementsSound DEF Complete, At, Sound
  <2>2. CASE self.job = "recover" /\ Goto(t, "mark")
    <3>1. incident'[self.inc].verifiedEvent
      BY <1>0, <2>1, <2>2 DEF Established, EstablishedIn, PastStore, Sound, EventsLast
    <3>2. QED
      BY <2>1, <2>2, <3>1, GotoSound DEF MayGoTo, PastEvaluate, PastStore, Steps
  <2>3. QED
    BY <1>9, <2>1, <2>2, FinishSound DEF Complete
<1>10. ASSUME Fail(t) PROVE RecoveryInv'
  BY <1>0, <1>10, <1>u, IncidentStatementsSound, FinishSound DEF Fail, At, Sound
<1>11. ASSUME FinishExecution(t) PROVE RecoveryInv'
  <2>1. self.act \in Actions
    BY <1>0, <1>11 DEF FinishExecution, At, ShapeOK
  <2>2. PICK result \in ResultsFor(t) : CompleteExecution(self.act, result)
    BY <1>11 DEF FinishExecution
  <2>3. result \in ExecutionResult
    BY <2>2 DEF ResultsFor, ExecutionResult
  <2>4. Sound
    BY <1>11, <1>u, <2>1, <2>2, <2>3, ActionStatementsSound DEF FinishExecution, Sound
  <2>5. QED
    BY <1>11, <2>4, FinishSound DEF FinishExecution
<1>12. ASSUME Evaluate(t) PROVE RecoveryInv'
  <2>1. Sound /\ self.step = "evaluate"
    BY <1>12, <1>u DEF Evaluate, At
  <2>2. CASE Goto(t, "retry")
    BY <2>1, <2>2, GotoSound DEF MayGoTo, PastEvaluate, PastStore, Steps
  <2>3. CASE /\ observed[self.act] = "removed"
             /\ Become(t, [self EXCEPT !.step = "record", !.recovery = incident[self.inc].epoch])
    <3> DEFINE row == [self EXCEPT !.step = "record", !.recovery = incident[self.inc].epoch]
    <3>1. incident[self.inc].epoch \in Nat
      BY <2>1, ThreadRows DEF IncidentRow
    <3>2. /\ row \in ThreadRow /\ row.step = "record" /\ row.job = self.job
          /\ row.act = self.act
      BY <1>0, <3>1 DEF ThreadRow, Steps
    <3>3. Become(t, row)
      BY <2>3
    <3> HIDE DEF row
    <3>4. self.act \in Actions /\ action[self.act].status = "succeeded"
      BY <1>0, <2>1 DEF Established, EstablishedIn, ShapeOK
    <3>5. /\ action'[self.act].status = "succeeded"
          /\ observed'[self.act] \in RemovalReported
      BY <2>1, <2>3, <3>4 DEF Sound, SuccessLasts, RemovalReported
    <3>6. EstablishedNext(row)
      BY <3>2, <3>5 DEF EstablishedNext, EstablishedIn, PastStore
    <3>7. QED
      BY <2>1, <3>2, <3>3, <3>6, OthersStay
  <2>4. QED
    BY <1>12, <2>2, <2>3 DEF Evaluate
<1>13. ASSUME CheckRecord(t) PROVE RecoveryInv'
  <2>1. Sound /\ self.step = "record"
    BY <1>13, <1>u DEF CheckRecord, At
  <2>2. CASE Goto(t, "store")
    BY <2>1, <2>2, GotoSound DEF MayGoTo, PastEvaluate, PastStore, Steps
  <2>3. CASE Raise(t)
    BY <2>1, <2>3, RaiseSound
  <2>4. QED
    BY <1>13, <2>2, <2>3 DEF CheckRecord
<1>14. ASSUME StoreRecovery(t) PROVE RecoveryInv'
  <2>1. self.step = "store" /\ self.recovery \in Nat
    BY <1>0, <1>14 DEF StoreRecovery, At, ThreadRow
  <2>2. EventsLast /\ EvidenceInv' /\ incident'[self.inc].verifiedEvent
    BY <1>0, <1>14, <2>1, IncidentStatementsSound DEF StoreRecovery
  <2>3. Sound
    BY <1>14, <1>u, <2>2 DEF StoreRecovery, Sound
  <2>4. CASE Goto(t, "read")
    BY <2>1, <2>2, <2>3, <2>4, GotoSound DEF MayGoTo, PastEvaluate, PastStore, Steps
  <2>5. QED
    BY <1>14, <2>3, <2>4, FinishSound DEF StoreRecovery
<1>15. ASSUME MarkVerified(t) PROVE RecoveryInv'
  <2>1. self.act \in Actions /\ self.inc = IncidentOf[self.act] /\ self.step = "mark"
        /\ self.job = "recover"
    BY <1>0, <1>15 DEF MarkVerified, At, ShapeOK
  <2>2. Recovered(self.act)
    BY <1>0, <2>1 DEF Established, EstablishedIn, PastStore, PastEvaluate, Recovered
  <2>3. Sound
    BY <1>15, <1>u, <2>1, <2>2, ActionStatementsSound DEF MarkVerified, Sound
  <2>4. QED
    BY <1>15, <2>3, FinishSound DEF MarkVerified
<1>16. ASSUME Retry(t) PROVE RecoveryInv'
  <2>1. self.act \in Actions
    BY <1>0, <1>16 DEF Retry, At, ShapeOK
  <2>2. Sound
    BY <1>16, <1>u, <2>1, ActionStatementsSound DEF Retry, Sound
  <2>3. QED
    BY <1>16, <2>2, FinishSound DEF Retry
<1>17. QED
  BY <1>1, <1>2, <1>3, <1>4, <1>5, <1>6, <1>7, <1>8, <1>9, <1>10, <1>11, <1>12, <1>13,
     <1>14, <1>15, <1>16 DEF ThreadStep

LEMMA ClaimsSound ==
  ASSUME TypeInv, RecoveryInv, NEW t \in Workers, WorkerClaims(t)
  PROVE  RecoveryInv'
<1>0. t \in Threads /\ EvidenceInv
  BY DEF Threads, RecoveryInv
<1>u. /\ UNCHANGED incident => EventsLast /\ EvidenceInv'
      /\ UNCHANGED <<action, observed>> => SuccessLasts /\ MarksSound
  BY <1>0 DEF EventsLast, EvidenceInv, SuccessLasts, MarksSound
<1> USE DEF Idle, ThreadRow, Reports, Steps, NoRecovery, WorkerJobs, IncidentStatus,
            ActiveStatus, InactiveStatus
<1>1. ASSUME NEW i \in Incidents, StartInvestigation(t, i) PROVE RecoveryInv'
  <2> DEFINE row == [Idle EXCEPT !.job = "investigate", !.inc = i, !.to = "investigating",
                                 !.step = IF incident[i].status = "open" THEN "check" ELSE "read"]
  <2>1. Sound
    BY <1>0, <1>1, <1>u, IncidentStatementsSound DEF StartInvestigation, Sound
  <2>2. /\ row \in ThreadRow /\ row.job = "investigate" /\ row.step \in {"check", "read"}
        /\ Become(t, row)
    BY <1>1 DEF StartInvestigation, Begin
  <2> HIDE DEF row
  <2>3. EstablishedNext(row)
    BY <2>2 DEF EstablishedNext, EstablishedIn
  <2>4. QED
    BY <1>0, <2>1, <2>2, <2>3, OthersStay
<1>2. ASSUME NEW a \in Actions, StartExecution(t, a) PROVE RecoveryInv'
  <2> DEFINE row == [Idle EXCEPT !.job = "execute", !.act = a,
                                 !.inc = IncidentOf[a], !.step = "run"]
  <2>1. Sound
    BY <1>2, <1>u, ActionStatementsSound DEF StartExecution, Sound
  <2>2. row \in ThreadRow /\ row.job = "execute" /\ row.step = "run" /\ Become(t, row)
    BY <1>2, IncidentOfType DEF StartExecution, Begin
  <2> HIDE DEF row
  <2>3. EstablishedNext(row)
    BY <2>2 DEF EstablishedNext, EstablishedIn
  <2>4. QED
    BY <1>0, <2>1, <2>2, <2>3, OthersStay
<1>3. ASSUME NEW a \in Actions, StartRecovery(t, a) PROVE RecoveryInv'
  <2> DEFINE row == [Idle EXCEPT !.job = "recover", !.act = a, !.to = "resolved",
                                 !.inc = IncidentOf[a], !.step = "evaluate"]
  <2>1. Sound
    BY <1>3, <1>u, ActionStatementsSound DEF StartRecovery, Sound
  <2>2. row \in ThreadRow /\ row.act = a /\ row.step = "evaluate" /\ Become(t, row)
    BY <1>3, IncidentOfType DEF StartRecovery, Begin
  <2>3. action'[a].status = "succeeded"
    BY <1>3, <2>1 DEF StartRecovery, ClaimRecovery, Sound, SuccessLasts
  <2> HIDE DEF row
  <2>4. EstablishedNext(row)
    BY <2>2, <2>3 DEF EstablishedNext, EstablishedIn, PastEvaluate, PastStore
  <2>5. QED
    BY <1>0, <2>1, <2>2, <2>4, OthersStay
<1>4. QED
  BY <1>1, <1>2, <1>3 DEF WorkerClaims

LEMMA RequestsSound ==
  ASSUME TypeInv, RecoveryInv, NEW t \in Handlers, RequestArrives(t)
  PROVE  RecoveryInv'
<1>0. t \in Threads
  BY DEF Threads
<1>1. ASSUME NEW row \in ThreadRow, row.job # "recover", row.step \notin {"update", "write"},
             Begin(t, row), UNCHANGED tables
      PROVE  RecoveryInv'
  <2>1. Sound
    BY <1>1 DEF tables, Sound, EventsLast, SuccessLasts, MarksSound, RecoveryInv, EvidenceInv
  <2>2. EstablishedNext(row)
    BY <1>1 DEF EstablishedNext, EstablishedIn
  <2>3. QED
    BY <1>0, <1>1, <2>1, <2>2, OthersStay DEF Begin
<1> USE DEF Idle, ThreadRow, Reports, Steps, HandlerJobs, NoRecovery
<1>2. ASSUME NEW i \in Incidents, NEW to \in IncidentStatus, RequestTransition(t, i, to)
      PROVE  RecoveryInv'
  BY <1>1, <1>2 DEF RequestTransition
<1>3. ASSUME NEW i \in Incidents, RequestRecord(t, i) PROVE RecoveryInv'
  <2>1. incident[i].epoch \in Nat
    BY DEF TypeInv, TypeOK, IncidentRow
  <2>2. QED
    BY <1>1, <1>3, <2>1 DEF RequestRecord
<1>4. ASSUME NEW i \in Incidents, RequestInvestigation(t, i) PROVE RecoveryInv'
  <2>1. incident[i].status \in IncidentStatus
    BY <1>4 DEF TypeInv, TypeOK, IncidentRow, RequestInvestigation
  <2>2. QED
    BY <1>1, <1>4, <2>1 DEF RequestInvestigation
<1>5. ASSUME NEW a \in Actions, RequestResult(t, a) PROVE RecoveryInv'
  BY <1>1, <1>5, IncidentOfType DEF RequestResult
<1>6. QED
  BY <1>2, <1>3, <1>4, <1>5 DEF RequestArrives

LEMMA EnvironmentSound ==
  ASSUME TypeInv, RecoveryInv, Environment
  PROVE  RecoveryInv'
<1>u. /\ UNCHANGED incident => EventsLast /\ EvidenceInv'
      /\ UNCHANGED <<action, observed>> => SuccessLasts /\ MarksSound
      /\ EvidenceInv
  BY DEF RecoveryInv, EventsLast, EvidenceInv, SuccessLasts, MarksSound
\* Nobody moves, except that leases are lost.
<1>1. ASSUME Sound,
             \A t \in Threads : thread'[t] = thread[t] \/ thread'[t] = [thread[t] EXCEPT !.lost = TRUE]
      PROVE  RecoveryInv'
  <2>1. ASSUME NEW t \in Threads PROVE EstablishedNext(thread'[t])
    <3>1. EstablishedNext(thread[t])
      BY <1>1, EstablishedStays, ThreadRows DEF RecoveryInv, TypeInv, ThreadShape
    <3>2. /\ thread'[t].step = thread[t].step /\ thread'[t].job = thread[t].job
          /\ thread'[t].inc = thread[t].inc   /\ thread'[t].act = thread[t].act
          /\ thread'[t].to = thread[t].to     /\ thread'[t].recovery = thread[t].recovery
      BY <1>1, ThreadRows DEF ThreadRow
    <3>3. QED
      BY <3>1, <3>2 DEF EstablishedNext, EstablishedIn
  <2>2. \A t \in Threads : Established(thread[t])'
    BY <2>1 DEF Established, EstablishedNext
  <2>3. QED
    BY <1>1, <2>2, VerifiedStays DEF RecoveryInv, Sound
<1>2. ASSUME NEW i \in Incidents, MonitorTriggers(i) \/ IncidentLeaseExpires(i)
      PROVE  RecoveryInv'
  BY <1>1, <1>2, <1>u, IncidentStatementsSound DEF MonitorTriggers, IncidentLeaseExpires, Sound
<1>3. ASSUME NEW a \in Actions, NEW d \in {"approve", "reject"}, EngineerDecides(a, d)
      PROVE  RecoveryInv'
  BY <1>1, <1>3, <1>u, ActionStatementsSound DEF EngineerDecides, Sound
<1>4. ASSUME NEW a \in Actions, PullRequestMerged(a) \/ ManifestMovedOn(a) \/ Reported(a)
      PROVE  RecoveryInv'
  BY <1>1, <1>4, <1>u, ActionStatementsSound
  DEF PullRequestMerged, ManifestMovedOn, Reported, Sound
<1>5. ASSUME NEW a \in Actions, ActionLeaseExpires(a) PROVE RecoveryInv'
  BY <1>1, <1>5, <1>u, ActionStatementsSound DEF ActionLeaseExpires, Sound
<1>6. QED
  BY <1>2, <1>3, <1>4, <1>5 DEF Environment

LEMMA CrashSound ==
  ASSUME TypeInv, RecoveryInv, NEW t \in Threads, Crash(t)
  PROVE  RecoveryInv'
<1>1. Sound
  BY DEF Crash, tables, Sound, EventsLast, SuccessLasts, MarksSound, RecoveryInv, EvidenceInv
<1>2. QED
  BY <1>1, FinishSound DEF Crash

LEMMA InitRecoveryInv == Init => RecoveryInv
BY DEF Init, IncidentsInit, RemediationInit, RecoveryInv, EvidenceInv, Established,
       EstablishedIn, VerifiedMeansRecovered, AbsentIncident, AbsentAction, Idle, NoRecovery

LEMMA NextRecoveryInv == TypeInv /\ RecoveryInv /\ [Next]_vars => RecoveryInv'
<1> SUFFICES ASSUME TypeInv, RecoveryInv, [Next]_vars PROVE RecoveryInv'
  OBVIOUS
<1>1. CASE UNCHANGED vars
  BY <1>1 DEF vars, RecoveryInv, EvidenceInv, Established, EstablishedIn, VerifiedMeansRecovered
<1>2. CASE Next
  BY <1>2, ThreadStepsSound, CrashSound, ClaimsSound, RequestsSound, EnvironmentSound DEF Next
<1>3. QED
  BY <1>1, <1>2

LEMMA RecoveryInvariant == Spec => []RecoveryInv
<1>1. Init => RecoveryInv
  BY InitRecoveryInv
<1>2. TypeInv /\ RecoveryInv /\ [Next]_vars => RecoveryInv'
  BY NextRecoveryInv
<1>3. QED
  BY <1>1, <1>2, TypeInvariant, PTL DEF Spec

-----------------------------------------------------------------------------

(***************************************************************************)
(* A merged pull request, a successful execution or a single healthy       *)
(* window is not recovery: in every reachable state an action is verified  *)
(* only with all of its evidence.                                          *)
(***************************************************************************)
THEOREM VerificationIsSound == Spec => []VerifiedMeansRecovered
<1>1. RecoveryInv => VerifiedMeansRecovered
  BY DEF RecoveryInv
<1>2. QED
  BY <1>1, RecoveryInvariant, PTL

(***************************************************************************)
(* No incident is resolved without a verified recovery in its timeline.    *)
(***************************************************************************)
THEOREM ResolutionIsSound == Spec => []ResolvedAfterRecovery
<1>1. RecoveryInv => ResolvedAfterRecovery
  BY DEF RecoveryInv, EvidenceInv, ResolvedAfterRecovery
<1>2. QED
  BY <1>1, RecoveryInvariant, PTL

-----------------------------------------------------------------------------
(* The contract of incidents                                               *)

LEMMA StepIsLawful ==
  ASSUME TypeInv, Unrecovered, [Next]_vars
  PROVE  Lawful
<1>0. Table
  BY DEF TypeInv, TypeOK, Table
<1>1. ASSUME NEW t \in Threads, ThreadStep(t) PROVE Lawful
  <2> DEFINE self == thread[t]
  <2>0. /\ ShapeOK(self)
        /\ self.step # "idle" =>
             self.inc \in Incidents /\ incident[self.inc].status # "absent"
    BY ThreadRows DEF TypeInv, ThreadShape
  <2>1. CASE WriteTransition(t)
    <3>1. /\ self.inc \in Incidents /\ incident[self.inc].status # "absent"
          /\ self.to \in IncidentStatus
      BY <2>0, <2>1 DEF WriteTransition, At, ShapeOK
    <3>2. TransitionRow(self.inc, self.to) \/ UNCHANGED incident
      BY <2>1 DEF WriteTransition
    <3>3. QED
      BY <1>0, <3>1, <3>2, TransitionIsLawful, RestIsLawful
  <2>2. CASE UpdateInvestigation(t) \/ Complete(t) \/ Fail(t)
    <3>1. self.inc \in Incidents
      BY <2>0, <2>2 DEF UpdateInvestigation, Complete, Fail, At
    <3>2. \/ \E n : UpdateEvidence(self.inc, n)
          \/ CompleteInvestigation(self.inc) \/ FailInvestigation(self.inc)
      BY <2>2 DEF UpdateInvestigation, Complete, Fail
    <3>3. QED
      BY <1>0, <3>1, <3>2, QuietStatements DEF Table
  <2>3. CASE StoreRecovery(t)
    <3>1. self.inc \in Incidents /\ incident[self.inc].status # "absent"
      BY <2>0, <2>3 DEF StoreRecovery, At
    <3>2. RecordRecovery(self.inc, self.recovery)
      BY <2>3 DEF StoreRecovery
    <3>3. QED
      BY <1>0, <3>1, <3>2, RecoveryIsLawful
  <2>4. CASE UNCHANGED incident
    BY <2>4, RestIsLawful
  <2>5. QED
    BY <1>1, <2>1, <2>2, <2>3, <2>4
    DEF ThreadStep, CheckTransition, ReadIncident, InvestigationFails, RereadIncident, Evaluate,
        CheckRecord, CancelActions, ProposeAction, FinishExecution, MarkVerified, Retry, tables
<1>2. ASSUME NEW t \in Workers, WorkerClaims(t) PROVE Lawful
  <2>1. UNCHANGED incident \/ \E i \in Incidents : ClaimInvestigation(i)
    BY <1>2 DEF WorkerClaims, StartInvestigation, StartExecution, StartRecovery
  <2>2. QED
    BY <1>0, <2>1, QuietStatements, RestIsLawful DEF Table
<1>3. CASE Environment
  <2>1. \/ UNCHANGED incident
        \/ \E i \in Incidents : CreateIncident(i) \/ InvestigationLeaseExpires(i)
    BY <1>3 DEF Environment, MonitorTriggers, IncidentLeaseExpires, EngineerDecides,
       PullRequestMerged, ManifestMovedOn, Reported, ActionLeaseExpires
  <2>2. QED
    BY <1>0, <2>1, OpeningIsLawful, QuietStatements, RestIsLawful DEF Table
<1>4. CASE \/ \E t \in Threads : Crash(t)
           \/ \E t \in Handlers : RequestArrives(t)
           \/ UNCHANGED vars
  <2>1. UNCHANGED incident
    BY <1>4 DEF Crash, RequestArrives, RequestTransition, RequestRecord, RequestInvestigation,
       RequestResult, vars, tables
  <2>2. QED
    BY <2>1, RestIsLawful
<1>5. QED
  BY <1>1, <1>2, <1>3, <1>4 DEF Next

LEMMA TableInvariant == Spec => [](TypeInv /\ Unrecovered /\ OneActivePerMonitor)
<1>1. Init => Unrecovered /\ OneActivePerMonitor
  BY TableStarts DEF Init
<1>2. TypeInv /\ TypeInv' /\ Unrecovered /\ OneActivePerMonitor /\ [Next]_vars =>
        Unrecovered' /\ OneActivePerMonitor'
  BY StepIsLawful, LawfulKeeps DEF TypeInv, TypeOK, Table
<1>3. QED
  BY <1>1, <1>2, TypeInvariant, PTL DEF Spec

(***************************************************************************)
(* The workers and requests of the control plane keep the contract of      *)
(* incidents, though they write rows by id that they read transactions     *)
(* before: none is removed or loses its recovery, and none becomes active  *)
(* beside another of its monitor.                                          *)
(***************************************************************************)
THEOREM IncidentsKeepContract == Spec => LifecycleSpec
<1>1. Init => Lifecycle!Init
  BY TableStarts DEF Init
<1>2. TypeInv /\ Unrecovered /\ [Next]_vars => [Lifecycle!Next]_(Lifecycle!contractVars)
  BY StepIsLawful DEF Lawful
<1>3. QED
  BY <1>1, <1>2, TableInvariant, PTL DEF Spec, LifecycleSpec, Lifecycle!Spec

(***************************************************************************)
(* Reopening, resuming and investigating leave a monitor at most one       *)
(* active incident.                                                        *)
(***************************************************************************)
THEOREM OneIncidentPerMonitor == Spec => []OneActivePerMonitor
BY TableInvariant, PTL

=============================================================================
