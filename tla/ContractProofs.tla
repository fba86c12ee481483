---------------------------- MODULE ContractProofs ----------------------------
(***************************************************************************)
(* Approvals are what executions rest on, the control plane implements     *)
(* RemediationContract, and every execution, investigation and             *)
(* cancellation has the thread it should have.                             *)
(***************************************************************************)
EXTENDS ControlPlaneProofs

-----------------------------------------------------------------------------
(* Approvals                                                               *)

\* The status of one row and its decision agree.
Agrees(row) ==
  /\ row.status \in {"approved", "executing", "succeeded", "failed"} =>
       row.decision = "approve"
  /\ row.status = "rejected" <=> row.decision = "reject"
  /\ row.status = "proposed" => row.decision = "none"

LEMMA ApprovalAsRows == ApprovalInv <=> \A a \in Actions : Agrees(action[a])
BY DEF ApprovalInv, Agrees, Started

LEMMA SetActionAgrees ==
  ASSUME TypeInv, ApprovalInv, NEW a \in Actions, NEW row \in ActionRow,
         SetAction(a, row), Agrees(row)
  PROVE  ApprovalInv'
<1>1. \A b \in Actions : Agrees(action'[b])
  BY ApprovalAsRows DEF SetAction, TypeInv, TypeOK
<1>2. QED
  BY <1>1 DEF ApprovalInv, Agrees, Started

LEMMA ActionStatementsAgree ==
  ASSUME TypeInv, ApprovalInv, NEW a \in Actions
  PROVE  /\ \A adapter \in Adapter : Propose(a, adapter) => ApprovalInv'
         /\ \A d \in {"approve", "reject"} : Decide(a, d) => ApprovalInv'
         /\ ApproveAndStartExternal(a) => ApprovalInv'
         /\ ClaimApproved(a) => ApprovalInv'
         /\ \A r \in ExecutionResult : CompleteExecution(a, r) => ApprovalInv'
         /\ ClaimRecovery(a) => ApprovalInv'
         /\ CancelStaleProposal(a) => ApprovalInv'
         /\ RescheduleRecovery(a) => ApprovalInv'
         /\ MarkRecoveryVerified(a) => ApprovalInv'
         /\ \A removed \in BOOLEAN : RuntimeReports(a, removed) => ApprovalInv'
         /\ SetAction(a, [action[a] EXCEPT !.lease = "expired"]) => ApprovalInv'
         /\ UNCHANGED action => ApprovalInv'
<1>0. action[a] \in ActionRow /\ Agrees(action[a])
  BY ApprovalAsRows DEF TypeInv, TypeOK
<1>u. UNCHANGED action => ApprovalInv'
  BY DEF ApprovalInv, Started
<1> USE <1>0, SetActionAgrees DEF ActionRow, ActionStatus, Finished, Lease, Agrees
<1>1. \A adapter \in Adapter : Propose(a, adapter) => ApprovalInv'
  BY <1>u DEF Propose, AbsentAction
<1>2. \A d \in {"approve", "reject"} : Decide(a, d) => ApprovalInv'
  BY DEF Decide, Decidable
<1>3. ASSUME ApproveAndStartExternal(a) PROVE ApprovalInv'
  <2> DEFINE row == [action[a] EXCEPT !.decision = "approve", !.status = "executing",
                                      !.tracked = TRUE, !.lease = "none"]
  <2>1. Agrees(row)
    OBVIOUS
  <2>2. action' = [action EXCEPT ![a] = row]
    BY <1>3 DEF ApproveAndStartExternal
  <2> HIDE DEF row
  <2>3. \A b \in Actions : Agrees(action'[b])
    BY <2>1, <2>2, ApprovalAsRows DEF TypeInv, TypeOK
  <2>4. QED
    BY <2>3 DEF ApprovalInv, Started
<1>4. ASSUME ClaimApproved(a) PROVE ApprovalInv'
  <2> DEFINE row == [action[a] EXCEPT !.status = "executing", !.lease = "live"]
  <2>1. Agrees(row)
    BY <1>4 DEF ClaimApproved, ExecutionClaimable
  <2>2. action' = [action EXCEPT ![a] = row]
    BY <1>4 DEF ClaimApproved
  <2> HIDE DEF row
  <2>3. \A b \in Actions : Agrees(action'[b])
    BY <2>1, <2>2, ApprovalAsRows DEF TypeInv, TypeOK
  <2>4. QED
    BY <2>3 DEF ApprovalInv, Started
<1>5. \A r \in ExecutionResult : CompleteExecution(a, r) => ApprovalInv'
  BY <1>u DEF CompleteExecution, ExecutionResult
<1>6. ClaimRecovery(a) => ApprovalInv'
  BY DEF ClaimRecovery
<1>7. CancelStaleProposal(a) => ApprovalInv'
  BY DEF CancelStaleProposal
<1>8. RescheduleRecovery(a) => ApprovalInv'
  BY <1>u DEF RescheduleRecovery
<1>9. ASSUME MarkRecoveryVerified(a) PROVE ApprovalInv'
  <2> DEFINE row == [action[a] EXCEPT !.verified = TRUE, !.lease = "none"]
  <2>1. row \in ActionRow /\ Agrees(row)
    OBVIOUS
  <2>2. SetAction(a, row)
    BY <1>9 DEF MarkRecoveryVerified
  <2> HIDE DEF row
  <2>3. QED
    BY <2>1, <2>2
<1>10. \A removed \in BOOLEAN : RuntimeReports(a, removed) => ApprovalInv'
  BY <1>u DEF RuntimeReports
<1>11. SetAction(a, [action[a] EXCEPT !.lease = "expired"]) => ApprovalInv'
  OBVIOUS
<1>12. QED
  BY <1>u, <1>1, <1>2, <1>3, <1>4, <1>5, <1>6, <1>7, <1>8, <1>9, <1>10, <1>11

LEMMA CancellationAgrees ==
  ASSUME TypeInv, ApprovalInv, NEW i \in Incidents, CancelForIncident(i)
  PROVE  ApprovalInv'
<1>1. ASSUME NEW a \in Actions PROVE Agrees(action'[a])
  <2>1. Agrees(action[a]) /\ action[a] \in ActionRow
    BY ApprovalAsRows DEF TypeInv, TypeOK
  <2>2. QED
    BY <2>1 DEF CancelForIncident, Agrees, ActionRow
<1>2. QED
  BY <1>1 DEF ApprovalInv, Agrees, Started

(***************************************************************************)
(* What a step of the control plane does to the actions: a statement on    *)
(* one of them, a cancellation, or nothing.                                *)
(***************************************************************************)
Statement(a) ==
  \/ \E adapter \in Adapter : Propose(a, adapter)
  \/ \E d \in {"approve", "reject"} : Decide(a, d)
  \/ ApproveAndStartExternal(a)
  \/ ClaimApproved(a)
  \/ \E r \in ExecutionResult : CompleteExecution(a, r)
  \/ ClaimRecovery(a)
  \/ CancelStaleProposal(a)
  \/ RescheduleRecovery(a)
  \/ MarkRecoveryVerified(a) /\ action[a].status = "succeeded"
  \/ \E removed \in BOOLEAN : RuntimeReports(a, removed)
  \/ SetAction(a, [action[a] EXCEPT !.lease = "expired"])

ActionStep ==
  /\ UNCHANGED incident
  /\ \/ \E a \in Actions : Statement(a)
     \/ \E i \in Incidents : CancelForIncident(i)

IncidentStep ==
  /\ UNCHANGED <<action, observed>>
  /\ \E i \in Incidents : \A j \in Incidents \ {i} : incident'[j] = incident[j]

LEMMA SetIncidentStep ==
  ASSUME TypeInv, NEW i \in Incidents, NEW row, SetIncident(i, row),
         UNCHANGED <<action, observed>>
  PROVE  IncidentStep
BY DEF SetIncident, IncidentStep, TypeInv, TypeOK

LEMMA StepCases ==
  ASSUME TypeInv, RecoveryInv, [Next]_vars
  PROVE  ActionStep \/ IncidentStep \/ UNCHANGED tables
<1>1. ASSUME NEW t \in Threads, ThreadStep(t)
      PROVE  ActionStep \/ IncidentStep \/ UNCHANGED tables
  <2> DEFINE self == thread[t]
  <2>0. /\ self \in ThreadRow /\ ShapeOK(self) /\ Established(self)
        /\ self.step # "idle" => self.inc \in Incidents /\ incident[self.inc] \in IncidentRow
    BY ThreadRows DEF RecoveryInv
  <2>1. CASE CheckTransition(t) \/ ReadIncident(t) \/ InvestigationFails(t) \/ RereadIncident(t)
             \/ Evaluate(t) \/ CheckRecord(t)
    BY <2>1 DEF CheckTransition, ReadIncident, InvestigationFails, RereadIncident,
                Evaluate, CheckRecord
  <2>2. CASE WriteTransition(t)
    BY <2>0, <2>2, SetIncidentStep DEF WriteTransition, At, TransitionRow, tables
  <2>3. CASE UpdateInvestigation(t)
    BY <2>0, <2>3, SetIncidentStep DEF UpdateInvestigation, At, UpdateEvidence
  <2>4. CASE Complete(t)
    BY <2>0, <2>4, SetIncidentStep DEF Complete, At, CompleteInvestigation
  <2>5. CASE Fail(t)
    BY <2>0, <2>5, SetIncidentStep DEF Fail, At, FailInvestigation
  <2>6. CASE StoreRecovery(t)
    BY <2>0, <2>6, SetIncidentStep DEF StoreRecovery, At, RecordRecovery
  <2>7. CASE CancelActions(t)
    BY <2>0, <2>7 DEF CancelActions, At, ActionStep
  <2>8. CASE ProposeAction(t)
    BY <2>8 DEF ProposeAction, ActionStep, Statement, tables
  <2>9. CASE FinishExecution(t)
    <3>1. self.act \in Actions /\ ResultsFor(t) \subseteq ExecutionResult
      BY <2>0, <2>9 DEF FinishExecution, At, ShapeOK, ResultsFor, ExecutionResult
    <3>2. QED
      BY <2>9, <3>1 DEF FinishExecution, ActionStep, Statement
  <2>10. CASE MarkVerified(t)
    <3>1. self.act \in Actions /\ action[self.act].status = "succeeded"
      BY <2>0, <2>10 DEF MarkVerified, At, ShapeOK, Established, EstablishedIn
    <3>2. QED
      BY <2>10, <3>1 DEF MarkVerified, ActionStep, Statement
  <2>11. CASE Retry(t)
    BY <2>0, <2>11 DEF Retry, At, ShapeOK, ActionStep, Statement
  <2>12. QED
    BY <1>1, <2>1, <2>2, <2>3, <2>4, <2>5, <2>6, <2>7, <2>8, <2>9, <2>10, <2>11
    DEF ThreadStep
<1>2. ASSUME NEW t \in Workers, WorkerClaims(t)
      PROVE  ActionStep \/ IncidentStep \/ UNCHANGED tables
  BY <1>2, SetIncidentStep
  DEF WorkerClaims, StartInvestigation, ClaimInvestigation, StartExecution, StartRecovery,
      ActionStep, Statement
<1>3. ASSUME NEW t \in Handlers, RequestArrives(t)
      PROVE  ActionStep \/ IncidentStep \/ UNCHANGED tables
  BY <1>3 DEF RequestArrives, RequestTransition, RequestRecord, RequestInvestigation, RequestResult
<1>4. CASE Environment
  <2>1. ASSUME NEW i \in Incidents, MonitorTriggers(i) \/ IncidentLeaseExpires(i)
        PROVE  IncidentStep
    BY <2>1, SetIncidentStep
    DEF MonitorTriggers, IncidentLeaseExpires, CreateIncident, InvestigationLeaseExpires
  <2>2. ASSUME NEW a \in Actions, NEW d \in {"approve", "reject"}, EngineerDecides(a, d)
        PROVE  ActionStep
    BY <2>2 DEF EngineerDecides, ActionStep, Statement
  <2>3. ASSUME NEW a \in Actions,
               \/ PullRequestMerged(a) \/ ManifestMovedOn(a) \/ Reported(a)
               \/ ActionLeaseExpires(a)
        PROVE  ActionStep
    BY <2>3 DEF PullRequestMerged, ManifestMovedOn, Reported, ActionLeaseExpires,
                ActionStep, Statement
  <2>4. QED
    BY <1>4, <2>1, <2>2, <2>3 DEF Environment
<1>5. CASE \E t \in Threads : Crash(t)
  BY <1>5 DEF Crash
<1>6. CASE UNCHANGED vars
  BY <1>6 DEF vars, tables
<1>7. QED
  BY <1>1, <1>2, <1>3, <1>4, <1>5, <1>6 DEF Next

LEMMA NextApprovalInv == TypeInv /\ RecoveryInv /\ ApprovalInv /\ [Next]_vars => ApprovalInv'
<1> SUFFICES ASSUME TypeInv, RecoveryInv, ApprovalInv, [Next]_vars PROVE ApprovalInv'
  OBVIOUS
<1>1. UNCHANGED action => ApprovalInv'
  BY DEF ApprovalInv, Started
<1>2. ASSUME NEW a \in Actions, Statement(a) PROVE ApprovalInv'
  BY <1>2, ActionStatementsAgree DEF Statement
<1>3. QED
  BY <1>1, <1>2, StepCases, CancellationAgrees DEF ActionStep, IncidentStep, tables

(***************************************************************************)
(* What executes or has executed was approved, a rejection stays one, and  *)
(* a proposal is undecided, in every reachable state.                      *)
(***************************************************************************)
THEOREM ExecutionIsApproved == Spec => []ApprovalInv
<1>1. Init => ApprovalInv
  BY DEF Init, RemediationInit, AbsentAction, ApprovalInv, Started
<1>2. TypeInv /\ RecoveryInv /\ ApprovalInv /\ [Next]_vars => ApprovalInv'
  BY NextApprovalInv
<1>3. QED
  BY <1>1, <1>2, TypeInvariant, RecoveryInvariant, PTL DEF Spec

-----------------------------------------------------------------------------
(* Refinement                                                              *)

phaseBar == [a \in Actions |-> action[a].status]
liveBar == {i \in Incidents : IsActive(i)}
verifiedBar == {a \in Actions : action[a].verified}

LEMMA IncidentStepRefines ==
  ASSUME TypeInv, IncidentStep
  PROVE  \E c \in Incidents : Contract!Toggle(c)
<1>1. PICK i \in Incidents : \A j \in Incidents \ {i} : incident'[j] = incident[j]
  BY DEF IncidentStep
<1>2. liveBar' \in {liveBar \cup {i}, liveBar \ {i}}
  BY <1>1 DEF liveBar, IsActive
<1>3. phaseBar' = phaseBar /\ verifiedBar' = verifiedBar
  BY DEF IncidentStep, phaseBar, verifiedBar
<1>4. Contract!Toggle(i)
  BY <1>2, <1>3 DEF Contract!Toggle, phaseBar, liveBar, verifiedBar
<1>5. QED
  BY <1>4

Refined == Contract!Next \/ UNCHANGED Contract!contractVars

\* Writing one row moves one phase.
LEMMA RowMoves ==
  ASSUME TypeInv, UNCHANGED incident, NEW a \in Actions, NEW row \in ActionRow,
         action' = [action EXCEPT ![a] = row], row.verified = action[a].verified
  PROVE  /\ Contract!Move(a, action[a].status, row.status)
         /\ row.status = action[a].status => UNCHANGED Contract!contractVars
<1>1. phaseBar' = [phaseBar EXCEPT ![a] = row.status]
  BY DEF phaseBar, TypeInv, TypeOK
<1>2. liveBar' = liveBar /\ verifiedBar' = verifiedBar
  BY DEF liveBar, verifiedBar, IsActive, TypeInv, TypeOK
<1>3. phaseBar[a] = action[a].status
  BY DEF phaseBar
<1>4. Contract!Move(a, action[a].status, row.status)
  BY <1>1, <1>2, <1>3 DEF Contract!Move, phaseBar, liveBar, verifiedBar
<1>5. row.status = action[a].status => UNCHANGED Contract!contractVars
  BY <1>1, <1>2, <1>3 DEF Contract!contractVars, phaseBar, liveBar, verifiedBar
<1>6. QED
  BY <1>4, <1>5

LEMMA SetActionMoves ==
  ASSUME TypeInv, UNCHANGED incident, NEW a \in Actions, NEW row \in ActionRow,
         SetAction(a, row), row.verified = action[a].verified
  PROVE  /\ Contract!Move(a, action[a].status, row.status)
         /\ row.status = action[a].status => Refined
BY RowMoves DEF SetAction, Refined

\* The same, with the two phases named.
LEMMA MovesTo ==
  ASSUME TypeInv, UNCHANGED incident, NEW a \in Actions, NEW row \in ActionRow,
         SetAction(a, row), row.verified = action[a].verified,
         NEW CONSTANT from, NEW CONSTANT to, action[a].status = from, row.status = to
  PROVE  Contract!Move(a, from, to)
<1>1. action' = [action EXCEPT ![a] = row]
  BY DEF SetAction
<1>2. phaseBar' = [phaseBar EXCEPT ![a] = to]
  BY <1>1 DEF phaseBar, TypeInv, TypeOK
<1>3. liveBar' = liveBar /\ verifiedBar' = verifiedBar
  BY <1>1 DEF liveBar, verifiedBar, IsActive, TypeInv, TypeOK
<1>4. phaseBar[a] = from
  BY DEF phaseBar
<1>5. QED
  BY <1>2, <1>3, <1>4 DEF Contract!Move, phaseBar, liveBar, verifiedBar

LEMMA StatementRefines ==
  ASSUME TypeInv, VerifiedMeansRecovered, UNCHANGED incident,
         NEW a \in Actions, Statement(a)
  PROVE  Refined
<1>0. action[a] \in ActionRow
  BY DEF TypeInv, TypeOK
<1>u. UNCHANGED <<action, observed>> => Refined
  BY DEF Refined, Contract!contractVars, IsActive
<1>l. ForActiveIncident(a) => IncidentOf[a] \in liveBar
  BY IncidentOfType DEF ForActiveIncident, liveBar
<1>n. /\ Contract!Propose(a) => Refined
      /\ Contract!Decide(a) => Refined
      /\ Contract!Start(a) => Refined
      /\ Contract!Merge(a) => Refined
      /\ Contract!Finish(a) => Refined
      /\ Contract!Verify(a) => Refined
  BY DEF Refined, Contract!Next
<1>1. ASSUME NEW adapter \in Adapter, Propose(a, adapter) PROVE Refined
  <2>1. CASE action[a].status # "absent"
    BY <1>1, <1>u, <2>1 DEF Propose
  <2>2. CASE action[a].status = "absent"
    <3> DEFINE row == [AbsentAction EXCEPT !.status = "proposed", !.adapter = adapter]
    <3>1. /\ row \in ActionRow /\ row.status = "proposed" /\ row.verified = FALSE
      BY DEF ActionRow, AbsentAction, ActionStatus, Lease
    <3>2. action[a].verified = FALSE
      BY <1>0, <2>2 DEF VerifiedMeansRecovered, ActionRow
    <3>3. SetAction(a, row)
      BY <1>1, <2>2 DEF Propose
    <3> HIDE DEF row
    <3>4. Contract!Move(a, action[a].status, row.status)
      BY <3>1, <3>2, <3>3, SetActionMoves
    <3>5. Contract!Move(a, "absent", "proposed")
      BY <2>2, <3>1, <3>4
    <3>6. QED
      BY <1>n, <3>5 DEF Contract!Propose
  <2>3. QED
    BY <2>1, <2>2
<1>2. ASSUME NEW d \in {"approve", "reject"}, Decide(a, d) PROVE Refined
  <2> DEFINE row == [action[a] EXCEPT
                       !.decision = d,
                       !.status = IF d = "approve" THEN "approved" ELSE "rejected"]
  <2>1. /\ row \in ActionRow /\ row.verified = action[a].verified
        /\ row.status \in {"approved", "rejected"}
    BY <1>0 DEF ActionRow, ActionStatus, Finished
  <2>2. SetAction(a, row) /\ action[a].status = "proposed" /\ ForActiveIncident(a)
    BY <1>2 DEF Decide, Decidable
  <2> HIDE DEF row
  <2>3. \A to \in {"approved", "rejected"} :
          row.status = to => Contract!Move(a, "proposed", to)
    BY <2>1, <2>2, MovesTo
  <2>4. Contract!Decide(a)
    BY <1>l, <2>1, <2>2, <2>3 DEF Contract!Decide, liveBar
  <2>5. QED
    BY <1>n, <2>4
<1>3. ASSUME ApproveAndStartExternal(a) PROVE Refined
  <2> DEFINE row == [action[a] EXCEPT !.decision = "approve", !.status = "executing",
                                      !.tracked = TRUE, !.lease = "none"]
  <2>1. /\ row \in ActionRow /\ row.verified = action[a].verified
        /\ row.status = "executing"
    BY <1>0 DEF ActionRow, ActionStatus, Lease
  <2>2. /\ action' = [action EXCEPT ![a] = row]
        /\ action[a].status = "proposed" /\ ForActiveIncident(a)
    BY <1>3 DEF ApproveAndStartExternal, Decidable
  <2> HIDE DEF row
  <2>3. Contract!Move(a, "proposed", "executing")
    BY <2>1, <2>2, RowMoves
  <2>4. Contract!Merge(a)
    BY <1>l, <2>2, <2>3 DEF Contract!Merge, liveBar
  <2>5. QED
    BY <1>n, <2>4
<1>4. ASSUME ClaimApproved(a) PROVE Refined
  <2> DEFINE row == [action[a] EXCEPT !.status = "executing", !.lease = "live"]
  <2>1. /\ row \in ActionRow /\ row.verified = action[a].verified
        /\ row.status = "executing"
    BY <1>0 DEF ActionRow, ActionStatus, Lease
  <2>2. /\ action' = [action EXCEPT ![a] = row] /\ ForActiveIncident(a)
        /\ action[a].status \in {"approved", "executing"}
    BY <1>4 DEF ClaimApproved, ExecutionClaimable
  <2> HIDE DEF row
  <2>3. CASE action[a].status = "executing"
    BY <2>1, <2>2, <2>3, RowMoves DEF Refined
  <2>4. CASE action[a].status = "approved"
    <3>1. Contract!Move(a, "approved", "executing")
      BY <2>1, <2>2, <2>4, RowMoves
    <3>2. Contract!Start(a)
      BY <1>l, <2>2, <3>1 DEF Contract!Start, liveBar
    <3>3. QED
      BY <1>n, <3>2
  <2>5. QED
    BY <2>2, <2>3, <2>4
<1>5. ASSUME NEW r \in ExecutionResult, CompleteExecution(a, r) PROVE Refined
  <2> DEFINE row == [action[a] EXCEPT !.status = IF r = "accepted" THEN "executing" ELSE r,
                                      !.tracked = TRUE, !.lease = "none"]
  <2>1. /\ row \in ActionRow /\ row.verified = action[a].verified
        /\ row.status \in {"executing", "succeeded", "failed"}
    BY <1>0 DEF ActionRow, ActionStatus, Finished, Lease, ExecutionResult
  <2>2. CASE action[a].status # "executing"
    BY <1>5, <1>u, <2>2 DEF CompleteExecution
  <2>3. CASE action[a].status = "executing"
    <3>1. SetAction(a, row)
      BY <1>5, <2>3 DEF CompleteExecution
    <3> HIDE DEF row
    <3>2. CASE row.status = "executing"
      BY <2>1, <2>3, <3>1, <3>2, SetActionMoves
    <3>3. CASE row.status \in {"succeeded", "failed"}
      <4>1. \A to \in {"succeeded", "failed"} :
              row.status = to => Contract!Move(a, "executing", to)
        BY <2>1, <2>3, <3>1, MovesTo
      <4>2. Contract!Finish(a)
        BY <2>1, <3>3, <4>1 DEF Contract!Finish
      <4>3. QED
        BY <1>n, <4>2
    <3>4. QED
      BY <2>1, <3>2, <3>3
  <2>4. QED
    BY <2>2, <2>3
<1>6. ASSUME ClaimRecovery(a) PROVE Refined
  <2>1. [action[a] EXCEPT !.lease = "live"] \in ActionRow
    BY <1>0 DEF ActionRow, Lease
  <2>2. QED
    BY <1>0, <1>6, <2>1, SetActionMoves DEF ClaimRecovery, ActionRow
<1>7. ASSUME CancelStaleProposal(a) PROVE Refined
  <2> DEFINE row == [action[a] EXCEPT !.status = "cancelled"]
  <2>1. row \in ActionRow
    BY <1>0 DEF ActionRow, ActionStatus, Finished
  <2>2. row.status = "cancelled" /\ row.verified = action[a].verified
    BY <1>0 DEF ActionRow
  <2>3. action' = [action EXCEPT ![a] = row] /\ action[a].status = "proposed"
    BY <1>7 DEF CancelStaleProposal, SetAction
  <2> HIDE DEF row
  <2>4. phaseBar' = [b \in Actions |-> IF b \in {a} THEN "cancelled" ELSE phaseBar[b]]
    BY <2>2, <2>3 DEF phaseBar, TypeInv, TypeOK
  <2>5. liveBar' = liveBar /\ verifiedBar' = verifiedBar
    BY <2>2, <2>3 DEF liveBar, verifiedBar, IsActive, TypeInv, TypeOK
  <2>6. \A b \in {a} : phaseBar[b] \in {"proposed", "approved"}
    BY <2>3 DEF phaseBar
  <2>7. Contract!Withdraw({a})
    BY <2>4, <2>5, <2>6 DEF Contract!Withdraw, Contract!Waiting, phaseBar, liveBar, verifiedBar
  <2>8. QED
    BY <2>7 DEF Refined, Contract!Next
<1>8. ASSUME RescheduleRecovery(a) PROVE Refined
  <2>1. [action[a] EXCEPT !.lease = "none"] \in ActionRow
    BY <1>0 DEF ActionRow, Lease
  <2>2. QED
    BY <1>0, <1>8, <1>u, <2>1, SetActionMoves DEF RescheduleRecovery, ActionRow
<1>9. ASSUME MarkRecoveryVerified(a), action[a].status = "succeeded" PROVE Refined
  <2> DEFINE row == [action[a] EXCEPT !.verified = TRUE, !.lease = "none"]
  <2>1. row.status = action[a].status /\ row.verified = TRUE
    BY <1>0 DEF ActionRow
  <2>2. action' = [action EXCEPT ![a] = row]
    BY <1>9 DEF MarkRecoveryVerified, SetAction
  <2> HIDE DEF row
  <2>3. phaseBar' = phaseBar /\ liveBar' = liveBar
    BY <2>1, <2>2 DEF phaseBar, liveBar, IsActive, TypeInv, TypeOK
  <2>4. verifiedBar' = verifiedBar \cup {a}
    BY <2>1, <2>2 DEF verifiedBar, TypeInv, TypeOK
  <2>5. Contract!Verify(a)
    BY <1>9, <2>3, <2>4 DEF Contract!Verify, phaseBar, liveBar, verifiedBar
  <2>6. QED
    BY <1>n, <2>5
<1>10. ASSUME NEW removed \in BOOLEAN, RuntimeReports(a, removed) PROVE Refined
  BY <1>10 DEF RuntimeReports, Refined, Contract!contractVars, IsActive
<1>11. ASSUME SetAction(a, [action[a] EXCEPT !.lease = "expired"]) PROVE Refined
  <2>1. [action[a] EXCEPT !.lease = "expired"] \in ActionRow
    BY <1>0 DEF ActionRow, Lease
  <2>2. QED
    BY <1>0, <1>11, <2>1, SetActionMoves DEF ActionRow
<1>12. QED
  BY <1>1, <1>2, <1>3, <1>4, <1>5, <1>6, <1>7, <1>8, <1>9, <1>10, <1>11 DEF Statement

LEMMA CancellationRefines ==
  ASSUME TypeInv, UNCHANGED incident, NEW i \in Incidents, CancelForIncident(i)
  PROVE  Refined
<1>1. PICK S \in SUBSET Actions :
        S = {a \in Actions : /\ IncidentOf[a] = i
                             /\ action[a].status \in {"proposed", "approved"}}
  OBVIOUS
<1>2. ASSUME NEW a \in Actions
      PROVE  /\ action'[a].status = (IF a \in S THEN "cancelled" ELSE action[a].status)
             /\ action'[a].verified = action[a].verified
  <2>1. action[a] \in ActionRow
    BY DEF TypeInv, TypeOK
  <2>2. QED
    BY <1>1, <2>1 DEF CancelForIncident, ActionRow
<1>3. phaseBar' = [a \in Actions |-> IF a \in S THEN "cancelled" ELSE phaseBar[a]]
  BY <1>2 DEF phaseBar
<1>4. liveBar' = liveBar /\ verifiedBar' = verifiedBar
  BY <1>2 DEF liveBar, verifiedBar, IsActive
<1>5. \A a \in S : phaseBar[a] \in {"proposed", "approved"}
  BY <1>1 DEF phaseBar
<1>6. Contract!Withdraw(S)
  BY <1>3, <1>4, <1>5 DEF Contract!Withdraw, Contract!Waiting, phaseBar, liveBar, verifiedBar
<1>7. QED
  BY <1>6 DEF Refined, Contract!Next

LEMMA InitRefines == Init => Contract!Init
BY DEF Init, IncidentsInit, RemediationInit, AbsentIncident, AbsentAction,
       Contract!Init, IsActive, ActiveStatus

LEMMA NextRefines ==
  TypeInv /\ RecoveryInv /\ [Next]_vars => [Contract!Next]_(Contract!contractVars)
<1> SUFFICES ASSUME TypeInv, RecoveryInv, [Next]_vars PROVE Refined
  BY DEF Refined
<1>1. CASE ActionStep
  BY <1>1, StatementRefines, CancellationRefines DEF ActionStep, RecoveryInv
<1>2. CASE IncidentStep
  BY <1>2, IncidentStepRefines DEF Refined, Contract!Next
<1>3. CASE UNCHANGED tables
  BY <1>3 DEF tables, Refined, Contract!contractVars, IsActive
<1>4. QED
  BY <1>1, <1>2, <1>3, StepCases

(***************************************************************************)
(* The control plane implements the contract of remediation actions: every *)
(* interleaving of workers, requests, GitHub and the runtime is, to who    *)
(* looks at statuses, live incidents and verifications only, a behaviour   *)
(* of RemediationContract.                                                 *)
(***************************************************************************)
THEOREM ImplementsContract == Spec => ContractSpec
<1>1. Init => Contract!Init
  BY InitRefines
<1>2. TypeInv /\ RecoveryInv /\ [Next]_vars => [Contract!Next]_(Contract!contractVars)
  BY NextRefines
<1>3. QED
  BY <1>1, <1>2, TypeInvariant, RecoveryInvariant, PTL DEF Spec, ContractSpec, Contract!Spec

-----------------------------------------------------------------------------
(* Who works on a row: executions, investigations, cancellations           *)

\* A thread goes on with the job it has, or ends it; the others stay.
Moved(t) ==
  /\ \A u \in Threads \ {t} : thread'[u] = thread[u]
  /\ \/ thread'[t] = Idle
     \/ /\ thread'[t].job = thread[t].job
        /\ thread'[t].inc = thread[t].inc
        /\ thread'[t].act = thread[t].act
        /\ thread'[t].lost = thread[t].lost

LEMMA MovesThread ==
  ASSUME TypeInv, NEW t \in Threads
  PROVE  /\ Finish(t) => Moved(t)
         /\ \A step \in Steps : Goto(t, step) => Moved(t)
         /\ Raise(t) => Moved(t)
         /\ Transitioned(t) => Moved(t)
<1>0. thread \in [Threads -> ThreadRow] /\ thread[t] \in ThreadRow
  BY DEF TypeInv, TypeOK
<1>1. Finish(t) => Moved(t)
  BY <1>0 DEF Finish, Become, Moved
<1>2. ASSUME NEW step \in Steps, Goto(t, step) PROVE Moved(t)
  BY <1>0, <1>2 DEF Goto, Become, Moved, ThreadRow
<1>3. Raise(t) => Moved(t)
  BY <1>1, <1>2 DEF Raise, Steps
<1>4. Transitioned(t) => Moved(t)
  BY <1>1, <1>2 DEF Transitioned, Steps
<1>5. QED
  BY <1>1, <1>2, <1>3, <1>4

LEMMA StepMoves ==
  ASSUME TypeInv, NEW t \in Threads, ThreadStep(t) \/ Crash(t)
  PROVE  Moved(t)
<1>0. thread \in [Threads -> ThreadRow] /\ thread[t] \in ThreadRow
  BY DEF TypeInv, TypeOK
<1>1. \A row : /\ Become(t, row) /\ row.job = thread[t].job /\ row.inc = thread[t].inc
               /\ row.act = thread[t].act /\ row.lost = thread[t].lost
               => Moved(t)
  BY <1>0 DEF Become, Moved
<1>2. ASSUME CheckTransition(t) \/ WriteTransition(t) \/ InvestigationFails(t) PROVE Moved(t)
  BY <1>2, MovesThread DEF CheckTransition, WriteTransition, InvestigationFails, Steps
<1>3. ASSUME CancelActions(t) \/ ProposeAction(t) \/ Complete(t) \/ Fail(t)
             \/ FinishExecution(t)
      PROVE  Moved(t)
  BY <1>3, MovesThread
  DEF CancelActions, ProposeAction, Complete, Fail, FinishExecution, Steps
<1>4. ASSUME CheckRecord(t) \/ StoreRecovery(t) \/ MarkVerified(t) \/ Retry(t) \/ Crash(t)
      PROVE  Moved(t)
  BY <1>4, MovesThread DEF CheckRecord, StoreRecovery, MarkVerified, Retry, Crash, Steps
<1>5. ASSUME ReadIncident(t) \/ RereadIncident(t) PROVE Moved(t)
  BY <1>5, <1>1, <1>0 DEF ReadIncident, RereadIncident, ThreadRow
<1>6. ASSUME UpdateInvestigation(t) PROVE Moved(t)
  BY <1>6, <1>1, <1>0 DEF UpdateInvestigation, ThreadRow
<1>7. ASSUME Evaluate(t) PROVE Moved(t)
  <2>1. CASE Goto(t, "retry")
    BY <2>1, MovesThread DEF Steps
  <2>2. QED
    BY <1>7, <2>1, <1>1, <1>0 DEF Evaluate, ThreadRow
<1>8. QED
  BY <1>2, <1>3, <1>4, <1>5, <1>6, <1>7 DEF ThreadStep

-----------------------------------------------------------------------------
(* Executions                                                              *)

\* What claim_approved passes over, by the row alone.
Held(row) ==
  /\ row.status \in {"executing", "succeeded", "failed"}
  /\ row.status = "executing" => row.tracked \/ row.lease # "expired"

HeldStays == \A a \in Actions : Held(action[a]) => Held(action'[a])

\* A worker whose lease has not run out holds its action, and is alone.
ExclusiveInv ==
  /\ \A t \in Threads : Executing(t) /\ ~thread[t].lost => Held(action[thread[t].act])
  /\ ExecutionExclusive

LEMMA StatementsHold ==
  ASSUME TypeInv, NEW a \in Actions
  PROVE  /\ \A adapter \in Adapter : Propose(a, adapter) => HeldStays
         /\ \A d \in {"approve", "reject"} : Decide(a, d) => HeldStays
         /\ ApproveAndStartExternal(a) => HeldStays
         /\ ClaimApproved(a) => HeldStays
         /\ \A r \in ExecutionResult : CompleteExecution(a, r) => HeldStays
         /\ ClaimRecovery(a) => HeldStays
         /\ CancelStaleProposal(a) => HeldStays
         /\ RescheduleRecovery(a) => HeldStays
         /\ MarkRecoveryVerified(a) => HeldStays
         /\ UNCHANGED action => HeldStays
<1>0. action \in [Actions -> ActionRow] /\ action[a] \in ActionRow
  BY DEF TypeInv, TypeOK
<1>1. ASSUME NEW row, SetAction(a, row), Held(action[a]) => Held(row) PROVE HeldStays
  BY <1>0, <1>1 DEF SetAction, HeldStays
<1>u. UNCHANGED action => HeldStays
  BY DEF HeldStays
<1>2. \A adapter \in Adapter : Propose(a, adapter) => HeldStays
  BY <1>1, <1>u DEF Propose, Held
<1>3. \A d \in {"approve", "reject"} : Decide(a, d) => HeldStays
  BY <1>1 DEF Decide, Decidable, Held
<1>4. ApproveAndStartExternal(a) => HeldStays
  BY <1>0 DEF ApproveAndStartExternal, Decidable, Held, HeldStays
<1>5. ClaimApproved(a) => HeldStays
  BY <1>0 DEF ClaimApproved, Held, HeldStays, ActionRow
<1>6. \A r \in ExecutionResult : CompleteExecution(a, r) => HeldStays
  BY <1>0, <1>1, <1>u DEF CompleteExecution, Held, ActionRow, ExecutionResult
<1>7. ClaimRecovery(a) => HeldStays
  BY <1>0, <1>1 DEF ClaimRecovery, Held, ActionRow
<1>8. CancelStaleProposal(a) => HeldStays
  BY <1>1 DEF CancelStaleProposal, Held
<1>9. RescheduleRecovery(a) => HeldStays
  BY <1>0, <1>1, <1>u DEF RescheduleRecovery, Held, ActionRow
<1>10. MarkRecoveryVerified(a) => HeldStays
  BY <1>0, <1>1 DEF MarkRecoveryVerified, Held, ActionRow
<1>11. QED
  BY <1>u, <1>2, <1>3, <1>4, <1>5, <1>6, <1>7, <1>8, <1>9, <1>10

LEMMA StepHolds ==
  ASSUME TypeInv, NEW t \in Threads, ThreadStep(t) \/ Crash(t)
  PROVE  HeldStays
<1>0. thread[t] \in ThreadRow /\ ShapeOK(thread[t])
  BY ThreadRows
<1>u. UNCHANGED action => HeldStays
  BY DEF HeldStays
<1>1. ASSUME CancelActions(t) PROVE HeldStays
  BY <1>1 DEF CancelActions, CancelForIncident, HeldStays, Held
<1>2. ASSUME ProposeAction(t) PROVE HeldStays
  BY <1>2, <1>u, StatementsHold DEF ProposeAction
<1>3. ASSUME FinishExecution(t) PROVE HeldStays
  <2>1. thread[t].act \in Actions /\ ResultsFor(t) \subseteq ExecutionResult
    BY <1>0, <1>3 DEF FinishExecution, At, ShapeOK, ResultsFor, ExecutionResult
  <2>2. QED
    BY <1>3, <2>1, StatementsHold DEF FinishExecution
<1>4. ASSUME MarkVerified(t) \/ Retry(t) PROVE HeldStays
  <2>1. thread[t].act \in Actions
    BY <1>0, <1>4 DEF MarkVerified, Retry, At, ShapeOK
  <2>2. QED
    BY <1>4, <2>1, StatementsHold DEF MarkVerified, Retry
<1>5. QED
  BY <1>u, <1>1, <1>2, <1>3, <1>4
  DEF ThreadStep, Crash, tables, CheckTransition, WriteTransition, ReadIncident,
      UpdateInvestigation, InvestigationFails, RereadIncident, Complete, Fail, Evaluate,
      CheckRecord, StoreRecovery

\* Nobody new executes, nobody who executes changes his action.
LEMMA HeldExclusive ==
  ASSUME TypeInv, ExclusiveInv, HeldStays,
         \A t \in Threads : thread'[t].job = "execute" =>
           /\ thread[t].job = "execute"
           /\ thread'[t].act = thread[t].act
           /\ thread'[t].lost = thread[t].lost
  PROVE  ExclusiveInv'
<1>0. \A t \in Threads : Executing(t) => thread[t].act \in Actions
  BY ThreadRows DEF Executing, ShapeOK
<1>1. \A t \in Threads : (Executing(t))' => Executing(t)
  BY DEF Executing
<1>2. ASSUME NEW t \in Threads, (Executing(t))', ~thread'[t].lost
      PROVE  Held(action'[thread'[t].act])
  BY <1>0, <1>2 DEF ExclusiveInv, HeldStays, Executing
<1>3. ExecutionExclusive'
  BY DEF ExclusiveInv, ExecutionExclusive, Executing
<1>4. QED
  BY <1>2, <1>3 DEF ExclusiveInv

LEMMA NextExclusive == TypeInv /\ ExclusiveInv /\ [Next]_vars => ExclusiveInv'
<1> SUFFICES ASSUME TypeInv, ExclusiveInv, [Next]_vars PROVE ExclusiveInv'
  OBVIOUS
<1>0. /\ thread \in [Threads -> ThreadRow] /\ action \in [Actions -> ActionRow]
      /\ Workers \subseteq Threads /\ Handlers \subseteq Threads
  BY DEF TypeInv, TypeOK, Threads
<1>1. ASSUME UNCHANGED thread, HeldStays PROVE ExclusiveInv'
  BY <1>1, HeldExclusive
<1>2. ASSUME NEW t \in Threads, ThreadStep(t) \/ Crash(t) PROVE ExclusiveInv'
  BY <1>2, StepMoves, StepHolds, HeldExclusive DEF Moved, Idle
<1>3. ASSUME NEW t \in Threads, NEW row, Begin(t, row), row.job # "execute", HeldStays
      PROVE  ExclusiveInv'
  BY <1>0, <1>3, HeldExclusive DEF Begin, Become
<1>4. ASSUME NEW t \in Workers, NEW a \in Actions, StartExecution(t, a)
      PROVE  ExclusiveInv'
  <2> DEFINE row == [Idle EXCEPT !.job = "execute", !.act = a,
                                 !.inc = IncidentOf[a], !.step = "run"]
  <2>1. /\ ClaimApproved(a) /\ thread' = [thread EXCEPT ![t] = row] /\ t \in Threads
    BY <1>0, <1>4 DEF StartExecution, Begin, Become
  <2>2. row.job = "execute" /\ row.act = a /\ row.lost = FALSE
    BY DEF Idle
  <2> HIDE DEF row
  <2>3. thread'[t] = row /\ \A u \in Threads \ {t} : thread'[u] = thread[u]
    BY <1>0, <2>1
  <2>4. \A u \in Threads : Executing(u) /\ thread[u].act = a => thread[u].lost
    BY <2>1 DEF ClaimApproved, ExecutionClaimable, ExclusiveInv, Held
  <2>5. HeldStays /\ Held(action'[a])
    BY <1>0, <2>1, StatementsHold DEF ClaimApproved, SetAction, Held, ActionRow
  <2>6. \A u \in Threads : Executing(u) => thread[u].act \in Actions
    BY ThreadRows DEF Executing, ShapeOK
  <2>7. ASSUME NEW u \in Threads, (Executing(u))', ~thread'[u].lost
        PROVE  Held(action'[thread'[u].act])
    BY <2>2, <2>3, <2>5, <2>6, <2>7 DEF ExclusiveInv, HeldStays, Executing
  <2>8. ExecutionExclusive'
    BY <2>2, <2>3, <2>4 DEF ExclusiveInv, ExecutionExclusive, Executing
  <2>9. QED
    BY <2>7, <2>8 DEF ExclusiveInv
<1>5. ASSUME NEW t \in Workers, WorkerClaims(t) PROVE ExclusiveInv'
  <2>1. ASSUME NEW i \in Incidents, StartInvestigation(t, i) PROVE ExclusiveInv'
    BY <1>0, <1>3, <2>1, StatementsHold DEF StartInvestigation, Idle, HeldStays
  <2>2. ASSUME NEW a \in Actions, StartRecovery(t, a) PROVE ExclusiveInv'
    <3>1. HeldStays
      BY <2>2, StatementsHold DEF StartRecovery
    <3>2. QED
      BY <1>0, <1>3, <2>2, <3>1 DEF StartRecovery, Idle
  <2>3. QED
    BY <1>4, <1>5, <2>1, <2>2 DEF WorkerClaims
<1>6. ASSUME NEW t \in Handlers, RequestArrives(t) PROVE ExclusiveInv'
  <2>1. HeldStays
    BY <1>6 DEF RequestArrives, RequestTransition, RequestRecord, RequestInvestigation,
                RequestResult, tables, HeldStays
  <2>2. QED
    BY <1>0, <1>3, <1>6, <2>1
    DEF RequestArrives, RequestTransition, RequestRecord, RequestInvestigation,
        RequestResult, Idle
<1>7. ASSUME NEW a \in Actions, ActionLeaseExpires(a) PROVE ExclusiveInv'
  <2>1. /\ action' = [action EXCEPT ![a] = [action[a] EXCEPT !.lease = "expired"]]
        /\ \A t \in Threads : thread'[t] = IF thread[t].act = a /\ thread[t].job \in WorkerJobs
                                           THEN [thread[t] EXCEPT !.lost = TRUE]
                                           ELSE thread[t]
    BY <1>7 DEF ActionLeaseExpires, SetAction
  <2>2. ASSUME NEW t \in Threads
        PROVE  /\ (Executing(t))' <=> Executing(t)
               /\ thread'[t].act = thread[t].act
               /\ thread[t].lost => thread'[t].lost
               /\ Executing(t) /\ ~thread'[t].lost => thread[t].act # a /\ ~thread[t].lost
    <3>1. thread[t] \in ThreadRow
      BY <1>0
    <3>2. QED
      BY <2>1, <3>1 DEF Executing, ThreadRow, WorkerJobs
  <2>3. \A b \in Actions \ {a} : action'[b] = action[b]
    BY <1>0, <2>1
  <2>4. \A t \in Threads : Executing(t) => thread[t].act \in Actions
    BY ThreadRows DEF Executing, ShapeOK
  <2>5. ASSUME NEW t \in Threads, (Executing(t))', ~thread'[t].lost
        PROVE  Held(action'[thread'[t].act])
    BY <2>2, <2>3, <2>4, <2>5 DEF ExclusiveInv
  <2>6. ExecutionExclusive'
    BY <2>2 DEF ExclusiveInv, ExecutionExclusive
  <2>7. QED
    BY <2>5, <2>6 DEF ExclusiveInv
<1>8. ASSUME Environment PROVE ExclusiveInv'
  <2>1. CASE \E i \in Incidents : MonitorTriggers(i) \/ IncidentLeaseExpires(i)
    BY <1>1, <2>1 DEF MonitorTriggers, IncidentLeaseExpires, HeldStays
  <2>2. ASSUME NEW a \in Actions, NEW d \in {"approve", "reject"}, EngineerDecides(a, d)
        PROVE  ExclusiveInv'
    BY <1>1, <2>2, StatementsHold DEF EngineerDecides
  <2>3. ASSUME NEW a \in Actions, PullRequestMerged(a) \/ ManifestMovedOn(a)
        PROVE  ExclusiveInv'
    BY <1>1, <2>3, StatementsHold DEF PullRequestMerged, ManifestMovedOn
  <2>4. ASSUME NEW a \in Actions, Reported(a) PROVE ExclusiveInv'
    BY <1>1, <2>4 DEF Reported, RuntimeReports, HeldStays
  <2>5. QED
    BY <1>7, <1>8, <2>1, <2>2, <2>3, <2>4 DEF Environment
<1>9. CASE UNCHANGED vars
  BY <1>1, <1>9 DEF vars, HeldStays
<1>10. QED
  BY <1>2, <1>5, <1>6, <1>8, <1>9 DEF Next

(***************************************************************************)
(* Two workers execute the same action only if one of them has outlived    *)
(* the lease it was claimed under: claim_approved gives a row to a second  *)
(* worker only then, whatever callbacks, cancellations and recoveries      *)
(* write meanwhile.                                                        *)
(***************************************************************************)
THEOREM ExecutionIsExclusive == Spec => []ExecutionExclusive
<1>1. Init => ExclusiveInv
  BY DEF Init, Idle, ExclusiveInv, ExecutionExclusive, Executing
<1>2. ExclusiveInv => ExecutionExclusive
  BY DEF ExclusiveInv
<1>3. QED
  BY <1>1, <1>2, TypeInvariant, NextExclusive, PTL DEF Spec

-----------------------------------------------------------------------------
(* Investigations                                                          *)

\* A row that is investigated is not claimable; failing it is left to the one
\* who investigates.
OwnedInv ==
  /\ InvestigationOwned
  /\ \A t \in Threads, i \in Incidents :
       Investigates(t, i) => incident[i].investigation \in {"running", "completed"}

\* The row of every incident is investigated by whom it was, if at all, and
\* what nobody investigates any more is not left running.
LEMMA OwnershipStays ==
  ASSUME TypeInv, OwnedInv, crashes' = 0 => crashes = 0,
         \A t \in Threads, i \in Incidents : (Investigates(t, i))' =>
           /\ Investigates(t, i)
           /\ \/ incident'[i].investigation = incident[i].investigation
              \/ incident'[i].investigation = "completed",
         \A t \in Threads, i \in Incidents :
           /\ Investigates(t, i)
           /\ incident'[i].investigation = "running"
           /\ crashes' = 0
           => (Investigates(t, i))',
         \A i \in Incidents : incident'[i].investigation = "running" =>
           incident[i].investigation = "running"
  PROVE  OwnedInv'
BY DEF OwnedInv, InvestigationOwned

\* What a statement does to the investigation of the incidents.
SameInvestigations ==
  \A i \in Incidents : incident'[i].investigation = incident[i].investigation

\* A thread goes on with its job, and no investigation changes.
LEMMA QuietOwned ==
  ASSUME TypeInv, OwnedInv, SameInvestigations, crashes' = crashes,
         \A t \in Threads, i \in Incidents : (Investigates(t, i))' <=> Investigates(t, i)
  PROVE  OwnedInv'
BY OwnershipStays DEF SameInvestigations

LEMMA StatementsKeepInvestigations ==
  ASSUME TypeInv, NEW i \in Incidents
  PROVE  /\ UNCHANGED incident => SameInvestigations
         /\ \A n \in Nat : UpdateEvidence(i, n) => SameInvestigations
         /\ \A n \in Nat : RecordRecovery(i, n) => SameInvestigations
         /\ \A to \in IncidentStatus : TransitionRow(i, to) => SameInvestigations
         /\ InvestigationLeaseExpires(i) => SameInvestigations
<1>0. incident \in [Incidents -> IncidentRow] /\ incident[i] \in IncidentRow
  BY DEF TypeInv, TypeOK
<1>1. ASSUME NEW row, SetIncident(i, row), row.investigation = incident[i].investigation
      PROVE  SameInvestigations
  BY <1>0, <1>1 DEF SetIncident, SameInvestigations
<1>2. QED
  BY <1>0, <1>1
  DEF SameInvestigations, UpdateEvidence, RecordRecovery, TransitionRow,
      InvestigationLeaseExpires, IncidentRow

\* A thread that investigates ends only by completing, failing or dying.
LEMMA InvestigatesOn ==
  ASSUME TypeInv, NEW t \in Threads, ThreadStep(t), ~Complete(t), ~Fail(t)
  PROVE  /\ SameInvestigations
         /\ crashes' = crashes
         /\ \A u \in Threads, i \in Incidents :
              (Investigates(u, i))' <=> Investigates(u, i)
<1> DEFINE self == thread[t]
<1>0. /\ thread \in [Threads -> ThreadRow] /\ self \in ThreadRow /\ ShapeOK(self)
      /\ Moved(t)
  BY ThreadRows, StepMoves DEF TypeInv, TypeOK
<1>1. SameInvestigations /\ crashes' = crashes
  <2>1. self.step # "idle" => self.inc \in Incidents
    BY ThreadRows
  <2>2. CASE UNCHANGED incident
    BY <2>2
    DEF ThreadStep, SameInvestigations, CheckTransition, WriteTransition, CancelActions,
        ReadIncident, UpdateInvestigation, InvestigationFails, RereadIncident,
        ProposeAction, FinishExecution, Evaluate, CheckRecord, StoreRecovery,
        MarkVerified, Retry
  <2>3. CASE WriteTransition(t)
    BY <2>1, <2>3, <1>0, StatementsKeepInvestigations
    DEF WriteTransition, At, ShapeOK
  <2>4. CASE UpdateInvestigation(t)
    BY <2>1, <2>4, <1>0, StatementsKeepInvestigations
    DEF UpdateInvestigation, At, ThreadRow
  <2>5. CASE StoreRecovery(t)
    BY <2>1, <2>5, <1>0, StatementsKeepInvestigations
    DEF StoreRecovery, At, ThreadRow
  <2>6. QED
    BY <2>2, <2>3, <2>4, <2>5
    DEF ThreadStep, CheckTransition, CancelActions, ReadIncident, InvestigationFails,
        RereadIncident, ProposeAction, FinishExecution, Evaluate, CheckRecord,
        MarkVerified, Retry, tables
<1>2. ASSUME self.job = "investigate" PROVE thread'[t] # Idle
  <2>0. \A step \in Steps \ {"idle"} : Goto(t, step) => thread'[t] # Idle
    BY <1>0 DEF Goto, Become, Idle, ThreadRow
  <2>1. (Raise(t) => Goto(t, "fail")) /\ (Transitioned(t) => Goto(t, "read"))
    BY <1>0, <1>2 DEF Raise, Transitioned, ShapeOK, InactiveStatus
  <2>2. CASE CheckTransition(t) \/ WriteTransition(t) \/ InvestigationFails(t)
    BY <2>0, <2>1, <2>2 DEF CheckTransition, WriteTransition, InvestigationFails, Steps
  <2>3. CASE ReadIncident(t)
    BY <2>3, <1>0 DEF ReadIncident, Become, Idle, ThreadRow
  <2>4. CASE UpdateInvestigation(t)
    <3>1. PICK report \in ReportsFor(self.recovery) :
            thread' = [thread EXCEPT ![t] =
              [self EXCEPT !.report = report, !.recovery = NoRecovery,
                           !.step = AfterReport(self.job, report)]]
      BY <2>4 DEF UpdateInvestigation, Become
    <3>2. thread'[t].job = "investigate"
      BY <3>1, <1>0, <1>2 DEF ThreadRow
    <3>3. QED
      BY <3>2 DEF Idle
  <2>5. CASE RereadIncident(t)
    BY <2>5, <1>0 DEF RereadIncident, Become, Idle, ThreadRow
  <2>6. CASE ProposeAction(t)
    BY <2>6, <2>0 DEF ProposeAction, Steps
  <2>7. QED
    BY <2>2, <2>3, <2>4, <2>5, <2>6, <1>0, <1>2
    DEF ThreadStep, CancelActions, FinishExecution, Evaluate, CheckRecord, StoreRecovery,
        MarkVerified, Retry, At, ShapeOK
<1>3. \A u \in Threads, i \in Incidents : (Investigates(u, i))' <=> Investigates(u, i)
  BY <1>0, <1>2 DEF Moved, Investigates, Idle
<1>4. QED
  BY <1>1, <1>3

LEMMA EndsOwned ==
  ASSUME TypeInv, OwnedInv, NEW t \in Threads, Complete(t) \/ Fail(t)
  PROVE  OwnedInv'
<1> DEFINE self == thread[t]
<1>0. /\ thread \in [Threads -> ThreadRow] /\ self \in ThreadRow /\ ShapeOK(self)
      /\ incident \in [Incidents -> IncidentRow]
      /\ self.inc \in Incidents /\ incident[self.inc] \in IncidentRow
      /\ Moved(t)
  BY ThreadRows, StepMoves DEF TypeInv, TypeOK, ThreadStep, Complete, Fail, At
<1>1. /\ \A i \in Incidents \ {self.inc} : incident'[i] = incident[i]
      /\ crashes' = crashes
  BY <1>0 DEF Complete, Fail, CompleteInvestigation, FailInvestigation, SetIncident
<1>2. CASE Complete(t)
  <2>1. incident'[self.inc].investigation = "completed"
    BY <1>0, <1>2 DEF Complete, CompleteInvestigation, SetIncident, IncidentRow
  <2>2. \A u \in Threads, i \in Incidents : (Investigates(u, i))' => Investigates(u, i)
    BY <1>0 DEF Moved, Investigates, Idle
  <2>3. \A u \in Threads, i \in Incidents :
          Investigates(u, i) /\ i # self.inc => (Investigates(u, i))'
    BY <1>0 DEF Moved, Investigates, Idle
  <2>4. QED
    BY <1>1, <2>1, <2>2, <2>3, OwnershipStays
<1>3. CASE Fail(t)
  <2>1. incident'[self.inc].investigation = "failed" /\ thread'[t] = Idle
        /\ self.job = "investigate"
    BY <1>0, <1>3 DEF Fail, FailInvestigation, SetIncident, IncidentRow, Finish, Become,
                      At, ShapeOK
  <2>2. \A u \in Threads, i \in Incidents :
          (Investigates(u, i))' <=> Investigates(u, i) /\ i # self.inc
    BY <1>0, <2>1 DEF Moved, Investigates, Idle, OwnedInv, InvestigationOwned
  <2>3. QED
    BY <1>1, <2>1, <2>2, OwnershipStays
<1>4. QED
  BY <1>2, <1>3

LEMMA NextOwned == TypeInv /\ OwnedInv /\ [Next]_vars => OwnedInv'
<1> SUFFICES ASSUME TypeInv, OwnedInv, [Next]_vars PROVE OwnedInv'
  OBVIOUS
<1>0. /\ thread \in [Threads -> ThreadRow] /\ incident \in [Incidents -> IncidentRow]
      /\ Workers \subseteq Threads /\ Handlers \subseteq Threads /\ crashes \in Nat
  BY DEF TypeInv, TypeOK, Threads
<1>1. ASSUME NEW t \in Threads, ThreadStep(t) PROVE OwnedInv'
  BY <1>1, EndsOwned, InvestigatesOn, QuietOwned
<1>2. ASSUME NEW t \in Threads, Crash(t) PROVE OwnedInv'
  <2>1. Moved(t) /\ crashes' = crashes + 1 /\ UNCHANGED incident
    BY <1>2, StepMoves DEF Crash, tables
  <2>2. \A u \in Threads, i \in Incidents : (Investigates(u, i))' => Investigates(u, i)
    BY <2>1 DEF Moved, Investigates, Idle
  <2>3. crashes' # 0
    BY <1>0, <2>1
  <2>4. QED
    BY <2>1, <2>2, <2>3, OwnershipStays
<1>3. ASSUME NEW t \in Threads, NEW row, Begin(t, row), row.job # "investigate",
             UNCHANGED <<incident, crashes>>
      PROVE  OwnedInv'
  <2>1. thread[t].job = "none"
    BY <1>3, ThreadRows DEF Begin, At, ShapeOK
  <2>2. \A u \in Threads, i \in Incidents : (Investigates(u, i))' <=> Investigates(u, i)
    BY <1>0, <1>3, <2>1 DEF Begin, Become, Investigates
  <2>3. QED
    BY <1>3, <2>2, QuietOwned DEF SameInvestigations
<1>4. ASSUME NEW t \in Workers, NEW i \in Incidents, StartInvestigation(t, i) PROVE OwnedInv'
  <2> DEFINE row == [Idle EXCEPT
                 !.job = "investigate", !.inc = i, !.to = "investigating",
                 !.step = IF incident[i].status = "open" THEN "check"
                                                         ELSE "read"]
  <2>1. /\ ClaimInvestigation(i) /\ thread' = [thread EXCEPT ![t] = row]
        /\ t \in Threads /\ crashes' = crashes /\ thread[t].job = "none"
    BY <1>0, <1>4, ThreadRows DEF StartInvestigation, Begin, Become, At, ShapeOK
  <2>2. row.job = "investigate" /\ row.inc = i
    BY DEF Idle
  <2> HIDE DEF row
  <2>3. /\ incident'[i].investigation = "running"
        /\ \A j \in Incidents \ {i} : incident'[j] = incident[j]
    BY <1>0, <2>1 DEF ClaimInvestigation, SetIncident, IncidentRow
  <2>4. \A u \in Threads : ~Investigates(u, i)
    BY <2>1 DEF ClaimInvestigation, OwnedInv
  <2>5. \A u \in Threads, j \in Incidents :
          (Investigates(u, j))' <=> Investigates(u, j) \/ (u = t /\ j = i)
    BY <1>0, <2>1, <2>2 DEF Investigates
  <2>6. QED
    BY <2>1, <2>3, <2>4, <2>5 DEF OwnedInv, InvestigationOwned
<1>5. ASSUME NEW t \in Workers, WorkerClaims(t) PROVE OwnedInv'
  <2>1. ASSUME NEW a \in Actions, StartExecution(t, a) PROVE OwnedInv'
    BY <1>0, <1>3, <2>1 DEF StartExecution, Idle
  <2>2. ASSUME NEW a \in Actions, StartRecovery(t, a) PROVE OwnedInv'
    BY <1>0, <1>3, <2>2 DEF StartRecovery, Idle
  <2>3. QED
    BY <1>4, <1>5, <2>1, <2>2 DEF WorkerClaims
<1>6. ASSUME NEW t \in Handlers, RequestArrives(t) PROVE OwnedInv'
  BY <1>0, <1>3, <1>6
  DEF RequestArrives, RequestTransition, RequestRecord, RequestInvestigation,
      RequestResult, Idle, tables
<1>7. ASSUME SameInvestigations, UNCHANGED <<thread, crashes>> PROVE OwnedInv'
  BY <1>7, QuietOwned DEF Investigates
<1>8. ASSUME Environment PROVE OwnedInv'
  <2>1. ASSUME NEW i \in Incidents, MonitorTriggers(i) PROVE OwnedInv'
    <3>1. /\ incident'[i].investigation = "pending"
          /\ \A j \in Incidents \ {i} : incident'[j] = incident[j]
          /\ incident[i].status = "absent" /\ UNCHANGED <<thread, crashes>>
      BY <1>0, <2>1
      DEF MonitorTriggers, CreateIncident, SetIncident, AbsentIncident
    <3>2. \A t \in Threads : ~Investigates(t, i)
      BY <3>1 DEF TypeInv, ThreadShape, ShapeOK, Investigates
    <3>3. QED
      BY <3>1, <3>2, OwnershipStays DEF Investigates
  <2>2. ASSUME NEW i \in Incidents, IncidentLeaseExpires(i) PROVE OwnedInv'
    BY <1>7, <2>2, StatementsKeepInvestigations DEF IncidentLeaseExpires
  <2>3. ASSUME NEW a \in Actions, ActionLeaseExpires(a) PROVE OwnedInv'
    <3>1. \A t \in Threads : thread[t] \in ThreadRow
      BY <1>0
    <3>2. \A t \in Threads, i \in Incidents : (Investigates(t, i))' <=> Investigates(t, i)
      BY <2>3, <3>1 DEF ActionLeaseExpires, Investigates, ThreadRow
    <3>3. QED
      BY <2>3, <3>2, QuietOwned DEF ActionLeaseExpires, SameInvestigations
  <2>4. QED
    BY <1>7, <1>8, <2>1, <2>2, <2>3
    DEF Environment, EngineerDecides, PullRequestMerged, ManifestMovedOn, Reported,
        SameInvestigations
<1>9. CASE UNCHANGED vars
  BY <1>7, <1>9 DEF vars, SameInvestigations
<1>10. QED
  BY <1>1, <1>2, <1>5, <1>6, <1>8, <1>9 DEF Next

(***************************************************************************)
(* An incident has one investigating worker at most, and a running         *)
(* investigation has one unless a process died: complete_investigation     *)
(* writes by id from three jobs, and only the investigator ever makes a    *)
(* row claimable again.                                                    *)
(***************************************************************************)
THEOREM InvestigationIsOwned == Spec => []InvestigationOwned
<1>1. Init => OwnedInv
  BY DEF Init, IncidentsInit, AbsentIncident, Idle, OwnedInv, InvestigationOwned, Investigates
<1>2. OwnedInv => InvestigationOwned
  BY DEF OwnedInv
<1>3. QED
  BY <1>1, <1>2, TypeInvariant, NextOwned, PTL DEF Spec

-----------------------------------------------------------------------------
(* Cancellations                                                           *)

\* No statement but an approval of an active incident's action makes one
\* approved.
NoApproval ==
  \A a \in Actions :
    action'[a].status = "approved" =>
      action[a].status = "approved" \/ (ForActiveIncident(a) /\ UNCHANGED incident)

StillActive == \A i \in Incidents : IsActive(i) => (IsActive(i))'

StillCancels ==
  \A t \in Threads : At(t, "cancel") =>
    (At(t, "cancel"))' /\ thread'[t].inc = thread[t].inc

\* Nobody approves late, no incident ends and nobody forgets to cancel.
LEMMA QuietOwed ==
  ASSUME TypeInv, CancelOwed, NoApproval, StillActive, StillCancels,
         crashes' = 0 => crashes = 0
  PROVE  CancelOwed'
<1>1. \A a \in Actions : ForActiveIncident(a) => (ForActiveIncident(a))'
  BY IncidentOfType DEF StillActive, ForActiveIncident
<1>2. QED
  BY <1>1 DEF CancelOwed, NoApproval, StillCancels

LEMMA StatementsApprove ==
  ASSUME TypeInv, NEW a \in Actions
  PROVE  /\ \A adapter \in Adapter : Propose(a, adapter) => NoApproval
         /\ \A r \in ExecutionResult : CompleteExecution(a, r) => NoApproval
         /\ ClaimApproved(a) => NoApproval
         /\ ClaimRecovery(a) => NoApproval
         /\ CancelStaleProposal(a) => NoApproval
         /\ RescheduleRecovery(a) => NoApproval
         /\ MarkRecoveryVerified(a) => NoApproval
         /\ ApproveAndStartExternal(a) => NoApproval
         /\ SetAction(a, [action[a] EXCEPT !.lease = "expired"]) => NoApproval
         /\ UNCHANGED action => NoApproval
<1>0. action \in [Actions -> ActionRow] /\ action[a] \in ActionRow
  BY DEF TypeInv, TypeOK
<1>u. UNCHANGED action => NoApproval
  BY DEF NoApproval
<1>1. ASSUME NEW row, SetAction(a, row),
             row.status = "approved" => action[a].status = "approved"
      PROVE  NoApproval
  BY <1>0, <1>1 DEF SetAction, NoApproval
<1>2. \A adapter \in Adapter : Propose(a, adapter) => NoApproval
  BY <1>1, <1>u DEF Propose, AbsentAction
<1>3. \A r \in ExecutionResult : CompleteExecution(a, r) => NoApproval
  BY <1>0, <1>1, <1>u DEF CompleteExecution, ActionRow, ExecutionResult
<1>4. ClaimRecovery(a) \/ CancelStaleProposal(a)
        \/ SetAction(a, [action[a] EXCEPT !.lease = "expired"]) => NoApproval
  BY <1>0, <1>1 DEF ClaimRecovery, CancelStaleProposal, ActionRow
<1>c. ClaimApproved(a) => NoApproval
  BY <1>0 DEF ClaimApproved, NoApproval, ActionRow
<1>5. RescheduleRecovery(a) \/ MarkRecoveryVerified(a) => NoApproval
  BY <1>0, <1>1, <1>u DEF RescheduleRecovery, MarkRecoveryVerified, ActionRow
<1>6. ApproveAndStartExternal(a) => NoApproval
  BY <1>0 DEF ApproveAndStartExternal, NoApproval
<1>7. QED
  BY <1>u, <1>2, <1>3, <1>4, <1>c, <1>5, <1>6

LEMMA StatementsKeepActive ==
  ASSUME TypeInv, NEW i \in Incidents
  PROVE  /\ UNCHANGED incident => StillActive
         /\ CreateIncident(i) => StillActive
         /\ ClaimInvestigation(i) => StillActive
         /\ CompleteInvestigation(i) => StillActive
         /\ FailInvestigation(i) => StillActive
         /\ \A n \in Nat : UpdateEvidence(i, n) => StillActive
         /\ \A n \in Nat : RecordRecovery(i, n) => StillActive
         /\ InvestigationLeaseExpires(i) => StillActive
<1>0. incident \in [Incidents -> IncidentRow] /\ incident[i] \in IncidentRow
  BY DEF TypeInv, TypeOK
<1>1. ASSUME NEW row, SetIncident(i, row),
             row.status = incident[i].status \/ row.status \in ActiveStatus
      PROVE  StillActive
  BY <1>0, <1>1 DEF SetIncident, StillActive, IsActive
<1>2. CreateIncident(i) => StillActive
  BY <1>1 DEF CreateIncident, AbsentIncident, ActiveStatus
<1>3. ClaimInvestigation(i) \/ CompleteInvestigation(i) \/ FailInvestigation(i)
        \/ InvestigationLeaseExpires(i) => StillActive
  BY <1>0, <1>1
  DEF ClaimInvestigation, CompleteInvestigation, FailInvestigation,
      InvestigationLeaseExpires, IncidentRow
<1>4. \A n \in Nat : UpdateEvidence(i, n) \/ RecordRecovery(i, n) => StillActive
  BY <1>0, <1>1 DEF UpdateEvidence, RecordRecovery, IncidentRow
<1>5. UNCHANGED incident => StillActive
  BY DEF StillActive, IsActive
<1>6. QED
  BY <1>2, <1>3, <1>4, <1>5

\* The transition that ends an incident leaves its thread at the cancellation.
LEMMA WriteOwes ==
  ASSUME TypeInv, CancelOwed, NEW t \in Threads, WriteTransition(t)
  PROVE  CancelOwed'
<1> DEFINE self == thread[t]
<1>0. /\ thread \in [Threads -> ThreadRow] /\ self \in ThreadRow /\ ShapeOK(self)
      /\ incident \in [Incidents -> IncidentRow]
      /\ self.inc \in Incidents /\ incident[self.inc] \in IncidentRow
      /\ self.to \in IncidentStatus
      /\ Moved(t) /\ self.step = "write" /\ UNCHANGED action /\ crashes' = crashes
  BY ThreadRows, StepMoves DEF TypeInv, TypeOK, ThreadStep, WriteTransition, At, ShapeOK
<1>1. NoApproval
  BY <1>0 DEF NoApproval
<1>2. \A u \in Threads : At(u, "cancel") => (At(u, "cancel"))' /\ thread'[u].inc = thread[u].inc
  BY <1>0 DEF Moved, At
<1>3. CASE UNCHANGED incident
  BY <1>0, <1>1, <1>2, <1>3, QuietOwed, StatementsKeepActive DEF StillCancels
<1>4. CASE TransitionRow(self.inc, self.to) /\ Transitioned(t)
  <2>1. /\ incident'[self.inc].status = self.to
        /\ \A i \in Incidents \ {self.inc} : incident'[i] = incident[i]
    BY <1>0, <1>4 DEF TransitionRow, SetIncident, IncidentRow
  <2>2. CASE self.to \in ActiveStatus
    <3>1. StillActive
      BY <2>1, <2>2 DEF StillActive, IsActive
    <3>2. QED
      BY <1>0, <1>1, <1>2, <3>1, QuietOwed DEF StillCancels
  <2>3. CASE self.to \in InactiveStatus
    <3>1. Goto(t, "cancel")
      BY <1>0, <1>4, <2>3 DEF Transitioned, ShapeOK, InactiveStatus
    <3>2. thread'[t].step = "cancel" /\ thread'[t].inc = self.inc
      BY <1>0, <3>1 DEF Goto, Become, ThreadRow
    <3>3. ASSUME NEW a \in Actions, crashes' = 0, action'[a].status = "approved",
                 ~(ForActiveIncident(a))'
          PROVE  \E u \in Threads : (At(u, "cancel"))' /\ thread'[u].inc = IncidentOf[a]
      <4>1. CASE IncidentOf[a] = self.inc
        BY <3>2, <4>1 DEF At
      <4>2. CASE IncidentOf[a] # self.inc
        BY <1>0, <1>2, <2>1, <3>3, <4>2, IncidentOfType
        DEF CancelOwed, ForActiveIncident, IsActive
      <4>3. QED
        BY <4>1, <4>2
    <3>4. QED
      BY <3>3 DEF CancelOwed
  <2>4. QED
    BY <1>0, <2>2, <2>3 DEF IncidentStatus
<1>5. QED
  BY <1>3, <1>4 DEF WriteTransition

\* The cancellation pays what was owed for its incident.
LEMMA CancelPays ==
  ASSUME TypeInv, CancelOwed, NEW t \in Threads, CancelActions(t)
  PROVE  CancelOwed'
<1>0. /\ action \in [Actions -> ActionRow]
      /\ Moved(t) /\ UNCHANGED incident /\ crashes' = crashes
  BY StepMoves DEF TypeInv, TypeOK, ThreadStep, CancelActions
<1>1. \A a \in Actions : action'[a].status = "approved" =>
        action[a].status = "approved" /\ IncidentOf[a] # thread[t].inc
  BY <1>0 DEF CancelActions, CancelForIncident, ActionRow
<1>2. \A u \in Threads \ {t} : thread'[u] = thread[u]
  BY <1>0 DEF Moved
<1>3. QED
  BY <1>0, <1>1, <1>2 DEF CancelOwed, ForActiveIncident, IsActive, At

LEMMA StepOwes ==
  ASSUME TypeInv, CancelOwed, NEW t \in Threads, ThreadStep(t)
  PROVE  CancelOwed'
<1> DEFINE self == thread[t]
<1>0. /\ self \in ThreadRow /\ ShapeOK(self) /\ Moved(t)
      /\ self.step # "idle" => self.inc \in Incidents
  BY ThreadRows, StepMoves
<1>1. self.step # "cancel" => StillCancels
  BY <1>0 DEF StillCancels, Moved, At
<1>u. /\ UNCHANGED incident => StillActive
      /\ UNCHANGED action => NoApproval
  BY DEF StillActive, IsActive, NoApproval
<1>2. CASE UNCHANGED <<incident, action, crashes>> /\ self.step # "cancel"
  BY <1>1, <1>2, <1>u, QuietOwed
<1>3. CASE UpdateInvestigation(t)
  BY <1>0, <1>1, <1>3, <1>u, QuietOwed, StatementsKeepActive
  DEF UpdateInvestigation, At, ThreadRow
<1>4. CASE StoreRecovery(t)
  BY <1>0, <1>1, <1>4, <1>u, QuietOwed, StatementsKeepActive DEF StoreRecovery, At, ThreadRow
<1>5. CASE Complete(t) \/ Fail(t)
  BY <1>0, <1>1, <1>5, <1>u, QuietOwed, StatementsKeepActive DEF Complete, Fail, At
<1>6. CASE ProposeAction(t)
  BY <1>0, <1>1, <1>6, <1>u, QuietOwed, StatementsApprove DEF ProposeAction, At
<1>7. CASE FinishExecution(t)
  <2>1. self.act \in Actions /\ ResultsFor(t) \subseteq ExecutionResult /\ self.step = "run"
    BY <1>0, <1>7 DEF FinishExecution, At, ShapeOK, ResultsFor, ExecutionResult
  <2>2. NoApproval
    BY <1>7, <2>1, StatementsApprove DEF FinishExecution
  <2>3. QED
    BY <1>1, <1>7, <1>u, <2>1, <2>2, QuietOwed DEF FinishExecution
<1>8. CASE MarkVerified(t) \/ Retry(t)
  <2>1. self.act \in Actions /\ self.step # "cancel"
    BY <1>0, <1>8 DEF MarkVerified, Retry, At, ShapeOK
  <2>2. NoApproval
    BY <1>8, <2>1, StatementsApprove DEF MarkVerified, Retry
  <2>3. QED
    BY <1>1, <1>8, <1>u, <2>1, <2>2, QuietOwed DEF MarkVerified, Retry
<1>9. QED
  BY <1>2, <1>3, <1>4, <1>5, <1>6, <1>7, <1>8, WriteOwes, CancelPays
  DEF ThreadStep, CheckTransition, ReadIncident, InvestigationFails, RereadIncident,
      Evaluate, CheckRecord, tables, At

LEMMA NextOwed == TypeInv /\ CancelOwed /\ [Next]_vars => CancelOwed'
<1> SUFFICES ASSUME TypeInv, CancelOwed, [Next]_vars PROVE CancelOwed'
  OBVIOUS
<1>0. /\ thread \in [Threads -> ThreadRow] /\ action \in [Actions -> ActionRow]
      /\ Workers \subseteq Threads /\ Handlers \subseteq Threads /\ crashes \in Nat
  BY DEF TypeInv, TypeOK, Threads
<1>u. /\ UNCHANGED incident => StillActive
      /\ UNCHANGED action => NoApproval
      /\ UNCHANGED thread => StillCancels
  BY DEF StillActive, IsActive, NoApproval, StillCancels, At
<1>1. ASSUME NEW t \in Threads, Crash(t) PROVE CancelOwed'
  BY <1>0, <1>1 DEF Crash, CancelOwed
<1>2. ASSUME NEW t \in Threads, NEW row, Begin(t, row) PROVE StillCancels
  BY <1>0, <1>2 DEF Begin, Become, StillCancels, At
<1>3. ASSUME NEW t \in Workers, WorkerClaims(t) PROVE CancelOwed'
  <2>1. ASSUME NEW i \in Incidents, StartInvestigation(t, i) PROVE CancelOwed'
    BY <1>0, <1>2, <1>u, <2>1, QuietOwed, StatementsKeepActive DEF StartInvestigation
  <2>2. ASSUME NEW a \in Actions, StartExecution(t, a) \/ StartRecovery(t, a) PROVE CancelOwed'
    BY <1>0, <1>2, <1>u, <2>2, QuietOwed, StatementsApprove DEF StartExecution, StartRecovery
  <2>3. QED
    BY <1>3, <2>1, <2>2 DEF WorkerClaims
<1>4. ASSUME NEW t \in Handlers, RequestArrives(t) PROVE CancelOwed'
  <2>1. UNCHANGED <<tables, crashes>> /\ \E row : Begin(t, row)
    BY <1>4
    DEF RequestArrives, RequestTransition, RequestRecord, RequestInvestigation, RequestResult
  <2>2. QED
    BY <1>0, <1>2, <1>u, <2>1, QuietOwed DEF tables
<1>5. ASSUME Environment PROVE CancelOwed'
  <2>1. ASSUME NEW i \in Incidents, MonitorTriggers(i) \/ IncidentLeaseExpires(i)
        PROVE  CancelOwed'
    BY <1>u, <2>1, QuietOwed, StatementsKeepActive DEF MonitorTriggers, IncidentLeaseExpires
  <2>2. ASSUME NEW a \in Actions, NEW d \in {"approve", "reject"}, EngineerDecides(a, d)
        PROVE  CancelOwed'
    <3>1. NoApproval
      BY <1>0, <2>2 DEF EngineerDecides, Decide, Decidable, SetAction, NoApproval
    <3>2. QED
      BY <1>u, <2>2, <3>1, QuietOwed DEF EngineerDecides
  <2>3. ASSUME NEW a \in Actions, PullRequestMerged(a) \/ ManifestMovedOn(a) PROVE CancelOwed'
    BY <1>u, <2>3, QuietOwed, StatementsApprove DEF PullRequestMerged, ManifestMovedOn
  <2>4. ASSUME NEW a \in Actions, Reported(a) PROVE CancelOwed'
    BY <1>u, <2>4, QuietOwed DEF Reported, RuntimeReports
  <2>5. ASSUME NEW a \in Actions, ActionLeaseExpires(a) PROVE CancelOwed'
    <3>1. \A t \in Threads : thread[t] \in ThreadRow
      BY <1>0
    <3>2. StillCancels
      BY <2>5, <3>1 DEF ActionLeaseExpires, StillCancels, At, ThreadRow
    <3>3. QED
      BY <1>u, <2>5, <3>2, QuietOwed, StatementsApprove DEF ActionLeaseExpires
  <2>6. QED
    BY <1>5, <2>1, <2>2, <2>3, <2>4, <2>5 DEF Environment
<1>6. CASE UNCHANGED vars
  BY <1>6, <1>u, QuietOwed DEF vars
<1>7. QED
  BY <1>1, <1>3, <1>4, <1>5, <1>6, StepOwes DEF Next

(***************************************************************************)
(* An approval whose incident has ended is withdrawn: whoever ends an      *)
(* incident goes on to cancel its actions, so what is left approved has a  *)
(* thread that is about to do so, unless a process died.                   *)
(***************************************************************************)
THEOREM CancellationIsOwed == Spec => []CancelOwed
<1>1. Init => CancelOwed
  BY DEF Init, RemediationInit, AbsentAction, CancelOwed
<1>2. QED
  BY <1>1, TypeInvariant, NextOwed, PTL DEF Spec

=============================================================================
