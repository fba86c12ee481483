----------------------------- MODULE Remediation -----------------------------
(***************************************************************************)
(* The remediation_actions and remediation_approvals tables and the        *)
(* statements RemediationRepository (and GitOpsRepository, where it writes *)
(* an action) run on them.  Each operator is one committed transaction and *)
(* constrains `action' and, when an execution starts, `observed'.          *)
(*                                                                         *)
(* An action identifier stands for one deduplication key: an incident, an  *)
(* action type and a target.  `observed' is the part of the deployment and *)
(* change tables that RecoveryEvaluator consults: the latest state of the  *)
(* action's target that occurred at or after execution_started_at.         *)
(*                                                                         *)
(* Abstracted: targets, evidence, actor names and identifiers of external  *)
(* executions (tracked says whether one is stored; a callback that names   *)
(* another one is refused and changes nothing), and verification timers.   *)
(***************************************************************************)
EXTENDS Incidents

CONSTANTS
  Actions,        \* identifiers of remediation actions
  IncidentOf,     \* the incident an action was proposed for
  WorkerAdapters  \* the adapters a worker process is configured with

ASSUME IncidentOfType == IncidentOf \in [Actions -> Incidents]
ASSUME WorkerAdaptersType == WorkerAdapters \subseteq {"webhook"}

VARIABLES action, observed

Adapter == {"webhook", "github_pr"}
Finished == {"rejected", "succeeded", "failed", "cancelled"}
ExecutionResult == {"accepted", "succeeded", "failed"}
ActionStatus == {"proposed", "approved", "executing"} \cup Finished

\* decision is the remediation_approvals row; verified is recovery_verified_at.
ActionRow ==
  [status : ActionStatus \cup {"absent"},
   adapter : Adapter,
   decision : {"none", "approve", "reject"},
   lease : Lease,
   tracked : BOOLEAN,
   verified : BOOLEAN]

AbsentAction ==
  [status |-> "absent", adapter |-> "webhook", decision |-> "none",
   lease |-> "none", tracked |-> FALSE, verified |-> FALSE]

\* "restored": traffic came back after a removal had been reported.
Observation == {"none", "serving", "removed", "restored"}
RemovalReported == {"removed", "restored"}

\* UPDATE remediation_actions SET ... WHERE id = a
SetAction(a, row) == action' = [action EXCEPT ![a] = row] /\ UNCHANGED observed

RemediationInit ==
  /\ action = [a \in Actions |-> AbsentAction]
  /\ observed = [a \in Actions |-> "none"]

Started(a) == action[a].status \in {"executing", "succeeded", "failed"}
ForActiveIncident(a) == IsActive(IncidentOf[a])

\* propose: inserts the action, or finds the one with the same key.
Propose(a, adapter) ==
  IF action[a].status = "absent"
  THEN SetAction(a, [AbsentAction EXCEPT !.status = "proposed",
                                         !.adapter = adapter])
  ELSE UNCHANGED <<action, observed>>

(***************************************************************************)
(* decide and reject_external: one decision per action, taken while it is  *)
(* proposed and its incident active.  Repeating a decision, or any other   *)
(* state, changes nothing.                                                 *)
(***************************************************************************)
Decidable(a) ==
  /\ action[a].status = "proposed"
  /\ action[a].decision = "none"
  /\ ForActiveIncident(a)

Decide(a, decision) ==
  /\ Decidable(a)
  /\ SetAction(a, [action[a] EXCEPT
                     !.decision = decision,
                     !.status = IF decision = "approve" THEN "approved"
                                                        ELSE "rejected"])

(***************************************************************************)
(* approve_and_start_external: a merged pull request is decision and start *)
(* in one.  execution_started_at becomes the time of the merge, so runtime *)
(* reports between the merge and its webhook already count.                *)
(***************************************************************************)
ApproveAndStartExternal(a) ==
  /\ action[a].adapter = "github_pr"
  /\ Decidable(a)
  /\ action' = [action EXCEPT ![a] =
                  [action[a] EXCEPT !.decision = "approve",
                                    !.status = "executing",
                                    !.tracked = TRUE,
                                    !.lease = "none"]]
  /\ \E o \in Observation : observed' = [observed EXCEPT ![a] = o]

\* Mutants of ExecutionClaimable: a proposal is enough; an execution is never
\* taken over; it is taken over whether or not its lease has run out; only an
\* expired lease makes a row claimable.
ClaimableProposal(a) ==
  ForActiveIncident(a) /\ action[a].status \in {"proposed", "approved"}

ClaimableOnce(a) == ForActiveIncident(a) /\ action[a].status = "approved"

ClaimableLive(a) ==
  /\ ForActiveIncident(a)
  /\ \/ action[a].status = "approved"
     \/ action[a].status = "executing" /\ ~action[a].tracked

ClaimableExpired(a) ==
  /\ ForActiveIncident(a)
  /\ action[a].status \in {"approved", "executing"}
  /\ action[a].lease = "expired"
  /\ ~action[a].tracked

(***************************************************************************)
(* claim_approved, for one row of the batch: a fresh approval, or an       *)
(* execution whose worker let its lease run out before an external         *)
(* identifier was stored.                                                  *)
(***************************************************************************)
ExecutionClaimable(a) ==
  /\ ForActiveIncident(a)
  /\ \/ action[a].status = "approved"
     \/ /\ action[a].status = "executing"
        /\ action[a].lease = "expired"
        /\ ~action[a].tracked

\* The first start, which COALESCE keeps, is the time at which the worker's pass
\* began: runtime reports between that and the claim already count.
ClaimApproved(a) ==
  /\ ExecutionClaimable(a)
  /\ action' = [action EXCEPT ![a] =
                  [action[a] EXCEPT !.status = "executing", !.lease = "live"]]
  /\ \E o \in IF action[a].status = "approved" THEN Observation ELSE {observed[a]} :
       observed' = [observed EXCEPT ![a] = o]

\* Mutants of CompleteExecution: the result is stored as the status; the
\* result is stored whatever the status was.
CompleteVerbatim(a, result) ==
  IF action[a].status = "executing"
  THEN SetAction(a, [action[a] EXCEPT !.status = result, !.tracked = TRUE,
                                      !.lease = "none"])
  ELSE UNCHANGED <<action, observed>>

CompleteAnyStatus(a, result) ==
  SetAction(a, [action[a] EXCEPT
                  !.status = IF result = "accepted" THEN "executing" ELSE result,
                  !.tracked = TRUE, !.lease = "none"])

(***************************************************************************)
(* complete_execution: the only guard is status = 'executing'; neither the *)
(* lease nor its owner is compared.                                        *)
(***************************************************************************)
CompleteExecution(a, result) ==
  IF action[a].status = "executing"
  THEN SetAction(a, [action[a] EXCEPT
                       !.status = IF result = "accepted" THEN "executing"
                                                         ELSE result,
                       !.tracked = TRUE,
                       !.lease = "none"])
  ELSE UNCHANGED <<action, observed>>

\* claim_recovery_due, for one row of the batch.
ClaimRecovery(a) ==
  /\ ForActiveIncident(a)
  /\ action[a].status = "succeeded"
  /\ ~action[a].verified
  /\ action[a].lease # "live"
  /\ SetAction(a, [action[a] EXCEPT !.lease = "live"])

\* Mutant of CancelForIncident: a running execution is cancelled as well.
CancelRunning(i) ==
  /\ action' = [a \in Actions |->
                  IF /\ IncidentOf[a] = i
                     /\ action[a].status \in {"proposed", "approved", "executing"}
                  THEN [action[a] EXCEPT !.status = "cancelled", !.lease = "none"]
                  ELSE action[a]]
  /\ UNCHANGED observed

\* cancel_for_incident: every action of i that has not started.
CancelForIncident(i) ==
  /\ action' = [a \in Actions |->
                  IF /\ IncidentOf[a] = i
                     /\ action[a].status \in {"proposed", "approved"}
                  THEN [action[a] EXCEPT !.status = "cancelled", !.lease = "none"]
                  ELSE action[a]]
  /\ UNCHANGED observed

\* cancel_stale_proposal: the manifest moved on since the investigation.
CancelStaleProposal(a) ==
  /\ action[a].status = "proposed"
  /\ action[a].adapter = "github_pr"
  /\ SetAction(a, [action[a] EXCEPT !.status = "cancelled"])

\* reschedule_recovery: releases the lease, whoever holds it.
RescheduleRecovery(a) ==
  IF action[a].status = "succeeded" /\ ~action[a].verified
  THEN SetAction(a, [action[a] EXCEPT !.lease = "none"])
  ELSE UNCHANGED <<action, observed>>

\* mark_recovery_verified: by id, whatever the row holds.
MarkRecoveryVerified(a) ==
  SetAction(a, [action[a] EXCEPT !.verified = TRUE, !.lease = "none"])

(***************************************************************************)
(* A deployment or change event reaches the API: the target's traffic is   *)
(* removed, or it serves.  latest_state orders by occurrence, so a report  *)
(* from before the start never becomes the latest.                         *)
(***************************************************************************)
RuntimeReports(a, removed) ==
  /\ Started(a)
  /\ observed' = [observed EXCEPT ![a] =
                    IF removed THEN "removed"
                    ELSE IF @ \in RemovalReported THEN "restored"
                    ELSE "serving"]
  /\ UNCHANGED action

=============================================================================
