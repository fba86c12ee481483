------------------------------ MODULE Incidents ------------------------------
(***************************************************************************)
(* The incidents table and the statements IncidentRepository runs on it.   *)
(* Each operator below is one committed transaction: its guard is the      *)
(* WHERE clause (or the unique index) and its effect the columns it sets.  *)
(* It constrains `incident' only; the processes that issue the statements  *)
(* are in ControlPlane.                                                    *)
(*                                                                         *)
(* Abstracted: summaries, severities and the monitor's numbers; retry      *)
(* timers (investigation_next_attempt_at), because any finite delay may    *)
(* have elapsed between two transactions.  Of the evidence column only the *)
(* "recovery" key is kept, as the epoch in which that recovery was         *)
(* measured.  An epoch counts how often the incident became active.        *)
(***************************************************************************)
EXTENDS Naturals

CONSTANTS
  Incidents,    \* identifiers of incident rows
  Monitors,     \* identifiers of monitors
  MonitorOf,    \* the monitor whose events create the incident
  MaxEpoch      \* bound: activations of one incident that are told apart

ASSUME MonitorOfType == MonitorOf \in [Incidents -> Monitors]
ASSUME MaxEpochType == MaxEpoch \in Nat \ {0}

VARIABLE incident

ActiveStatus == {"open", "investigating"}
InactiveStatus == {"resolved", "closed"}
IncidentStatus == ActiveStatus \cup InactiveStatus
InvestigationStatus == {"pending", "running", "completed", "failed"}

\* A lease column: NULL, in the future, or in the past.
Lease == {"none", "live", "expired"}

\* evidence.recovery: the epoch it was measured in, 0 when the key is missing.
NoRecovery == 0

\* One row.  verifiedEvent: the timeline holds a 'recovery_verified' event.
IncidentRow ==
  [status : IncidentStatus \cup {"absent"},
   investigation : InvestigationStatus,
   lease : Lease,
   recovery : Nat,
   verifiedEvent : BOOLEAN,
   epoch : Nat]

AbsentIncident ==
  [status |-> "absent", investigation |-> "pending", lease |-> "none",
   recovery |-> NoRecovery, verifiedEvent |-> FALSE, epoch |-> 0]

IsActive(i) == incident[i].status \in ActiveStatus

\* Another row of i's monitor already occupies the partial unique index.
IndexTaken(i) ==
  \E j \in Incidents \ {i} : MonitorOf[j] = MonitorOf[i] /\ IsActive(j)

\* UPDATE incidents SET ... WHERE id = i
SetIncident(i, row) == incident' = [incident EXCEPT ![i] = row]

IncidentsInit == incident = [i \in Incidents |-> AbsentIncident]

\* Mutant of CreateIncident: the index is only consulted by an update.
CreateUnindexed(i) ==
  /\ incident[i].status = "absent"
  /\ SetIncident(i, [AbsentIncident EXCEPT !.status = "open", !.epoch = 1])

(***************************************************************************)
(* create: a monitor event inserts an open incident.  When the monitor     *)
(* already has an active one, ON CONFLICT returns it and only the timeline *)
(* grows ('signal_repeated'), which this state does not show.              *)
(***************************************************************************)
CreateIncident(i) ==
  /\ incident[i].status = "absent"
  /\ ~IndexTaken(i)
  /\ SetIncident(i, [AbsentIncident EXCEPT !.status = "open", !.epoch = 1])

\* Mutant of ClaimInvestigation: an expired lease alone makes a row claimable.
ClaimExpiredInvestigation(i) ==
  /\ IsActive(i)
  /\ incident[i].investigation # "completed"
  /\ incident[i].lease # "live"
  /\ SetIncident(i, [incident[i] EXCEPT !.investigation = "running",
                                        !.lease = "live"])

(***************************************************************************)
(* claim_investigations, for one row of the batch.                         *)
(***************************************************************************)
ClaimInvestigation(i) ==
  /\ IsActive(i)
  /\ incident[i].investigation \in {"pending", "failed"}
  /\ incident[i].lease # "live"
  /\ SetIncident(i, [incident[i] EXCEPT !.investigation = "running",
                                        !.lease = "live"])

\* complete_investigation: by id, whatever the row holds.
CompleteInvestigation(i) ==
  SetIncident(i, [incident[i] EXCEPT !.investigation = "completed",
                                     !.lease = "none"])

\* fail_investigation: by id, whatever the row holds.
FailInvestigation(i) ==
  SetIncident(i, [incident[i] EXCEPT !.investigation = "failed",
                                     !.lease = "none"])

\* update: the evidence column is replaced as a whole, so the recovery key
\* becomes the one the caller read earlier.
UpdateEvidence(i, recovery) ==
  SetIncident(i, [incident[i] EXCEPT !.recovery = recovery])

\* Mutant of TransitionRefused: the index is only consulted by an insert.
NeverRefused(i, to) == FALSE

\* The unique index refuses to make i active.
TransitionRefused(i, to) ==
  to \in ActiveStatus /\ ~IsActive(i) /\ IndexTaken(i)

(***************************************************************************)
(* transition: sets the status under a row lock without looking at the one *)
(* it replaces.  The epoch stops at MaxEpoch, which stands for all later   *)
(* ones.                                                                   *)
(***************************************************************************)
NextEpoch(i) == IF incident[i].epoch < MaxEpoch THEN incident[i].epoch + 1
                                                ELSE MaxEpoch

TransitionRow(i, to) ==
  /\ ~TransitionRefused(i, to)
  /\ SetIncident(i, [incident[i] EXCEPT
                       !.status = to,
                       !.epoch = IF to \in ActiveStatus /\ ~IsActive(i)
                                 THEN NextEpoch(i) ELSE @])

(***************************************************************************)
(* record_recovery: merges the key into the evidence that is there now and *)
(* appends the event.  It does not look at the status.  A payload equal to *)
(* the stored one returns early and leaves the row as it is.               *)
(***************************************************************************)
RecordRecovery(i, measured) ==
  SetIncident(i, [incident[i] EXCEPT !.recovery = measured,
                                     !.verifiedEvent = TRUE])

\* The clock passes investigation_lease_expires_at.
InvestigationLeaseExpires(i) ==
  /\ incident[i].lease = "live"
  /\ SetIncident(i, [incident[i] EXCEPT !.lease = "expired"])

\* The timeline of an incident: which status its service lets follow which.
Allowed ==
  [open |-> {"investigating", "resolved", "closed"},
   investigating |-> {"open", "resolved", "closed"},
   resolved |-> {"open", "closed"},
   closed |-> {"open"}]

(***************************************************************************)
(* The database keeps at most one active incident per monitor, whichever   *)
(* process reopens or resumes one (incidents_active_monitor_unique_idx).   *)
(***************************************************************************)
OneActivePerMonitor ==
  \A i, j \in Incidents :
    IsActive(i) /\ IsActive(j) /\ MonitorOf[i] = MonitorOf[j] => i = j

(***************************************************************************)
(* Every process that writes the table keeps its promise to the others.    *)
(***************************************************************************)
Lifecycle == INSTANCE IncidentContract WITH
  Cases <- Incidents,
  MonitorOf <- MonitorOf,
  status <- [i \in Incidents |-> incident[i].status],
  recovered <- {i \in Incidents : incident[i].verifiedEvent}

LifecycleSpec == Lifecycle!Spec

=============================================================================
