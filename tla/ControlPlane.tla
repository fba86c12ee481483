---------------------------- MODULE ControlPlane ----------------------------
(***************************************************************************)
(* The control plane: worker processes and API requests that share the     *)
(* incident and remediation tables and interleave between transactions.    *)
(*                                                                         *)
(* A thread runs one job at a time, a sequence of steps; a step is one     *)
(* transaction with the local computation before it, and what a job read   *)
(* earlier it keeps in its thread record.  A worker claims a batch and     *)
(* works through it in order; here each claimed row is the job of a thread *)
(* of its own, which allows every interleaving a batch allows.  Deciding   *)
(* an action, the GitHub merge and the stale-manifest cancellation are     *)
(* single transactions and need no thread.                                 *)
(*                                                                         *)
(*   investigate   InvestigationWorker.run_once                            *)
(*   execute       ActionWorker.run_once                                   *)
(*   recover       RecoveryWorker.run_once                                 *)
(*   transition    PATCH /v1/incidents/{id}                                *)
(*   record        POST /v1/incidents/{id}/recovery                        *)
(*   reinvestigate POST /v1/investigations/{id}                            *)
(*   result        POST /v1/remediation/actions/{id}/result, and GitHub's  *)
(*                 deployment_status                                       *)
(***************************************************************************)
EXTENDS Remediation

CONSTANTS
  Workers,      \* rows being worked on by worker processes
  Handlers,     \* API requests in progress
  None,         \* no row
  Requests,     \* bound: the kinds of API requests that arrive
  MaxCrashes    \* bound: how many processes may die

Threads == Workers \cup Handlers

ASSUME NoneType == None \notin Incidents \cup Actions
ASSUME ThreadsType == Workers \cap Handlers = {}
ASSUME RequestsType ==
  Requests \subseteq {"transition", "record", "reinvestigate", "result"}
ASSUME MaxCrashesType == MaxCrashes \in Nat

VARIABLES thread, crashes

vars == <<incident, action, observed, thread, crashes>>
tables == <<incident, action, observed>>

WorkerJobs == {"investigate", "execute", "recover"}
HandlerJobs == {"transition", "record", "reinvestigate", "result"}

Steps == {"idle", "check", "write", "cancel", "read", "update", "reread",
          "propose", "complete", "fail", "run", "evaluate", "record", "store",
          "mark", "retry"}

Reports == {"none", "probable_cause", "confirmed_cause", "other"}

\* status and recovery are what the job read earlier; to is the status it asks
\* for; lost says that the lease it was claimed under has run out.
ThreadRow ==
  [job : {"none"} \cup WorkerJobs \cup HandlerJobs,
   step : Steps,
   inc : Incidents \cup {None},
   act : Actions \cup {None},
   status : IncidentStatus \cup {"none"},
   recovery : Nat,
   to : IncidentStatus \cup {"none"},
   report : Reports,
   lost : BOOLEAN]

Idle ==
  [job |-> "none", step |-> "idle", inc |-> None, act |-> None,
   status |-> "none", recovery |-> NoRecovery, to |-> "none",
   report |-> "none", lost |-> FALSE]

Init ==
  /\ IncidentsInit
  /\ RemediationInit
  /\ thread = [t \in Threads |-> Idle]
  /\ crashes = 0

At(t, step) == thread[t].step = step
Become(t, row) == thread' = [thread EXCEPT ![t] = row]
Goto(t, step) == Become(t, [thread[t] EXCEPT !.step = step])
Finish(t) == Become(t, Idle)
Begin(t, row) == At(t, "idle") /\ Become(t, row)

(***************************************************************************)
(* An exception: the workers record it in one more transaction, a request  *)
(* is answered with an error.                                              *)
(***************************************************************************)
Raise(t) ==
  CASE thread[t].job = "investigate" -> Goto(t, "fail")
    [] thread[t].job = "recover"     -> Goto(t, "retry")
    [] OTHER                         -> Finish(t)

-----------------------------------------------------------------------------
(* Jobs begin                                                              *)

StartInvestigation(t, i) ==
  /\ ClaimInvestigation(i)
  /\ Begin(t, [Idle EXCEPT
                 !.job = "investigate", !.inc = i, !.to = "investigating",
                 !.step = IF incident[i].status = "open" THEN "check"
                                                         ELSE "read"])
  /\ UNCHANGED <<action, observed, crashes>>

StartExecution(t, a) ==
  /\ ClaimApproved(a)
  /\ Begin(t, [Idle EXCEPT !.job = "execute", !.act = a,
                           !.inc = IncidentOf[a], !.step = "run"])
  /\ UNCHANGED <<incident, crashes>>

StartRecovery(t, a) ==
  /\ ClaimRecovery(a)
  /\ Begin(t, [Idle EXCEPT !.job = "recover", !.act = a, !.to = "resolved",
                           !.inc = IncidentOf[a], !.step = "evaluate"])
  /\ UNCHANGED <<incident, crashes>>

RequestTransition(t, i, to) ==
  /\ incident[i].status # "absent"
  /\ Begin(t, [Idle EXCEPT !.job = "transition", !.inc = i, !.to = to,
                           !.step = "check"])
  /\ UNCHANGED <<tables, crashes>>

\* The client reports a recovery it measured now, in the current epoch.
RequestRecord(t, i) ==
  /\ incident[i].status # "absent"
  /\ Begin(t, [Idle EXCEPT !.job = "record", !.inc = i, !.step = "record",
                           !.recovery = incident[i].epoch])
  /\ UNCHANGED <<tables, crashes>>

\* The handler reads the incident once and proposes from that copy at the end.
RequestInvestigation(t, i) ==
  /\ incident[i].status # "absent"
  /\ Begin(t, [Idle EXCEPT !.job = "reinvestigate", !.inc = i, !.step = "read",
                           !.status = incident[i].status])
  /\ UNCHANGED <<tables, crashes>>

\* A result is refused unless the action is executing when it is read.
RequestResult(t, a) ==
  /\ action[a].status = "executing"
  /\ Begin(t, [Idle EXCEPT !.job = "result", !.act = a,
                           !.inc = IncidentOf[a], !.step = "run"])
  /\ UNCHANGED <<tables, crashes>>

-----------------------------------------------------------------------------
(* IncidentService.transition, for the jobs that call it                   *)

\* Mutant of Transitioned: closing an incident cancels nothing.
TransitionedResolvedOnly(t) ==
  CASE thread[t].job = "investigate" -> Goto(t, "read")
    [] thread[t].to = "resolved"     -> Goto(t, "cancel")
    [] OTHER                         -> Finish(t)

\* What follows a transition that took effect or was not needed.
Transitioned(t) ==
  CASE thread[t].job = "investigate"          -> Goto(t, "read")
    [] thread[t].to \in InactiveStatus        -> Goto(t, "cancel")
    [] OTHER                                  -> Finish(t)

\* Mutant of CheckTransition: no recovery is asked for.
CheckAllowedOnly(t) ==
  LET i == thread[t].inc
      to == thread[t].to
  IN  /\ At(t, "check")
      /\ \/ incident[i].status = to /\ Transitioned(t)
         \/ /\ incident[i].status # to
            /\ to \in Allowed[incident[i].status]
            /\ Goto(t, "write")
         \/ /\ incident[i].status # to
            /\ to \notin Allowed[incident[i].status]
            /\ Raise(t)
      /\ UNCHANGED <<tables, crashes>>

\* The checks, on a row read without a lock.
CheckTransition(t) ==
  LET i == thread[t].inc
      to == thread[t].to
      permitted == /\ to = "resolved" => incident[i].recovery # NoRecovery
                   /\ to \in Allowed[incident[i].status]
  IN  /\ At(t, "check")
      /\ \/ incident[i].status = to /\ Transitioned(t)
         \/ incident[i].status # to /\ permitted /\ Goto(t, "write")
         \/ incident[i].status # to /\ ~permitted /\ Raise(t)
      /\ UNCHANGED <<tables, crashes>>

WriteTransition(t) ==
  /\ At(t, "write")
  /\ \/ TransitionRow(thread[t].inc, thread[t].to) /\ Transitioned(t)
     \/ /\ TransitionRefused(thread[t].inc, thread[t].to)
        /\ Raise(t)
        /\ UNCHANGED incident
  /\ UNCHANGED <<action, observed, crashes>>

\* A transaction of its own, after the transition has committed.
CancelActions(t) ==
  /\ At(t, "cancel")
  /\ CancelForIncident(thread[t].inc)
  /\ IF thread[t].job = "recover" THEN Goto(t, "complete") ELSE Finish(t)
  /\ UNCHANGED <<incident, crashes>>

-----------------------------------------------------------------------------
(* InvestigationAgent.investigate, for the jobs that call it               *)

ReadIncident(t) ==
  /\ At(t, "read")
  /\ Become(t, [thread[t] EXCEPT !.step = "update",
                                 !.recovery = incident[thread[t].inc].recovery])
  /\ UNCHANGED <<tables, crashes>>

(***************************************************************************)
(* DataHub has answered; the report confirms a cause only if the incident  *)
(* as it was read had a verified recovery.  Then the evidence is written   *)
(* back as a whole.                                                        *)
(***************************************************************************)
ReportsFor(recovery) ==
  {"probable_cause", "other"} \cup
    (IF recovery = NoRecovery THEN {} ELSE {"confirmed_cause"})

AfterReport(job, report) ==
  CASE job = "investigate"   -> "reread"
    [] job = "reinvestigate" -> "propose"
    [] OTHER -> IF report = "confirmed_cause" THEN "check" ELSE "retry"

UpdateInvestigation(t) ==
  LET self == thread[t]
  IN  /\ At(t, "update")
      /\ \E report \in ReportsFor(self.recovery) :
           /\ UpdateEvidence(self.inc, self.recovery)
           /\ Become(t, [self EXCEPT !.report = report,
                                     !.recovery = NoRecovery,
                                     !.step = AfterReport(self.job, report)])
      /\ UNCHANGED <<action, observed, crashes>>

\* The model has no DataHub URN, or DataHub or the release context raises:
\* nothing has been written by then.
InvestigationFails(t) ==
  /\ At(t, "update") \/ At(t, "check")
  /\ At(t, "check") => thread[t].job = "investigate"
  /\ Raise(t)
  /\ UNCHANGED <<tables, crashes>>

-----------------------------------------------------------------------------
(* The rest of an investigation                                            *)

RereadIncident(t) ==
  /\ At(t, "reread")
  /\ Become(t, [thread[t] EXCEPT !.step = "propose",
                                 !.status = incident[thread[t].inc].status])
  /\ UNCHANGED <<tables, crashes>>

(***************************************************************************)
(* propose_from_investigation looks at the status the caller read.  The    *)
(* root cause of a probable report selects the action and its adapter, or  *)
(* none (its rollback was already observed).                               *)
(***************************************************************************)
ProposeAction(t) ==
  LET self == thread[t]
  IN  /\ At(t, "propose")
      /\ \/ /\ self.status \in ActiveStatus
            /\ self.report = "probable_cause"
            /\ \E a \in Actions, adapter \in Adapter :
                 IncidentOf[a] = self.inc /\ Propose(a, adapter)
         \/ UNCHANGED <<action, observed>>
      /\ Goto(t, "complete")
      /\ UNCHANGED <<incident, crashes>>

Complete(t) ==
  /\ At(t, "complete")
  /\ CompleteInvestigation(thread[t].inc)
  /\ IF thread[t].job = "recover" THEN Goto(t, "mark") ELSE Finish(t)
  /\ UNCHANGED <<action, observed, crashes>>

Fail(t) ==
  /\ At(t, "fail")
  /\ FailInvestigation(thread[t].inc)
  /\ Finish(t)
  /\ UNCHANGED <<action, observed, crashes>>

-----------------------------------------------------------------------------
(* Execution                                                               *)

(***************************************************************************)
(* ActionWorker: the adapter answers or raises and the outcome is stored;  *)
(* an action whose adapter is not configured fails.  A callback delivers a *)
(* final result only.                                                      *)
(***************************************************************************)
ResultsFor(t) ==
  LET self == thread[t]
  IN  IF self.job = "result" THEN {"succeeded", "failed"}
      ELSE IF action[self.act].adapter \in WorkerAdapters THEN ExecutionResult
      ELSE {"failed"}

FinishExecution(t) ==
  /\ At(t, "run")
  /\ \E result \in ResultsFor(t) : CompleteExecution(thread[t].act, result)
  /\ Finish(t)
  /\ UNCHANGED <<incident, crashes>>

-----------------------------------------------------------------------------
(* Recovery                                                                *)

\* Mutant of Evaluate: any report of the runtime since the start will do.
EvaluateAnyReport(t) ==
  /\ At(t, "evaluate")
  /\ \/ /\ observed[thread[t].act] # "none"
        /\ Become(t, [thread[t] EXCEPT
                         !.step = "record",
                         !.recovery = incident[thread[t].inc].epoch])
     \/ Goto(t, "retry")
  /\ UNCHANGED <<tables, crashes>>

(***************************************************************************)
(* RecoveryEvaluator.evaluate: the target's latest state since the start   *)
(* must be a removal, and the fresh window must pass, which it may or may  *)
(* not.                                                                    *)
(***************************************************************************)
Evaluate(t) ==
  /\ At(t, "evaluate")
  /\ \/ /\ observed[thread[t].act] = "removed"
        /\ Become(t, [thread[t] EXCEPT
                         !.step = "record",
                         !.recovery = incident[thread[t].inc].epoch])
     \/ Goto(t, "retry")
  /\ UNCHANGED <<tables, crashes>>

\* IncidentService.record_recovery: the check, on a row read without a lock.
CheckRecord(t) ==
  /\ At(t, "record")
  /\ IF incident[thread[t].inc].status = "closed" THEN Raise(t)
                                                  ELSE Goto(t, "store")
  /\ UNCHANGED <<tables, crashes>>

StoreRecovery(t) ==
  /\ At(t, "store")
  /\ RecordRecovery(thread[t].inc, thread[t].recovery)
  /\ IF thread[t].job = "recover" THEN Goto(t, "read") ELSE Finish(t)
  /\ UNCHANGED <<action, observed, crashes>>

MarkVerified(t) ==
  /\ At(t, "mark")
  /\ MarkRecoveryVerified(thread[t].act)
  /\ Finish(t)
  /\ UNCHANGED <<incident, crashes>>

Retry(t) ==
  /\ At(t, "retry")
  /\ RescheduleRecovery(thread[t].act)
  /\ Finish(t)
  /\ UNCHANGED <<incident, crashes>>

-----------------------------------------------------------------------------
(* The environment                                                         *)

MonitorTriggers(i) ==
  CreateIncident(i) /\ UNCHANGED <<action, observed, thread, crashes>>

EngineerDecides(a, decision) ==
  Decide(a, decision) /\ UNCHANGED <<incident, thread, crashes>>

PullRequestMerged(a) ==
  ApproveAndStartExternal(a) /\ UNCHANGED <<incident, thread, crashes>>

ManifestMovedOn(a) ==
  CancelStaleProposal(a) /\ UNCHANGED <<incident, thread, crashes>>

Reported(a) ==
  /\ \E removed \in BOOLEAN : RuntimeReports(a, removed)
  /\ UNCHANGED <<incident, thread, crashes>>

ActionLeaseExpires(a) ==
  /\ action[a].lease = "live"
  /\ SetAction(a, [action[a] EXCEPT !.lease = "expired"])
  /\ thread' = [t \in Threads |->
                  IF thread[t].act = a /\ thread[t].job \in WorkerJobs
                  THEN [thread[t] EXCEPT !.lost = TRUE] ELSE thread[t]]
  /\ UNCHANGED <<incident, crashes>>

IncidentLeaseExpires(i) ==
  InvestigationLeaseExpires(i) /\ UNCHANGED <<action, observed, thread, crashes>>

\* A process dies between two transactions; the tables stay as they are.
Crash(t) ==
  /\ ~At(t, "idle")
  /\ crashes < MaxCrashes
  /\ crashes' = crashes + 1
  /\ Finish(t)
  /\ UNCHANGED tables

-----------------------------------------------------------------------------
ThreadStep(t) ==
  \/ CheckTransition(t) \/ WriteTransition(t) \/ CancelActions(t)
  \/ ReadIncident(t) \/ UpdateInvestigation(t) \/ InvestigationFails(t)
  \/ RereadIncident(t) \/ ProposeAction(t) \/ Complete(t) \/ Fail(t)
  \/ FinishExecution(t)
  \/ Evaluate(t) \/ CheckRecord(t) \/ StoreRecovery(t) \/ MarkVerified(t)
  \/ Retry(t)

WorkerClaims(t) ==
  \/ \E i \in Incidents : StartInvestigation(t, i)
  \/ \E a \in Actions : StartExecution(t, a) \/ StartRecovery(t, a)

RequestArrives(t) ==
  \/ \E i \in Incidents :
       \/ /\ "transition" \in Requests
          /\ \E to \in IncidentStatus : RequestTransition(t, i, to)
       \/ "record" \in Requests /\ RequestRecord(t, i)
       \/ "reinvestigate" \in Requests /\ RequestInvestigation(t, i)
  \/ "result" \in Requests /\ \E a \in Actions : RequestResult(t, a)

Environment ==
  \/ \E i \in Incidents : MonitorTriggers(i) \/ IncidentLeaseExpires(i)
  \/ \E a \in Actions :
       \/ \E decision \in {"approve", "reject"} : EngineerDecides(a, decision)
       \/ PullRequestMerged(a) \/ ManifestMovedOn(a)
       \/ Reported(a) \/ ActionLeaseExpires(a)

Next ==
  \/ \E t \in Threads : ThreadStep(t) \/ Crash(t)
  \/ \E t \in Workers : WorkerClaims(t)
  \/ \E t \in Handlers : RequestArrives(t)
  \/ Environment

Spec == Init /\ [][Next]_vars

(***************************************************************************)
(* Fairness.  A process that is running takes its next step.  The loop of  *)
(* ControlPlaneWorker claims every kind of work in each pass, oldest       *)
(* first, so a row that stays claimable, or keeps becoming so, is claimed. *)
(* Clocks pass the expiry of a lease.  Nothing is assumed of engineers,    *)
(* clients, GitHub, the runtime or the monitors.                           *)
(***************************************************************************)
Fairness ==
  /\ \A t \in Threads : WF_vars(ThreadStep(t))
  /\ \A i \in Incidents : /\ SF_vars(\E t \in Workers : StartInvestigation(t, i))
                          /\ WF_vars(IncidentLeaseExpires(i))
  /\ \A a \in Actions : /\ SF_vars(\E t \in Workers : StartExecution(t, a))
                        /\ SF_vars(\E t \in Workers : StartRecovery(t, a))
                        /\ WF_vars(ActionLeaseExpires(a))

FairSpec == Spec /\ Fairness

-----------------------------------------------------------------------------
(* Properties                                                              *)

\* Every table and every thread record has its type.
TypeOK ==
  /\ incident \in [Incidents -> IncidentRow]
  /\ action \in [Actions -> ActionRow]
  /\ observed \in [Actions -> Observation]
  /\ thread \in [Threads -> ThreadRow]
  /\ crashes \in Nat

(***************************************************************************)
(* The status of an action and its approval row agree, although decide,    *)
(* the merge, claims, cancellations and results write them from different  *)
(* processes: what executes or has executed was approved.                  *)
(***************************************************************************)
ApprovalInv ==
  \A a \in Actions :
    LET row == action[a]
    IN  /\ Started(a) \/ row.status = "approved" => row.decision = "approve"
        /\ row.status = "rejected" <=> row.decision = "reject"
        /\ row.status = "proposed" => row.decision = "none"

(***************************************************************************)
(* An action is marked verified only if it succeeded, the runtime reported *)
(* the traffic of its target removed, and its incident's timeline holds a  *)
(* verified recovery, however many transactions apart the recovery worker  *)
(* looked at them (so the CHECK of migration 003 never fails).             *)
(***************************************************************************)
VerifiedMeansRecovered ==
  \A a \in Actions :
    action[a].verified =>
      /\ action[a].status = "succeeded"
      /\ observed[a] \in RemovalReported
      /\ incident[IncidentOf[a]].verifiedEvent

(***************************************************************************)
(* No interleaving of API requests, investigations and recoveries resolves *)
(* an incident whose timeline has no verified recovery, even though the    *)
(* check of the transition and its write are different transactions.       *)
(***************************************************************************)
ResolvedAfterRecovery ==
  \A i \in Incidents :
    incident[i].status = "resolved" => incident[i].verifiedEvent

(***************************************************************************)
(* Two workers execute the same action at once only if one of them has     *)
(* outlived the lease it claimed the action under.                         *)
(***************************************************************************)
Executing(t) == thread[t].job = "execute"

ExecutionExclusive ==
  \A t, u \in Threads :
    /\ t # u
    /\ Executing(t) /\ Executing(u)
    /\ thread[t].act = thread[u].act
    => thread[t].lost \/ thread[u].lost

(***************************************************************************)
(* At most one worker investigates an incident, and while no process has   *)
(* died a running investigation has its worker.                            *)
(***************************************************************************)
Investigates(t, i) == thread[t].job = "investigate" /\ thread[t].inc = i

InvestigationOwned ==
  \A i \in Incidents :
    /\ \A t, u \in Threads : Investigates(t, i) /\ Investigates(u, i) => t = u
    /\ crashes = 0 /\ incident[i].investigation = "running" =>
         \E t \in Threads : Investigates(t, i)

(***************************************************************************)
(* While no process has died, an approved action of an incident that is no *)
(* longer active is about to be cancelled: the transition and the          *)
(* cancellation are different transactions, but nobody forgets the second. *)
(***************************************************************************)
CancelOwed ==
  \A a \in Actions :
    crashes = 0 /\ action[a].status = "approved" /\ ~ForActiveIncident(a) =>
      \E t \in Threads : At(t, "cancel") /\ thread[t].inc = IncidentOf[a]

\* The control plane keeps the contract of remediation actions.
Contract == INSTANCE RemediationContract WITH
  Actions <- Actions,
  Cases <- Incidents,
  CaseOf <- IncidentOf,
  phase <- [a \in Actions |-> action[a].status],
  live <- {i \in Incidents : IsActive(i)},
  verified <- {a \in Actions : action[a].verified}

ContractSpec == Contract!Spec

\* An approval is answered while the incident is active, though a worker dies:
\* the action starts.
ApprovalAnswered ==
  \A a \in Actions :
    action[a].status = "approved" ~> Started(a) \/ ~ForActiveIncident(a)

(***************************************************************************)
(* An execution whose worker dies, or is slow, before an external id is    *)
(* stored is taken over when its lease runs out, unless the incident stops *)
(* being active.                                                           *)
(***************************************************************************)
ExecutionTakenOver ==
  \A a \in Actions :
    action[a].status = "executing" /\ ~action[a].tracked ~>
      action[a].tracked \/ ~ForActiveIncident(a)

\* A running investigation ends.
InvestigationEnds ==
  \A i \in Incidents :
    incident[i].investigation = "running" ~> incident[i].investigation # "running"

=============================================================================
