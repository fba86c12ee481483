-------------------------------- MODULE GitOps --------------------------------
(***************************************************************************)
(* Remediation through GitHub.  GitOpsProposalWorker opens a rollback pull *)
(* request for a proposed action; engineers merge or close it on GitHub,   *)
(* the reconciler deploys what was merged, and webhooks report all that.   *)
(* The tables gitops_pull_requests and github_webhook_deliveries and the   *)
(* action's external_execution_id join those of Remediation.               *)
(*                                                                         *)
(* What happens outside this component is small here: an incident opens    *)
(* and ends, an engineer decides through the API, and ActionWorker picks   *)
(* up what that approves.                                                  *)
(*                                                                         *)
(* Abstracted: owners, repositories and branches (an action has one pull   *)
(* request, found again by its head branch), numbers and revisions (known  *)
(* or not), manifests (changed or not) and retry timers.  A closed pull    *)
(* request is not reopened, and an incident that ended stays so.           *)
(***************************************************************************)
EXTENDS Remediation

CONSTANTS
  Workers,      \* proposal workers
  Hooks,        \* webhook requests in progress
  None,         \* no action
  Mortal,       \* bound: the workers and requests that may die
  MaxCrashes,   \* bound: how often that happens
  Reports       \* bound: the states of a deployment that are reported

VARIABLES
  pull,         \* gitops_pull_requests
  external,     \* external_execution_id: the pull request's, or an error's
  delivery,     \* github_webhook_deliveries, and what GitHub has to deliver
  github,       \* the pull requests as they are on GitHub
  worker, hook, \* the processes
  cancelling,   \* incidents whose actions are about to be cancelled
  crashes,
  hasty,        \* history: merged on GitHub before the table showed it as open
  contended     \* history: two workers were busy with the action at a time

state == <<incident, action, observed, pull, external, delivery, github,
           worker, hook, cancelling, crashes>>
vars == <<state, hasty, contended>>
actions == <<action, observed, external>>
processes == <<worker, hook>>

Events == {"merged", "closed", "success", "failure"}

ASSUME ReportsType == Reports \subseteq {"success", "failure"}

PullStatus == {"creating", "open", "merged", "closed", "failed"}

\* number and sha: the columns pull_request_number and merge_sha are set.
PullRow == [status : PullStatus \cup {"absent"}, lease : Lease,
            number : BOOLEAN, sha : BOOLEAN]

AbsentPull == [status |-> "absent", lease |-> "none", number |-> FALSE, sha |-> FALSE]

\* "stale": in 'processing' for five minutes or more.
DeliveryStatus == {"unsent", "sent", "processing", "stale", "completed", "failed"}

WorkerRow == [step : {"idle", "claim", "check", "create", "post", "store", "fail"},
              act : Actions \cup {None}]
IdleWorker == [step |-> "idle", act |-> None]

\* id: the execution a deployment report is about.  ok: the answer to GitHub.
HookRow == [step : {"idle", "mark", "decide", "complete", "finish"},
            act : Actions \cup {None}, event : Events \cup {"none"},
            id : {"none", "pull", "error"}, ok : BOOLEAN]
IdleHook == [step |-> "idle", act |-> None, event |-> "none", id |-> "none",
             ok |-> TRUE]

Init ==
  /\ IncidentsInit
  /\ RemediationInit
  /\ pull = [a \in Actions |-> AbsentPull]
  /\ external = [a \in Actions |-> "none"]
  /\ delivery = [a \in Actions |-> [e \in Events |-> "unsent"]]
  /\ github = [a \in Actions |-> "none"]
  /\ worker = [w \in Workers |-> IdleWorker]
  /\ hook = [h \in Hooks |-> IdleHook]
  /\ cancelling = {}
  /\ crashes = 0
  /\ hasty = {}
  /\ contended = {}

SetPull(a, row) == pull' = [pull EXCEPT ![a] = row]
Deliver(a, e, status) == delivery' = [delivery EXCEPT ![a][e] = status]
WorkerAt(w, step) == worker[w].step = step
WorkerGoto(w, step) == worker' = [worker EXCEPT ![w].step = step]
WorkerFinish(w) == worker' = [worker EXCEPT ![w] = IdleWorker]

-----------------------------------------------------------------------------
(* GitOpsProposalWorker.run_once                                           *)

\* Mutant of PullClaimable: a row left 'creating' is never taken up again.
ClaimableFailures(a) ==
  \/ pull[a].status = "absent"
  \/ pull[a].status = "failed" /\ pull[a].lease # "live"

\* The pull request is missing, or failed, or its worker let the lease run out.
PullClaimable(a) ==
  \/ pull[a].status = "absent"
  \/ pull[a].status \in {"creating", "failed"} /\ pull[a].lease # "live"

(***************************************************************************)
(* claim_pull_request_proposals locks the action but not the pull request  *)
(* it joins: the condition is that of the statement's snapshot, and        *)
(* another worker may claim the same action before the lock is granted.    *)
(***************************************************************************)
SeeProposal(w, a) ==
  /\ WorkerAt(w, "idle")
  /\ action[a].status = "proposed"
  /\ action[a].adapter = "github_pr"
  /\ PullClaimable(a)
  /\ worker' = [worker EXCEPT ![w] = [step |-> "claim", act |-> a]]
  /\ UNCHANGED <<incident, actions, pull, delivery, github, hook, cancelling, crashes>>

ClaimPullRequest(w) ==
  LET a == worker[w].act
  IN  /\ WorkerAt(w, "claim")
      /\ IF action[a].status = "proposed"
         THEN /\ SetPull(a, [pull[a] EXCEPT !.status = "creating", !.lease = "live"])
              /\ WorkerGoto(w, "check")
         ELSE WorkerFinish(w) /\ UNCHANGED pull
      /\ UNCHANGED <<incident, actions, delivery, github, hook, cancelling, crashes>>

\* get_file: the manifest is the one the rollback was rendered for.
ManifestUnchanged(w) ==
  /\ WorkerAt(w, "check")
  /\ WorkerGoto(w, "create")
  /\ UNCHANGED <<incident, actions, pull, delivery, github, hook, cancelling, crashes>>

\* get_file: it is another one.  cancel_stale_proposal writes both tables.
ManifestChanged(w) ==
  LET a == worker[w].act
  IN  /\ WorkerAt(w, "check")
      /\ \/ /\ CancelStaleProposal(a)
            /\ SetPull(a, [pull[a] EXCEPT !.status = "failed", !.lease = "none"])
         \/ action[a].status # "proposed" /\ UNCHANGED <<action, observed, pull>>
      /\ WorkerFinish(w)
      /\ UNCHANGED <<incident, external, delivery, github, hook, cancelling, crashes>>

\* create_pull_request looks for the head branch's pull request in any state.
LookForExisting(w) ==
  /\ WorkerAt(w, "create")
  /\ WorkerGoto(w, IF github[worker[w].act] = "none" THEN "post" ELSE "store")
  /\ UNCHANGED <<incident, actions, pull, delivery, github, hook, cancelling, crashes>>

\* GitHub refuses a second pull request for the branch.
PostPullRequest(w) ==
  LET a == worker[w].act
  IN  /\ WorkerAt(w, "post")
      /\ IF github[a] = "none"
         THEN github' = [github EXCEPT ![a] = "open"] /\ WorkerGoto(w, "store")
         ELSE WorkerGoto(w, "fail") /\ UNCHANGED github
      /\ UNCHANGED <<incident, actions, pull, delivery, hook, cancelling, crashes>>

\* GitHub answers with an error, or not at all (the post may have succeeded), or
\* the manifest has no rollback to render.
GitHubFails(w) ==
  LET a == worker[w].act
  IN  /\ worker[w].step \in {"check", "create", "post"}
      /\ WorkerGoto(w, "fail")
      /\ \/ UNCHANGED github
         \/ /\ WorkerAt(w, "post")
            /\ github[a] = "none"
            /\ github' = [github EXCEPT ![a] = "open"]
      /\ UNCHANGED <<incident, actions, pull, delivery, hook, cancelling, crashes>>

\* Mutant of OpenPull: the row is written anew.
OpenPullAnew(a) ==
  SetPull(a, [AbsentPull EXCEPT !.status = "open", !.number = TRUE])

\* complete_pull_request: by id, whatever the row holds.
OpenPull(a) ==
  SetPull(a, [pull[a] EXCEPT !.status = "open", !.lease = "none", !.number = TRUE])

CompletePullRequest(w) ==
  /\ WorkerAt(w, "store")
  /\ OpenPull(worker[w].act)
  /\ WorkerFinish(w)
  /\ UNCHANGED <<incident, actions, delivery, github, hook, cancelling, crashes>>

\* fail_pull_request: by id, whatever the row holds.
FailPullRequest(w) ==
  LET a == worker[w].act
  IN  /\ WorkerAt(w, "fail")
      /\ SetPull(a, [pull[a] EXCEPT !.status = "failed", !.lease = "none"])
      /\ WorkerFinish(w)
      /\ UNCHANGED <<incident, actions, delivery, github, hook, cancelling, crashes>>

PullLeaseExpires(a) ==
  /\ pull[a].lease = "live"
  /\ SetPull(a, [pull[a] EXCEPT !.lease = "expired"])
  /\ UNCHANGED <<incident, actions, delivery, github, processes, cancelling, crashes>>

-----------------------------------------------------------------------------
(* POST /v1/integrations/github/webhook                                    *)

\* begin_delivery: a delivery is handled once, but again if it failed or has
\* been in progress for five minutes.
BeginDelivery(a, e) == delivery[a][e] \in {"sent", "failed", "stale"}

ReceiveWebhook(h, a, e) ==
  /\ hook[h].step = "idle"
  /\ BeginDelivery(a, e)
  /\ Deliver(a, e, "processing")
  /\ hook' = [hook EXCEPT ![h] = [IdleHook EXCEPT !.step = "mark", !.act = a, !.event = e]]
  /\ UNCHANGED <<incident, actions, pull, github, worker, cancelling, crashes>>

HookGoto(h, step) == hook' = [hook EXCEPT ![h].step = step]

\* Mutant of HookAnswer: an error is answered like a success.
HookAnswerDone(h, ok) == hook' = [hook EXCEPT ![h].step = "finish", ![h].ok = TRUE]

HookAnswer(h, ok) == hook' = [hook EXCEPT ![h].step = "finish", ![h].ok = ok]

\* Mutant of MarkableAs: only a row that is merged already is marked merged.
MarkableAsIs(a, status) == pull[a].number /\ pull[a].status = status

MarkableAs(a, status) == pull[a].number /\ pull[a].status \in {"open", status}

\* mark_pull_request_merged, mark_pull_request_closed: a row that is not found
\* makes the webhook ignored, and handled.
MarkPullRequest(h) ==
  LET a == hook[h].act
      e == hook[h].event
  IN  /\ hook[h].step = "mark"
      /\ e \in {"merged", "closed"}
      /\ IF MarkableAs(a, e)
         THEN /\ SetPull(a, [pull[a] EXCEPT !.status = e, !.sha = @ \/ e = "merged"])
              /\ HookGoto(h, "decide")
         ELSE HookAnswer(h, TRUE) /\ UNCHANGED pull
      /\ UNCHANGED <<incident, actions, delivery, github, worker, cancelling, crashes>>

\* action_for_revision: the pull request whose merge_sha was deployed, and
\* the execution its action tracks.
FindRevision(h) ==
  LET a == hook[h].act
  IN  /\ hook[h].step = "mark"
      /\ hook[h].event \in {"success", "failure"}
      /\ IF pull[a].sha
         THEN hook' = [hook EXCEPT ![h].step = "decide",
                                   ![h].id = IF external[a] = "none" THEN "pull"
                                                                     ELSE external[a]]
         ELSE HookAnswer(h, TRUE)
      /\ UNCHANGED <<incident, actions, pull, delivery, github, worker, cancelling, crashes>>

\* approve_and_start_external: again is harmless, anything else an error.
ApproveMerged(h) ==
  LET a == hook[h].act
      again == /\ action[a].status \in {"executing", "succeeded", "failed"}
               /\ external[a] = "pull"
  IN  /\ hook[h].step = "decide"
      /\ hook[h].event = "merged"
      /\ \/ /\ ApproveAndStartExternal(a)
            /\ external' = [external EXCEPT ![a] = "pull"]
            /\ HookAnswer(h, TRUE)
         \/ /\ ~Decidable(a)
            /\ HookAnswer(h, again)
            /\ UNCHANGED actions
      /\ UNCHANGED <<incident, pull, delivery, github, worker, cancelling, crashes>>

\* reject_external: repeating one's own rejection is harmless, anything else
\* an error.
RejectClosed(h) ==
  LET a == hook[h].act
  IN  /\ hook[h].step = "decide"
      /\ hook[h].event = "closed"
      /\ \/ Decide(a, "reject") /\ HookAnswer(h, TRUE)
         \/ /\ ~Decidable(a)
            /\ \E ok \in {FALSE, action[a].decision = "reject"} : HookAnswer(h, ok)
            /\ UNCHANGED <<action, observed>>
      /\ UNCHANGED <<incident, external, pull, delivery, github, worker, cancelling, crashes>>

\* complete_external_execution: the checks, on a row read without a lock.
CheckExternal(h) ==
  LET a == hook[h].act
      same == external[a] = hook[h].id
  IN  /\ hook[h].step = "decide"
      /\ hook[h].event \in {"success", "failure"}
      /\ IF same /\ action[a].status = "executing"
         THEN HookGoto(h, "complete")
         ELSE HookAnswer(h, same /\ action[a].status \in {"succeeded", "failed"})
      /\ UNCHANGED <<incident, actions, pull, delivery, github, worker, cancelling, crashes>>

Terminal(e) == IF e = "success" THEN "succeeded" ELSE "failed"

CompleteExternal(h) ==
  LET a == hook[h].act
  IN  /\ hook[h].step = "complete"
      /\ CompleteExecution(a, Terminal(hook[h].event))
      /\ HookAnswer(h, action[a].status = "executing")
      /\ UNCHANGED <<incident, external, pull, delivery, github, worker, cancelling, crashes>>

\* complete_delivery, fail_delivery
FinishDelivery(h) ==
  /\ hook[h].step = "finish"
  /\ Deliver(hook[h].act, hook[h].event, IF hook[h].ok THEN "completed" ELSE "failed")
  /\ hook' = [hook EXCEPT ![h] = IdleHook]
  /\ UNCHANGED <<incident, actions, pull, github, worker, cancelling, crashes>>

FiveMinutesPass(a, e) ==
  /\ delivery[a][e] = "processing"
  /\ Deliver(a, e, "stale")
  /\ UNCHANGED <<incident, actions, pull, github, processes, cancelling, crashes>>

-----------------------------------------------------------------------------
(* GitHub, its engineers and the reconciler                                *)

EngineerMerges(a) ==
  /\ github[a] = "open"
  /\ github' = [github EXCEPT ![a] = "merged"]
  /\ Deliver(a, "merged", "sent")
  /\ UNCHANGED <<incident, actions, pull, processes, cancelling, crashes>>

EngineerCloses(a) ==
  /\ github[a] = "open"
  /\ github' = [github EXCEPT ![a] = "closed"]
  /\ Deliver(a, "closed", "sent")
  /\ UNCHANGED <<incident, actions, pull, processes, cancelling, crashes>>

\* ReferenceDeploymentReconciler reports these states of the merged revision
\* once; a failure is retried and may be followed by a success.
ReconcilerReports(a, e) ==
  /\ github[a] = "merged"
  /\ e \in Reports
  /\ delivery[a][e] = "unsent" /\ delivery[a]["success"] = "unsent"
  /\ Deliver(a, e, "sent")
  /\ UNCHANGED <<incident, actions, pull, github, processes, cancelling, crashes>>

-----------------------------------------------------------------------------
(* The rest of the control plane                                           *)

IncidentOpens(i) ==
  /\ CreateIncident(i)
  /\ UNCHANGED <<actions, pull, delivery, github, processes, cancelling, crashes>>

\* A transition, and the cancellation that follows in a transaction of its own.
\* Here it makes no difference whether the incident is resolved or closed.
IncidentEnds(i) ==
  /\ IsActive(i)
  /\ TransitionRow(i, "closed")
  /\ cancelling' = cancelling \cup {i}
  /\ UNCHANGED <<actions, pull, delivery, github, processes, crashes>>

ActionsCancelled(i) ==
  /\ i \in cancelling
  /\ CancelForIncident(i)
  /\ cancelling' = cancelling \ {i}
  /\ UNCHANGED <<incident, external, pull, delivery, github, processes, crashes>>

\* An investigation that read the incident while it was active may propose late.
ActionProposed(a) ==
  /\ action[a].status = "absent"
  /\ incident[IncidentOf[a]].status # "absent"
  /\ Propose(a, "github_pr")
  /\ UNCHANGED <<incident, external, pull, delivery, github, processes, cancelling, crashes>>

DecidedThroughAPI(a, decision) ==
  /\ Decide(a, decision)
  /\ UNCHANGED <<incident, external, pull, delivery, github, processes, cancelling, crashes>>

\* ActionWorker has no adapter of that name: it claims the action and fails it.
WorkerClaims(a) ==
  /\ ClaimApproved(a)
  /\ UNCHANGED <<incident, external, pull, delivery, github, processes, cancelling, crashes>>

WorkerFails(a) ==
  /\ action[a].status = "executing" /\ ~action[a].tracked
  /\ CompleteExecution(a, "failed")
  /\ external' = [external EXCEPT ![a] = "error"]
  /\ UNCHANGED <<incident, pull, delivery, github, processes, cancelling, crashes>>

ActionLeaseExpires(a) ==
  /\ action[a].lease = "live"
  /\ SetAction(a, [action[a] EXCEPT !.lease = "expired"])
  /\ UNCHANGED <<incident, external, pull, delivery, github, processes, cancelling, crashes>>

\* A process dies between two transactions.
Crash ==
  /\ crashes < MaxCrashes
  /\ crashes' = crashes + 1
  /\ \/ /\ \E w \in Workers \cap Mortal : ~WorkerAt(w, "idle") /\ WorkerFinish(w)
        /\ UNCHANGED hook
     \/ /\ \E h \in Hooks \cap Mortal :
             hook[h].step # "idle" /\ hook' = [hook EXCEPT ![h] = IdleHook]
        /\ UNCHANGED worker
  /\ UNCHANGED <<incident, actions, pull, delivery, github, cancelling>>

-----------------------------------------------------------------------------
WorkerStep(w) ==
  \/ ClaimPullRequest(w) \/ ManifestUnchanged(w) \/ ManifestChanged(w)
  \/ LookForExisting(w) \/ PostPullRequest(w) \/ GitHubFails(w)
  \/ CompletePullRequest(w) \/ FailPullRequest(w)

HookStep(h) ==
  \/ MarkPullRequest(h) \/ FindRevision(h) \/ ApproveMerged(h) \/ RejectClosed(h)
  \/ CheckExternal(h) \/ CompleteExternal(h) \/ FinishDelivery(h)

Step ==
  \/ \E w \in Workers : WorkerStep(w) \/ (\E a \in Actions : SeeProposal(w, a))
  \/ \E h \in Hooks :
       HookStep(h) \/ (\E a \in Actions, e \in Events : ReceiveWebhook(h, a, e))
  \/ \E a \in Actions :
       \/ PullLeaseExpires(a) \/ EngineerMerges(a) \/ EngineerCloses(a)
       \/ (\E e \in Events : ReconcilerReports(a, e) \/ FiveMinutesPass(a, e))
       \/ ActionProposed(a) \/ WorkerClaims(a) \/ WorkerFails(a) \/ ActionLeaseExpires(a)
       \/ \E decision \in {"approve", "reject"} : DecidedThroughAPI(a, decision)
  \/ \E i \in Incidents :
       IncidentOpens(i) \/ IncidentEnds(i) \/ ActionsCancelled(i)
  \/ Crash

Busy(w, a) == ~WorkerAt(w, "idle") /\ worker[w].act = a

Remember ==
  /\ hasty' = hasty \cup
       {a \in Actions : github[a] = "open" /\ github'[a] = "merged" /\ pull[a].status # "open"}
  /\ contended' = contended \cup
       {a \in Actions : \E v, w \in Workers : v # w /\ Busy(v, a)' /\ Busy(w, a)'}

Next == Step /\ Remember

Spec == Init /\ [][Next]_vars

(***************************************************************************)
(* Fairness.  Processes take their next step, the worker looks at every    *)
(* proposal again and again, leases run out, GitHub does not fail for      *)
(* ever, and it delivers each webhook once.  Nobody has to merge anything, *)
(* and nobody redelivers a webhook.                                        *)
(***************************************************************************)
Fairness ==
  /\ \A w \in Workers : /\ WF_state(WorkerStep(w))
                        /\ SF_state(ManifestUnchanged(w) \/ ManifestChanged(w))
                        /\ SF_state(LookForExisting(w))
                        /\ SF_state(PostPullRequest(w))
  /\ \A a \in Actions : /\ SF_state(\E w \in Workers : SeeProposal(w, a))
                        /\ WF_state(PullLeaseExpires(a))
  /\ \A h \in Hooks : WF_state(HookStep(h))
  /\ \A a \in Actions, e \in Events :
       /\ SF_state(delivery[a][e] = "sent" /\ \E h \in Hooks : ReceiveWebhook(h, a, e))
       /\ WF_state(FiveMinutesPass(a, e))

FairSpec == Spec /\ Fairness

-----------------------------------------------------------------------------
(* Properties                                                              *)

\* Every table and every process record has its type.
TypeOK ==
  /\ incident \in [Incidents -> IncidentRow]
  /\ action \in [Actions -> ActionRow]
  /\ observed \in [Actions -> Observation]
  /\ pull \in [Actions -> PullRow]
  /\ external \in [Actions -> {"none", "pull", "error"}]
  /\ delivery \in [Actions -> [Events -> DeliveryStatus]]
  /\ github \in [Actions -> {"none", "open", "merged", "closed"}]
  /\ worker \in [Workers -> WorkerRow]
  /\ hook \in [Hooks -> HookRow]
  /\ cancelling \subseteq Incidents
  /\ crashes \in Nat
  /\ hasty \subseteq Actions /\ contended \subseteq Actions

(***************************************************************************)
(* An execution that tracks a pull request was merged by an engineer, and  *)
(* the row still knows the revision by which its deployment is recognised, *)
(* even if a slow worker wrote the row after the merge.                    *)
(***************************************************************************)
TrackedIsMerged ==
  \A a \in Actions :
    external[a] = "pull" =>
      github[a] = "merged" /\ pull[a].sha /\ action[a].decision = "approve"

(***************************************************************************)
(* A merge that was answered to GitHub as handled started the execution,   *)
(* though the answer is given by a later transaction, perhaps of a request *)
(* that is not the one that started it.  Otherwise the engineer had merged *)
(* before the table showed the pull request, or two workers were busy with *)
(* the action at a time: the webhook may have found no row to mark.        *)
(***************************************************************************)
HandledMergeStarted ==
  \A a \in Actions :
    delivery[a]["merged"] = "completed" =>
      external[a] = "pull" \/ a \in hasty \/ a \in contended

\* Whatever GitHub and its workers do to an action keeps the contract.
Contract == INSTANCE RemediationContract WITH
  Actions <- Actions,
  Cases <- Incidents,
  CaseOf <- IncidentOf,
  phase <- [a \in Actions |-> action[a].status],
  live <- {i \in Incidents : IsActive(i)},
  verified <- {a \in Actions : action[a].verified}

ContractSpec == Contract!Spec

(***************************************************************************)
(* "Merging the PR records the GitHub actor as the approver": a merge is   *)
(* answered, unless the incident ends, the action was decided otherwise,   *)
(* the request that handled the merge died (then GitHub has to be asked to *)
(* deliver it again), or it was merged before the table showed it.         *)
(***************************************************************************)
Abandoned(a, e) ==
  delivery[a][e] = "stale" /\ \A h \in Hooks : hook[h].event # e

MergeAnswered ==
  \A a \in Actions :
    github[a] = "merged" ~>
      \/ action[a].status # "proposed"
      \/ ~ForActiveIncident(a)
      \/ Abandoned(a, "merged")
      \/ a \in hasty

\* The pull request of a proposal becomes known, whatever fails or dies on the
\* way, unless it stops being a proposal.
ProposalOpened ==
  \A a \in Actions :
    action[a].status = "proposed" ~> action[a].status # "proposed" \/ pull[a].number

(***************************************************************************)
(* "test_signed_merge_is_the_approval_and_deployment_success_completes_    *)
(* execution": once the report of a success has been handled, the          *)
(* execution it belongs to is over.                                        *)
(***************************************************************************)
DeploymentCompletes ==
  \A a \in Actions :
    external[a] = "pull" /\ delivery[a]["success"] = "completed" =>
      action[a].status # "executing"

=============================================================================
