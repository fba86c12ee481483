----------------------------- MODULE GitOpsProofs -----------------------------
(***************************************************************************)
(* What remediation through GitHub promises, for every set of incidents,   *)
(* actions, workers and requests: the types, that a tracked execution was  *)
(* merged, that a handled merge started one, and the contract of           *)
(* remediation actions.                                                    *)
(***************************************************************************)
EXTENDS GitOps, IncidentsProofs, TLAPS

-----------------------------------------------------------------------------
(* The histories, and the processes                                        *)

\* The histories only grow, and what a step does to the state it does without them.
LEMMA NextIsStep ==
  ASSUME [Next]_vars
  PROVE  /\ [Step]_state
         /\ hasty \subseteq hasty' /\ contended \subseteq contended'
         /\ Remember \/ UNCHANGED vars
BY DEF Next, vars, Remember

Histories == hasty \subseteq Actions /\ contended \subseteq Actions

LEMMA HistoriesStep ==
  ASSUME Histories, [Next]_vars
  PROVE  Histories'
BY NextIsStep DEF Histories, Remember, vars

Processes ==
  /\ worker \in [Workers -> WorkerRow]
  /\ hook \in [Hooks -> HookRow]
  /\ \A w \in Workers : worker[w].step # "idle" => worker[w].act \in Actions
  /\ \A h \in Hooks : hook[h].step # "idle" => /\ hook[h].act \in Actions
                                               /\ hook[h].event \in Events

LEMMA WorkersStay ==
  ASSUME Processes, NEW w \in Workers, UNCHANGED hook,
         \/ worker[w].step # "idle" /\
              \E s \in {"claim", "check", "create", "post", "store", "fail"} : WorkerGoto(w, s)
         \/ WorkerFinish(w)
         \/ \E a \in Actions : worker' = [worker EXCEPT ![w] = [step |-> "claim", act |-> a]]
  PROVE  Processes'
BY DEF Processes, WorkerGoto, WorkerFinish, IdleWorker, WorkerRow

LEMMA HooksStay ==
  ASSUME Processes, NEW h \in Hooks, UNCHANGED worker, NEW row \in HookRow,
         row.step # "idle" => row.act \in Actions /\ row.event \in Events,
         hook' = [hook EXCEPT ![h] = row]
  PROVE  Processes'
BY DEF Processes

LEMMA HookRows ==
  ASSUME Processes, NEW h \in Hooks, hook[h].step # "idle", UNCHANGED worker
  PROVE  /\ \A s \in {"decide", "complete"} : HookGoto(h, s) => Processes'
         /\ \A ok \in BOOLEAN : HookAnswer(h, ok) => Processes'
         /\ \A i \in {"none", "pull", "error"} :
              hook' = [hook EXCEPT ![h].step = "decide", ![h].id = i] => Processes'
         /\ hook' = [hook EXCEPT ![h] = IdleHook] => Processes'
<1>0. hook[h] \in HookRow /\ hook[h].act \in Actions /\ hook[h].event \in Events
  BY DEF Processes
<1>1. ASSUME NEW s \in {"decide", "complete"}, HookGoto(h, s) PROVE Processes'
  <2> DEFINE row == [hook[h] EXCEPT !.step = s]
  <2>1. row \in HookRow /\ row.act \in Actions /\ row.event \in Events
    BY <1>0 DEF HookRow
  <2>2. hook' = [hook EXCEPT ![h] = row]
    BY <1>1 DEF HookGoto
  <2>3. QED
    BY <2>1, <2>2, HooksStay
<1>2. ASSUME NEW ok \in BOOLEAN, HookAnswer(h, ok) PROVE Processes'
  <2> DEFINE row == [hook[h] EXCEPT !.step = "finish", !.ok = ok]
  <2>1. row \in HookRow /\ row.act \in Actions /\ row.event \in Events
    BY <1>0 DEF HookRow
  <2>2. hook' = [hook EXCEPT ![h] = row]
    BY <1>2 DEF HookAnswer
  <2>3. QED
    BY <2>1, <2>2, HooksStay
<1>3. ASSUME NEW i \in {"none", "pull", "error"},
             hook' = [hook EXCEPT ![h].step = "decide", ![h].id = i]
      PROVE  Processes'
  <2> DEFINE row == [hook[h] EXCEPT !.step = "decide", !.id = i]
  <2>1. row \in HookRow /\ row.act \in Actions /\ row.event \in Events
    BY <1>0 DEF HookRow
  <2>2. hook' = [hook EXCEPT ![h] = row]
    BY <1>3
  <2>3. QED
    BY <2>1, <2>2, HooksStay
<1>4. ASSUME hook' = [hook EXCEPT ![h] = IdleHook] PROVE Processes'
  <2>1. IdleHook \in HookRow /\ IdleHook.step = "idle"
    BY DEF IdleHook, HookRow
  <2>2. QED
    BY <1>4, <2>1, HooksStay
<1>5. QED
  BY <1>1, <1>2, <1>3, <1>4

LEMMA WorkerStepsStay ==
  ASSUME Processes, NEW w \in Workers, WorkerStep(w)
  PROVE  Processes'
BY WorkersStay DEF WorkerStep, WorkerAt, ClaimPullRequest, ManifestUnchanged, ManifestChanged,
   LookForExisting, PostPullRequest, GitHubFails, CompletePullRequest, FailPullRequest

LEMMA HookStepsStay ==
  ASSUME Processes, external \in [Actions -> {"none", "pull", "error"}],
         NEW h \in Hooks, HookStep(h)
  PROVE  Processes'
<1>0. /\ hook[h].step # "idle" /\ hook[h].act \in Actions /\ UNCHANGED worker
      /\ external[hook[h].act] \in {"none", "pull", "error"}
  BY DEF HookStep, MarkPullRequest, FindRevision, ApproveMerged, RejectClosed, CheckExternal,
         CompleteExternal, FinishDelivery, Processes
<1>1. CASE MarkPullRequest(h)
  BY <1>0, <1>1, HookRows DEF MarkPullRequest
<1>2. CASE FindRevision(h)
  <2> DEFINE i == IF external[hook[h].act] = "none" THEN "pull" ELSE external[hook[h].act]
  <2>1. i \in {"none", "pull", "error"}
    BY <1>0
  <2>2. \/ hook' = [hook EXCEPT ![h].step = "decide", ![h].id = i]
        \/ HookAnswer(h, TRUE)
    BY <1>2 DEF FindRevision
  <2>3. QED
    BY <1>0, <2>1, <2>2, HookRows
<1>3. CASE ApproveMerged(h)
  BY <1>0, <1>3, HookRows DEF ApproveMerged
<1>4. CASE RejectClosed(h)
  <2>1. \E ok \in BOOLEAN : HookAnswer(h, ok)
    BY <1>4 DEF RejectClosed
  <2>2. QED
    BY <1>0, <2>1, HookRows
<1>5. CASE CheckExternal(h)
  <2>1. HookGoto(h, "complete") \/ \E ok \in BOOLEAN : HookAnswer(h, ok)
    BY <1>5 DEF CheckExternal
  <2>2. QED
    BY <1>0, <2>1, HookRows
<1>6. CASE CompleteExternal(h)
  <2>1. \E ok \in BOOLEAN : HookAnswer(h, ok)
    BY <1>6 DEF CompleteExternal
  <2>2. QED
    BY <1>0, <2>1, HookRows
<1>7. CASE FinishDelivery(h)
  BY <1>0, <1>7, HookRows DEF FinishDelivery
<1>8. QED
  BY <1>1, <1>2, <1>3, <1>4, <1>5, <1>6, <1>7 DEF HookStep

LEMMA ProcessesStep ==
  ASSUME Processes, external \in [Actions -> {"none", "pull", "error"}], [Step]_state
  PROVE  Processes'
<1>1. ASSUME NEW w \in Workers, NEW a \in Actions, SeeProposal(w, a) PROVE Processes'
  BY <1>1, WorkersStay DEF SeeProposal
<1>2. ASSUME NEW h \in Hooks, NEW a \in Actions, NEW e \in Events, ReceiveWebhook(h, a, e)
      PROVE  Processes'
  <2> DEFINE row == [IdleHook EXCEPT !.step = "mark", !.act = a, !.event = e]
  <2>1. row \in HookRow /\ row.act \in Actions /\ row.event \in Events
    BY DEF IdleHook, HookRow
  <2>2. hook' = [hook EXCEPT ![h] = row] /\ UNCHANGED worker
    BY <1>2 DEF ReceiveWebhook
  <2>3. QED
    BY <2>1, <2>2, HooksStay
<1>3. CASE Crash
  <2>1. ASSUME NEW w \in Workers, WorkerFinish(w), UNCHANGED hook PROVE Processes'
    BY <2>1, WorkersStay
  <2>2. ASSUME NEW h \in Hooks, hook[h].step # "idle", hook' = [hook EXCEPT ![h] = IdleHook],
               UNCHANGED worker
        PROVE  Processes'
    BY <2>2, HookRows
  <2>3. QED
    BY <1>3, <2>1, <2>2 DEF Crash
<1>4. CASE UNCHANGED processes
  BY <1>4 DEF processes, Processes
<1>5. QED
  BY <1>1, <1>2, <1>3, <1>4, WorkerStepsStay, HookStepsStay
  DEF Step, state, processes, PullLeaseExpires, EngineerMerges, EngineerCloses, ReconcilerReports,
      FiveMinutesPass, ActionProposed, WorkerClaims, WorkerFails, ActionLeaseExpires,
      DecidedThroughAPI, IncidentOpens, IncidentEnds, ActionsCancelled

-----------------------------------------------------------------------------
(* The tables of incidents and actions                                     *)

Fresh(r) == r.status = "absent" => r.decision = "none" /\ ~r.tracked /\ ~r.verified

Tables ==
  /\ incident \in [Incidents -> IncidentRow]
  /\ action \in [Actions -> ActionRow]
  /\ observed \in [Actions -> Observation]
  /\ \A a \in Actions : Fresh(action[a])

\* A statement on the row r of action a leaves the row s.
Follows(a, r, s) ==
  /\ s \in ActionRow /\ Fresh(s) /\ s.verified = r.verified
  /\ r.decision = "approve" => s.decision = "approve"
  /\ r.tracked => s.tracked
  /\ \/ s.status = r.status
     \/ r.status = "absent" /\ s.status = "proposed"
     \/ /\ r.status = "proposed" /\ ForActiveIncident(a)
        /\ s.status \in {"approved", "rejected", "executing"}
     \/ r.status = "approved" /\ s.status = "executing" /\ ForActiveIncident(a)
     \/ r.status = "executing" /\ s.status \in {"succeeded", "failed"}
     \/ r.status \in {"proposed", "approved"} /\ s.status = "cancelled"

\* One row is written, or all of them together.
RowWritten(a) ==
  /\ \E s \in ActionRow : action' = [action EXCEPT ![a] = s] /\ Follows(a, action[a], s)
  /\ observed' \in [Actions -> Observation]

RowsFollow ==
  /\ action' \in [Actions -> ActionRow] /\ observed' \in [Actions -> Observation]
  /\ \A a \in Actions : Follows(a, action[a], action'[a])

LEMMA RowStays ==
  ASSUME Tables, NEW a \in Actions, UNCHANGED <<action, observed>>
  PROVE  RowWritten(a)
BY DEF Tables, RowWritten, Follows

LEMMA SetActionWrites ==
  ASSUME Tables, NEW a \in Actions, NEW s \in ActionRow, SetAction(a, s),
         Follows(a, action[a], s)
  PROVE  RowWritten(a)
BY DEF Tables, RowWritten, SetAction

LEMMA StatementsWrite ==
  ASSUME Tables, NEW a \in Actions
  PROVE  /\ Propose(a, "github_pr") => RowWritten(a)
         /\ \A d \in {"approve", "reject"} : Decide(a, d) => RowWritten(a)
         /\ ApproveAndStartExternal(a) => RowWritten(a)
         /\ ClaimApproved(a) => RowWritten(a)
         /\ \A r \in {"succeeded", "failed"} : CompleteExecution(a, r) => RowWritten(a)
         /\ CancelStaleProposal(a) => RowWritten(a)
         /\ SetAction(a, [action[a] EXCEPT !.lease = "expired"]) => RowWritten(a)
<1>0. action[a] \in ActionRow /\ Fresh(action[a])
  BY DEF Tables
<1>1. ASSUME Propose(a, "github_pr") PROVE RowWritten(a)
  <2> DEFINE s == [AbsentAction EXCEPT !.status = "proposed", !.adapter = "github_pr"]
  <2>1. s \in ActionRow /\ s.status = "proposed" /\ s.verified = FALSE
    BY DEF ActionRow, AbsentAction, ActionStatus, Lease, Adapter
  <2>2. CASE action[a].status # "absent"
    BY <1>1, <2>2, RowStays DEF Propose
  <2>3. CASE action[a].status = "absent"
    <3>1. SetAction(a, s)
      BY <1>1, <2>3 DEF Propose
    <3>2. Follows(a, action[a], s)
      BY <1>0, <2>1, <2>3 DEF Follows, Fresh, ActionRow
    <3> HIDE DEF s
    <3>3. QED
      BY <2>1, <3>1, <3>2, SetActionWrites
  <2>4. QED
    BY <2>2, <2>3
<1>2. ASSUME NEW d \in {"approve", "reject"}, Decide(a, d) PROVE RowWritten(a)
  <2> DEFINE s == [action[a] EXCEPT
                     !.decision = d,
                     !.status = IF d = "approve" THEN "approved" ELSE "rejected"]
  <2>1. s \in ActionRow
    BY <1>0 DEF ActionRow, ActionStatus, Finished
  <2>2. Follows(a, action[a], s)
    BY <1>0, <1>2, <2>1 DEF Follows, Fresh, ActionRow, Decide, Decidable
  <2>3. SetAction(a, s)
    BY <1>2 DEF Decide
  <2> HIDE DEF s
  <2>4. QED
    BY <2>1, <2>2, <2>3, SetActionWrites
<1>3. ASSUME ApproveAndStartExternal(a) PROVE RowWritten(a)
  <2> DEFINE s == [action[a] EXCEPT !.decision = "approve", !.status = "executing",
                                    !.tracked = TRUE, !.lease = "none"]
  <2>1. s \in ActionRow
    BY <1>0 DEF ActionRow, ActionStatus, Lease
  <2>2. Follows(a, action[a], s)
    BY <1>0, <1>3, <2>1 DEF Follows, Fresh, ActionRow, ApproveAndStartExternal, Decidable
  <2>3. action' = [action EXCEPT ![a] = s] /\ observed' \in [Actions -> Observation]
    BY <1>3 DEF ApproveAndStartExternal, Tables
  <2> HIDE DEF s
  <2>4. QED
    BY <2>1, <2>2, <2>3 DEF RowWritten
<1>4. ASSUME ClaimApproved(a) PROVE RowWritten(a)
  <2> DEFINE s == [action[a] EXCEPT !.status = "executing", !.lease = "live"]
  <2>1. s \in ActionRow
    BY <1>0 DEF ActionRow, ActionStatus, Lease
  <2>2. Follows(a, action[a], s)
    BY <1>0, <1>4, <2>1 DEF Follows, Fresh, ActionRow, ClaimApproved, ExecutionClaimable
  <2>3. action' = [action EXCEPT ![a] = s] /\ observed' \in [Actions -> Observation]
    BY <1>4 DEF ClaimApproved, Tables
  <2> HIDE DEF s
  <2>4. QED
    BY <2>1, <2>2, <2>3 DEF RowWritten
<1>5. ASSUME NEW r \in {"succeeded", "failed"}, CompleteExecution(a, r) PROVE RowWritten(a)
  <2> DEFINE s == [action[a] EXCEPT !.status = IF r = "accepted" THEN "executing" ELSE r,
                                    !.tracked = TRUE, !.lease = "none"]
  <2>1. s \in ActionRow
    BY <1>0 DEF ActionRow, ActionStatus, Finished, Lease
  <2>2. CASE action[a].status # "executing"
    BY <1>5, <2>2, RowStays DEF CompleteExecution
  <2>3. CASE action[a].status = "executing"
    <3>1. Follows(a, action[a], s)
      BY <1>0, <2>1, <2>3 DEF Follows, Fresh, ActionRow
    <3>2. SetAction(a, s)
      BY <1>5, <2>3 DEF CompleteExecution
    <3> HIDE DEF s
    <3>3. QED
      BY <2>1, <3>1, <3>2, SetActionWrites
  <2>4. QED
    BY <2>2, <2>3
<1>6. ASSUME CancelStaleProposal(a) PROVE RowWritten(a)
  <2> DEFINE s == [action[a] EXCEPT !.status = "cancelled"]
  <2>1. s \in ActionRow
    BY <1>0 DEF ActionRow, ActionStatus, Finished
  <2>2. Follows(a, action[a], s)
    BY <1>0, <1>6, <2>1 DEF Follows, Fresh, ActionRow, CancelStaleProposal
  <2>3. SetAction(a, s)
    BY <1>6 DEF CancelStaleProposal
  <2> HIDE DEF s
  <2>4. QED
    BY <2>1, <2>2, <2>3, SetActionWrites
<1>7. ASSUME SetAction(a, [action[a] EXCEPT !.lease = "expired"]) PROVE RowWritten(a)
  <2> DEFINE s == [action[a] EXCEPT !.lease = "expired"]
  <2>1. s \in ActionRow
    BY <1>0 DEF ActionRow, Lease
  <2>2. Follows(a, action[a], s)
    BY <1>0, <2>1 DEF Follows, Fresh, ActionRow
  <2> HIDE DEF s
  <2>3. QED
    BY <1>7, <2>1, <2>2, SetActionWrites DEF s
<1>8. QED
  BY <1>1, <1>2, <1>3, <1>4, <1>5, <1>6, <1>7

\* The steps that touch these tables, by what they do to them.
ActionStep == UNCHANGED incident /\ \E a \in Actions : RowWritten(a)
CancelStep == UNCHANGED incident /\ \E i \in Incidents : CancelForIncident(i)
IncidentStep ==
  /\ \E i \in Incidents, row \in IncidentRow : SetIncident(i, row)
  /\ UNCHANGED <<action, observed>>
OtherStep == UNCHANGED <<incident, action, observed>>

LEMMA TableSteps ==
  ASSUME Tables, Processes, [Step]_state
  PROVE  ActionStep \/ CancelStep \/ IncidentStep \/ OtherStep
<1>1. ASSUME NEW w \in Workers, ManifestChanged(w) PROVE ActionStep \/ OtherStep
  <2>1. worker[w].act \in Actions
    BY <1>1 DEF ManifestChanged, WorkerAt, Processes
  <2>2. QED
    BY <1>1, <2>1, StatementsWrite DEF ManifestChanged, ActionStep, OtherStep
<1>2. ASSUME NEW h \in Hooks, ApproveMerged(h) PROVE ActionStep \/ OtherStep
  <2>1. hook[h].act \in Actions
    BY <1>2 DEF ApproveMerged, Processes
  <2>2. QED
    BY <1>2, <2>1, StatementsWrite DEF ApproveMerged, ActionStep, OtherStep, actions
<1>3. ASSUME NEW h \in Hooks, RejectClosed(h) PROVE ActionStep \/ OtherStep
  <2>1. hook[h].act \in Actions
    BY <1>3 DEF RejectClosed, Processes
  <2>2. QED
    BY <1>3, <2>1, StatementsWrite DEF RejectClosed, ActionStep, OtherStep
<1>4. ASSUME NEW h \in Hooks, CompleteExternal(h) PROVE ActionStep
  <2>1. hook[h].act \in Actions /\ Terminal(hook[h].event) \in {"succeeded", "failed"}
    BY <1>4 DEF CompleteExternal, Processes, Terminal
  <2>2. QED
    BY <1>4, <2>1, StatementsWrite DEF CompleteExternal, ActionStep
<1>5. ASSUME NEW a \in Actions,
             \/ ActionProposed(a) \/ WorkerClaims(a) \/ WorkerFails(a) \/ ActionLeaseExpires(a)
             \/ \E d \in {"approve", "reject"} : DecidedThroughAPI(a, d)
      PROVE  ActionStep
  BY <1>5, StatementsWrite
  DEF ActionProposed, WorkerClaims, WorkerFails, ActionLeaseExpires, DecidedThroughAPI, ActionStep
<1>6. ASSUME NEW i \in Incidents, IncidentOpens(i) \/ IncidentEnds(i) PROVE IncidentStep
  <2>1. incident[i] \in IncidentRow
    BY DEF Tables
  <2>2. NextEpoch(i) \in Nat
    BY <2>1, MaxEpochType DEF NextEpoch, IncidentRow
  <2>3. CASE IncidentOpens(i)
    <3> DEFINE row == [AbsentIncident EXCEPT !.status = "open", !.epoch = 1]
    <3>1. row \in IncidentRow
      BY DEF IncidentRow, AbsentIncident, NoRecovery, IncidentStatus, ActiveStatus, Lease,
             InvestigationStatus
    <3>2. SetIncident(i, row) /\ UNCHANGED <<action, observed>>
      BY <2>3 DEF IncidentOpens, CreateIncident, actions
    <3>3. QED
      BY <3>1, <3>2 DEF IncidentStep
  <2>4. CASE IncidentEnds(i)
    <3> DEFINE row == [incident[i] EXCEPT
                         !.status = "closed",
                         !.epoch = IF "closed" \in ActiveStatus /\ ~IsActive(i)
                                   THEN NextEpoch(i) ELSE @]
    <3>1. row \in IncidentRow
      BY <2>1, <2>2 DEF IncidentRow, IncidentStatus, InactiveStatus
    <3>2. SetIncident(i, row) /\ UNCHANGED <<action, observed>>
      BY <2>4 DEF IncidentEnds, TransitionRow, actions
    <3>3. QED
      BY <3>1, <3>2 DEF IncidentStep
  <2>5. QED
    BY <1>6, <2>3, <2>4
<1>7. ASSUME NEW i \in Incidents, ActionsCancelled(i) PROVE CancelStep
  BY <1>7 DEF ActionsCancelled, CancelStep
<1>8. QED
  BY <1>1, <1>2, <1>3, <1>4, <1>5, <1>6, <1>7
  DEF Step, state, OtherStep, actions, WorkerStep, HookStep, SeeProposal, ClaimPullRequest,
      ManifestUnchanged, LookForExisting, PostPullRequest, GitHubFails, CompletePullRequest,
      FailPullRequest, ReceiveWebhook, MarkPullRequest, FindRevision, CheckExternal,
      FinishDelivery, PullLeaseExpires, EngineerMerges, EngineerCloses, ReconcilerReports,
      FiveMinutesPass, Crash

LEMMA CancellationFollows ==
  ASSUME Tables, NEW i \in Incidents, CancelForIncident(i)
  PROVE  RowsFollow
<1>1. ASSUME NEW a \in Actions PROVE Follows(a, action[a], action'[a])
  <2>1. action[a] \in ActionRow /\ Fresh(action[a])
    BY DEF Tables
  <2>2. \/ action'[a] = action[a]
        \/ /\ action[a].status \in {"proposed", "approved"}
           /\ action'[a] = [action[a] EXCEPT !.status = "cancelled", !.lease = "none"]
    BY DEF CancelForIncident
  <2>3. [action[a] EXCEPT !.status = "cancelled", !.lease = "none"] \in ActionRow
    BY <2>1 DEF ActionRow, ActionStatus, Finished, Lease
  <2>4. CASE action'[a] = action[a]
    BY <2>1, <2>4 DEF Follows
  <2>5. CASE action'[a] # action[a]
    BY <2>1, <2>2, <2>3, <2>5 DEF Follows, Fresh, ActionRow
  <2>6. QED
    BY <2>4, <2>5
<1>2. DOMAIN action' = Actions /\ action' = [a \in Actions |-> action'[a]]
  BY DEF CancelForIncident
<1>3. observed' \in [Actions -> Observation]
  BY DEF CancelForIncident, Tables
<1>4. QED
  BY <1>1, <1>2, <1>3 DEF RowsFollow, Follows

LEMMA TablesStep ==
  ASSUME Tables, Processes, [Step]_state
  PROVE  Tables' /\ RowsFollow
<1>1. CASE ActionStep
  <2>1. PICK a \in Actions : RowWritten(a)
    BY <1>1 DEF ActionStep
  <2>2. PICK s \in ActionRow : action' = [action EXCEPT ![a] = s] /\ Follows(a, action[a], s)
    BY <2>1 DEF RowWritten
  <2>3. \A b \in Actions : Follows(b, action[b], action[b])
    BY DEF Tables, Follows
  <2>4. RowsFollow
    BY <2>1, <2>2, <2>3 DEF RowsFollow, RowWritten, Tables
  <2>5. QED
    BY <1>1, <2>4 DEF ActionStep, RowsFollow, Follows, Tables
<1>2. CASE CancelStep
  BY <1>2, CancellationFollows DEF CancelStep, RowsFollow, Follows, Tables
<1>3. CASE IncidentStep
  BY <1>3 DEF IncidentStep, SetIncident, RowsFollow, Follows, Tables
<1>4. CASE OtherStep
  BY <1>4 DEF OtherStep, RowsFollow, Follows, Tables
<1>5. QED
  BY <1>1, <1>2, <1>3, <1>4, TableSteps

-----------------------------------------------------------------------------
(* The tables of pull requests and deliveries, and GitHub                  *)

PullTables ==
  /\ pull \in [Actions -> PullRow]
  /\ external \in [Actions -> {"none", "pull", "error"}]
  /\ delivery \in [Actions -> [Events -> DeliveryStatus]]
  /\ github \in [Actions -> {"none", "open", "merged", "closed"}]
  /\ cancelling \subseteq Incidents /\ crashes \in Nat
  /\ \A a \in Actions : pull[a].status = "open" => pull[a].number

\* A row keeps its number and its revision, a merge or a close is final, and a
\* webhook that was sent stays sent.
Forward ==
  /\ \A a \in Actions : /\ pull[a].sha => pull'[a].sha
                        /\ pull[a].number => pull'[a].number
                        /\ github[a] \in {"merged", "closed"} => github'[a] = github[a]
  /\ \A a \in Actions, e \in Events : delivery[a][e] # "unsent" => delivery'[a][e] # "unsent"

LEMMA PullWritten ==
  ASSUME PullTables, NEW a \in Actions, NEW row \in PullRow, SetPull(a, row),
         row.status = "open" => row.number,
         pull[a].sha => row.sha, pull[a].number => row.number,
         UNCHANGED <<external, delivery, github, cancelling, crashes>>
  PROVE  PullTables' /\ Forward
BY DEF PullTables, Forward, SetPull

LEMMA Delivered ==
  ASSUME PullTables, NEW a \in Actions, NEW e \in Events,
         NEW s \in {"sent", "processing", "stale", "completed", "failed"}, Deliver(a, e, s),
         github' \in [Actions -> {"none", "open", "merged", "closed"}],
         \A b \in Actions : github[b] \in {"merged", "closed"} => github'[b] = github[b],
         UNCHANGED <<external, pull, cancelling, crashes>>
  PROVE  PullTables' /\ Forward
BY DEF PullTables, Forward, Deliver, DeliveryStatus

LEMMA OthersWritten ==
  ASSUME PullTables, UNCHANGED <<delivery, pull>>,
         external' \in [Actions -> {"none", "pull", "error"}],
         github' \in [Actions -> {"none", "open", "merged", "closed"}],
         \A b \in Actions : github[b] \in {"merged", "closed"} => github'[b] = github[b],
         cancelling' \subseteq Incidents, crashes' \in Nat
  PROVE  PullTables' /\ Forward
BY DEF PullTables, Forward

LEMMA PullTablesStep ==
  ASSUME PullTables, Processes, [Step]_state
  PROVE  PullTables' /\ Forward
<1> DEFINE Good == PullTables' /\ Forward
<1>0. \A a \in Actions : pull[a] \in PullRow
  BY DEF PullTables
<1> HIDE DEF Good
<1>1. ASSUME NEW w \in Workers, ClaimPullRequest(w) \/ ManifestChanged(w) \/ CompletePullRequest(w)
                                \/ FailPullRequest(w)
      PROVE  Good
  <2> DEFINE a == worker[w].act
  <2>1. a \in Actions
    BY <1>1 DEF ClaimPullRequest, ManifestChanged, CompletePullRequest, FailPullRequest, WorkerAt,
                Processes
  <2>2. pull[a] \in PullRow
    BY <1>0, <2>1
  <2>3. UNCHANGED <<external, delivery, github, cancelling, crashes>>
    BY <1>1 DEF ClaimPullRequest, ManifestChanged, CompletePullRequest, FailPullRequest, actions
  <2>4. ASSUME NEW status \in {"creating", "failed"}, NEW lease \in {"live", "none"},
               SetPull(a, [pull[a] EXCEPT !.status = status, !.lease = lease])
        PROVE  Good
    <3> DEFINE row == [pull[a] EXCEPT !.status = status, !.lease = lease]
    <3>1. /\ row \in PullRow /\ row.status # "open"
          /\ row.sha = pull[a].sha /\ row.number = pull[a].number
      BY <2>2 DEF PullRow, PullStatus, Lease
    <3>2. SetPull(a, row)
      BY <2>4
    <3> HIDE DEF row
    <3>3. QED
      BY <2>1, <2>3, <3>1, <3>2, PullWritten DEF Good
  <2>5. ASSUME OpenPull(a) PROVE Good
    <3> DEFINE row == [pull[a] EXCEPT !.status = "open", !.lease = "none", !.number = TRUE]
    <3>1. row \in PullRow /\ row.sha = pull[a].sha /\ row.number
      BY <2>2 DEF PullRow, PullStatus, Lease
    <3>2. SetPull(a, row)
      BY <2>5 DEF OpenPull
    <3> HIDE DEF row
    <3>3. QED
      BY <2>1, <2>3, <3>1, <3>2, PullWritten DEF Good
  <2>6. ASSUME UNCHANGED pull PROVE Good
    BY <2>3, <2>6 DEF Good, PullTables, Forward
  <2>7. QED
    BY <1>1, <2>4, <2>5, <2>6 DEF ClaimPullRequest, ManifestChanged, CompletePullRequest,
       FailPullRequest
<1>2. ASSUME NEW w \in Workers, PostPullRequest(w) \/ GitHubFails(w) PROVE Good
  <2> DEFINE a == worker[w].act
  <2>1. \/ UNCHANGED github
        \/ github[a] = "none" /\ github' = [github EXCEPT ![a] = "open"]
    BY <1>2 DEF PostPullRequest, GitHubFails
  <2>2. UNCHANGED <<external, delivery, pull, cancelling, crashes>>
    BY <1>2 DEF PostPullRequest, GitHubFails, actions
  <2>3. QED
    BY <2>1, <2>2, OthersWritten DEF Good, PullTables
<1>3. ASSUME NEW a \in Actions, PullLeaseExpires(a) PROVE Good
  <2> DEFINE row == [pull[a] EXCEPT !.lease = "expired"]
  <2>1. /\ row \in PullRow /\ row.status = pull[a].status
        /\ row.sha = pull[a].sha /\ row.number = pull[a].number
    BY <1>0 DEF PullRow, Lease
  <2>2. SetPull(a, row) /\ UNCHANGED <<external, delivery, github, cancelling, crashes>>
    BY <1>3 DEF PullLeaseExpires, actions
  <2> HIDE DEF row
  <2>3. QED
    BY <2>1, <2>2, PullWritten DEF Good, PullTables
<1>4. ASSUME NEW h \in Hooks, MarkPullRequest(h) PROVE Good
  <2> DEFINE a == hook[h].act
             e == hook[h].event
             row == [pull[a] EXCEPT !.status = e, !.sha = @ \/ e = "merged"]
  <2>1. a \in Actions /\ e \in {"merged", "closed"}
    BY <1>4 DEF MarkPullRequest, Processes
  <2>2. pull[a] \in PullRow
    BY <1>0, <2>1
  <2>3. UNCHANGED <<external, delivery, github, cancelling, crashes>>
    BY <1>4 DEF MarkPullRequest, actions
  <2>4. CASE UNCHANGED pull
    BY <2>3, <2>4 DEF Good, PullTables, Forward
  <2>5. CASE SetPull(a, row)
    <3>1. /\ row \in PullRow /\ row.status # "open"
          /\ (pull[a].sha => row.sha) /\ row.number = pull[a].number
      <4>1. (pull[a].sha \/ e = "merged") \in BOOLEAN
        BY Zenon
      <4>2. row \in PullRow
        BY <2>1, <2>2, <4>1 DEF PullRow, PullStatus
      <4>3. QED
        BY <2>1, <2>2, <4>2 DEF PullRow
    <3> HIDE DEF row
    <3>2. QED
      BY <2>1, <2>3, <2>5, <3>1, PullWritten DEF Good
  <2>6. QED
    BY <1>4, <2>4, <2>5 DEF MarkPullRequest
<1>5. ASSUME NEW a \in Actions, NEW e \in Events,
             (\E h \in Hooks : ReceiveWebhook(h, a, e)) \/ FiveMinutesPass(a, e)
             \/ ReconcilerReports(a, e)
      PROVE  Good
  <2>1. \E s \in {"sent", "processing", "stale", "completed", "failed"} : Deliver(a, e, s)
    BY <1>5 DEF ReceiveWebhook, FiveMinutesPass, ReconcilerReports
  <2>2. UNCHANGED <<external, pull, github, cancelling, crashes>>
    BY <1>5 DEF ReceiveWebhook, FiveMinutesPass, ReconcilerReports, actions
  <2>3. QED
    BY <2>1, <2>2, Delivered DEF Good, PullTables
<1>6. ASSUME NEW h \in Hooks, FinishDelivery(h) PROVE Good
  <2>1. hook[h].act \in Actions /\ hook[h].event \in Events
    BY <1>6 DEF FinishDelivery, Processes
  <2>2. \E s \in {"completed", "failed"} : Deliver(hook[h].act, hook[h].event, s)
    BY <1>6 DEF FinishDelivery
  <2>3. UNCHANGED <<external, pull, github, cancelling, crashes>>
    BY <1>6 DEF FinishDelivery, actions
  <2>4. QED
    BY <2>1, <2>2, <2>3, Delivered DEF Good, PullTables
<1>7. ASSUME NEW a \in Actions, EngineerMerges(a) \/ EngineerCloses(a) PROVE Good
  <2>1. /\ github[a] = "open"
        /\ \E e \in {"merged", "closed"} : /\ github' = [github EXCEPT ![a] = e]
                                           /\ Deliver(a, e, "sent")
        /\ UNCHANGED <<external, pull, cancelling, crashes>>
    BY <1>7 DEF EngineerMerges, EngineerCloses, actions
  <2>2. PICK e \in {"merged", "closed"} : /\ github' = [github EXCEPT ![a] = e]
                                          /\ Deliver(a, e, "sent")
    BY <2>1
  <2>3. /\ github' \in [Actions -> {"none", "open", "merged", "closed"}]
        /\ \A b \in Actions : github[b] \in {"merged", "closed"} => github'[b] = github[b]
    BY <2>1, <2>2 DEF PullTables
  <2>4. QED
    BY <2>1, <2>2, <2>3, Delivered DEF Good, Events
<1>8. CASE /\ UNCHANGED <<delivery, pull, github>>
           /\ external' \in [Actions -> {"none", "pull", "error"}]
           /\ cancelling' \subseteq Incidents /\ crashes' \in Nat
  BY <1>8, OthersWritten DEF Good, PullTables
<1>9. ASSUME NEW h \in Hooks, ApproveMerged(h) PROVE Good
  <2>1. \/ external' = external
        \/ external' = [external EXCEPT ![hook[h].act] = "pull"]
    BY <1>9 DEF ApproveMerged, actions
  <2>2. UNCHANGED <<delivery, pull, github, cancelling, crashes>>
    BY <1>9 DEF ApproveMerged
  <2>3. external' \in [Actions -> {"none", "pull", "error"}]
    BY <2>1 DEF PullTables
  <2>4. cancelling' \subseteq Incidents /\ crashes' \in Nat
    BY <2>2 DEF PullTables
  <2>5. QED
    BY <1>8, <2>2, <2>3, <2>4 DEF Good
<1>10. ASSUME NEW a \in Actions, WorkerFails(a) PROVE Good
  <2>1. /\ external' = [external EXCEPT ![a] = "error"]
        /\ UNCHANGED <<delivery, pull, github, cancelling, crashes>>
    BY <1>10 DEF WorkerFails
  <2>2. external' \in [Actions -> {"none", "pull", "error"}]
    BY <2>1 DEF PullTables
  <2>3. cancelling' \subseteq Incidents /\ crashes' \in Nat
    BY <2>1 DEF PullTables
  <2>4. QED
    BY <1>8, <2>1, <2>2, <2>3 DEF Good
<1>11. ASSUME NEW i \in Incidents, IncidentOpens(i) \/ IncidentEnds(i) \/ ActionsCancelled(i)
       PROVE  Good
  <2>1. /\ UNCHANGED <<external, delivery, pull, github, crashes>>
        /\ \/ cancelling' = cancelling
           \/ cancelling' = cancelling \cup {i}
           \/ cancelling' = cancelling \ {i}
    BY <1>11 DEF IncidentOpens, IncidentEnds, ActionsCancelled, actions
  <2>2. /\ cancelling' \subseteq Incidents /\ crashes' \in Nat
        /\ external' \in [Actions -> {"none", "pull", "error"}]
    BY <2>1 DEF PullTables
  <2>3. QED
    BY <1>8, <2>1, <2>2 DEF Good
<1>12. CASE Crash
  BY <1>8, <1>12 DEF Crash, actions, PullTables
<1>13. CASE UNCHANGED <<external, delivery, pull, github, cancelling, crashes>>
  BY <1>8, <1>13 DEF PullTables
<1>14. QED
  <2>1. ASSUME NEW w \in Workers, WorkerStep(w) \/ \E a \in Actions : SeeProposal(w, a) PROVE Good
    <3>1. ASSUME ManifestUnchanged(w) \/ LookForExisting(w) \/ \E a \in Actions : SeeProposal(w, a)
          PROVE  UNCHANGED <<external, delivery, pull, github, cancelling, crashes>>
      BY <3>1 DEF SeeProposal, ManifestUnchanged, LookForExisting, actions
    <3>2. QED
      BY <1>1, <1>2, <1>13, <2>1, <3>1 DEF WorkerStep, Good
  <2>2. ASSUME NEW h \in Hooks, HookStep(h) PROVE Good
    <3>1. ASSUME FindRevision(h) \/ RejectClosed(h) \/ CheckExternal(h) \/ CompleteExternal(h)
          PROVE  UNCHANGED <<external, delivery, pull, github, cancelling, crashes>>
      BY <3>1 DEF FindRevision, RejectClosed, CheckExternal, CompleteExternal, actions
    <3>2. QED
      BY <1>4, <1>6, <1>9, <1>13, <2>2, <3>1 DEF HookStep, Good
  <2>3. ASSUME NEW a \in Actions, ActionProposed(a) \/ WorkerClaims(a) \/ ActionLeaseExpires(a)
                                  \/ \E d \in {"approve", "reject"} : DecidedThroughAPI(a, d)
        PROVE  Good
    <3>1. UNCHANGED <<external, delivery, pull, github, cancelling, crashes>>
      BY <2>3 DEF ActionProposed, WorkerClaims, ActionLeaseExpires, DecidedThroughAPI
    <3>2. QED
      BY <1>13, <3>1 DEF Good
  <2>4. CASE UNCHANGED state
    BY <1>13, <2>4 DEF state
  <2>5. QED
    BY <1>3, <1>5, <1>7, <1>10, <1>11, <1>12, <2>1, <2>2, <2>3, <2>4 DEF Good, Step

-----------------------------------------------------------------------------
(* What a webhook in progress may rely on                                  *)

\* GitHub delivers what happened, and requests handle what it delivered.
SentInv ==
  /\ \A a \in Actions : /\ delivery[a]["merged"] # "unsent" => github[a] = "merged"
                        /\ delivery[a]["closed"] # "unsent" => github[a] = "closed"
  /\ \A h \in Hooks :
       hook[h].step # "idle" => delivery[hook[h].act][hook[h].event] # "unsent"

\* Between its two transactions a merge's request has stored the revision, and
\* only a deployment report completes an execution.
MarkedInv ==
  \A h \in Hooks :
    /\ hook[h].step = "decide" /\ hook[h].event = "merged" => pull[hook[h].act].sha
    /\ hook[h].step = "complete" => hook[h].event \in {"success", "failure"}

\* What TrackedIsMerged says, and that the row of the action is tracked.
TrackedInv ==
  \A a \in Actions :
    external[a] = "pull" =>
      /\ github[a] = "merged" /\ pull[a].sha
      /\ action[a].decision = "approve" /\ action[a].tracked

GitOpsInv == Processes /\ Tables /\ PullTables /\ SentInv /\ MarkedInv /\ TrackedInv

\* What a step does to the requests, the deliveries and the executions.
HookMoves(h) ==
  \/ hook'[h] = hook[h]
  \/ hook'[h].step = "idle"
  \/ /\ hook[h].step # "idle"
     /\ hook'[h].act = hook[h].act /\ hook'[h].event = hook[h].event
     /\ hook'[h].step = "decide" /\ hook[h].event = "merged" => pull'[hook[h].act].sha
     /\ hook'[h].step = "complete" => hook[h].event \in {"success", "failure"}
  \/ /\ hook'[h].act \in Actions /\ hook'[h].event \in Events /\ hook'[h].step = "mark"
     /\ delivery'[hook'[h].act][hook'[h].event] # "unsent"

LEMMA HooksMove ==
  ASSUME Processes, PullTables, [Step]_state, NEW g \in Hooks
  PROVE  HookMoves(g)
<1>0. hook[g] \in HookRow /\ (hook[g].step # "idle" => hook[g].act \in Actions)
  BY DEF Processes
<1>1. ASSUME NEW h \in Hooks, HookStep(h) PROVE HookMoves(g)
  <2>1. CASE g # h
    <3>1. \/ \E s : HookGoto(h, s)
          \/ \E ok : HookAnswer(h, ok)
          \/ \E i : hook' = [hook EXCEPT ![h].step = "decide", ![h].id = i]
          \/ hook' = [hook EXCEPT ![h] = IdleHook]
      BY <1>1 DEF HookStep, MarkPullRequest, FindRevision, ApproveMerged, RejectClosed,
         CheckExternal, CompleteExternal, FinishDelivery
    <3>2. hook'[g] = hook[g]
      BY <2>1, <3>1 DEF HookGoto, HookAnswer, Processes
    <3>3. QED
      BY <3>2 DEF HookMoves
  <2>2. CASE g = h /\ MarkPullRequest(h)
    <3> DEFINE row == [pull[hook[g].act] EXCEPT
                         !.status = hook[g].event, !.sha = @ \/ hook[g].event = "merged"]
    <3>1. /\ hook[g].step = "mark" /\ hook[g].act \in Actions
          /\ \/ /\ HookGoto(g, "decide")
                /\ pull' = [pull EXCEPT ![hook[g].act] = row]
             \/ HookAnswer(g, TRUE)
      BY <1>0, <2>2 DEF MarkPullRequest, SetPull
    <3>2. pull[hook[g].act] \in PullRow
      BY <3>1 DEF PullTables
    <3>3. hook[g].event = "merged" => row.sha
      BY <3>2 DEF PullRow
    <3> HIDE DEF row
    <3>4. CASE HookGoto(g, "decide") /\ pull' = [pull EXCEPT ![hook[g].act] = row]
      <4>1. /\ hook'[g].act = hook[g].act /\ hook'[g].event = hook[g].event
        BY <1>0, <3>4 DEF HookGoto, Processes, HookRow
      <4>2. pull'[hook[g].act] = row
        BY <3>1, <3>4 DEF PullTables
      <4>3. QED
        BY <1>0, <3>1, <3>3, <3>4, <4>1, <4>2 DEF HookMoves, HookGoto, Processes
    <3>5. CASE HookAnswer(g, TRUE)
      <4>1. /\ hook'[g].act = hook[g].act /\ hook'[g].event = hook[g].event
            /\ hook'[g].step = "finish"
        BY <1>0, <3>5 DEF HookAnswer, Processes, HookRow
      <4>2. QED
        BY <3>1, <4>1 DEF HookMoves
    <3>6. QED
      BY <3>1, <3>4, <3>5
  <2>3. CASE g = h /\ FindRevision(h)
    <3>1. /\ hook'[g].act = hook[g].act /\ hook'[g].event = hook[g].event
          /\ hook[g].step = "mark" /\ hook[g].event # "merged"
          /\ hook'[g].step \in {"decide", "finish"}
      BY <1>0, <2>3 DEF FindRevision, HookAnswer, Processes, HookRow
    <3>2. QED
      BY <3>1 DEF HookMoves
  <2>4. CASE /\ g = h
             /\ ApproveMerged(h) \/ RejectClosed(h) \/ CheckExternal(h) \/ CompleteExternal(h)
    <3>1. /\ hook[g].step # "idle"
          /\ \/ HookGoto(g, "complete") /\ hook[g].event \in {"success", "failure"}
             \/ \E ok : HookAnswer(g, ok)
      BY <2>4 DEF ApproveMerged, RejectClosed, CheckExternal, CompleteExternal
    <3>2. /\ hook'[g].act = hook[g].act /\ hook'[g].event = hook[g].event
          /\ hook'[g].step \in {"complete", "finish"}
          /\ hook'[g].step = "complete" => hook[g].event \in {"success", "failure"}
      BY <1>0, <3>1 DEF HookGoto, HookAnswer, Processes, HookRow
    <3>3. QED
      BY <3>1, <3>2 DEF HookMoves
  <2>5. CASE g = h /\ FinishDelivery(h)
    <3>1. hook'[g].step = "idle"
      BY <2>5 DEF FinishDelivery, IdleHook, Processes
    <3>2. QED
      BY <3>1 DEF HookMoves
  <2>6. QED
    BY <1>1, <2>1, <2>2, <2>3, <2>4, <2>5 DEF HookStep
<1>2. ASSUME NEW h \in Hooks, NEW a \in Actions, NEW e \in Events, ReceiveWebhook(h, a, e)
      PROVE  HookMoves(g)
  <2>1. delivery'[a][e] = "processing"
    BY <1>2 DEF ReceiveWebhook, Deliver, PullTables
  <2>2. \/ hook'[g] = hook[g]
        \/ hook'[g].act = a /\ hook'[g].event = e /\ hook'[g].step = "mark"
    BY <1>2 DEF ReceiveWebhook, IdleHook, Processes
  <2>3. QED
    BY <2>1, <2>2 DEF HookMoves
<1>3. CASE Crash
  <2>1. hook'[g] = hook[g] \/ hook'[g] = IdleHook
    BY <1>3 DEF Crash, Processes
  <2>2. QED
    BY <2>1 DEF HookMoves, IdleHook
<1>4. CASE UNCHANGED hook
  BY <1>4 DEF HookMoves
<1>5. ASSUME NEW w \in Workers, WorkerStep(w) \/ \E a \in Actions : SeeProposal(w, a)
      PROVE  UNCHANGED hook
  BY <1>5 DEF WorkerStep, SeeProposal, ClaimPullRequest, ManifestUnchanged, ManifestChanged,
     LookForExisting, PostPullRequest, GitHubFails, CompletePullRequest, FailPullRequest
<1>6. QED
  BY <1>1, <1>2, <1>3, <1>4, <1>5
  DEF Step, state, processes, PullLeaseExpires, EngineerMerges, EngineerCloses, ReconcilerReports,
      FiveMinutesPass, ActionProposed, WorkerClaims, WorkerFails, ActionLeaseExpires,
      DecidedThroughAPI, IncidentOpens, IncidentEnds, ActionsCancelled

\* A delivery that is new.
LEMMA NewDelivery ==
  ASSUME Processes, PullTables, SentInv, [Step]_state, NEW a \in Actions,
         NEW e \in {"merged", "closed"}, delivery[a][e] = "unsent", delivery'[a][e] # "unsent"
  PROVE  github'[a] = e
<1>1. ASSUME NEW b \in Actions, NEW f \in Events, NEW s, Deliver(b, f, s)
      PROVE  b = a /\ f = e
  BY <1>1 DEF Deliver, PullTables
<1>2. ASSUME NEW b \in Actions, EngineerMerges(b) PROVE github'[a] = e
  <2>1. b = a /\ e = "merged"
    BY <1>1, <1>2 DEF EngineerMerges, Events
  <2>2. QED
    BY <1>2, <2>1 DEF EngineerMerges, PullTables
<1>3. ASSUME NEW b \in Actions, EngineerCloses(b) PROVE github'[a] = e
  <2>1. b = a /\ e = "closed"
    BY <1>1, <1>3 DEF EngineerCloses, Events
  <2>2. QED
    BY <1>3, <2>1 DEF EngineerCloses, PullTables
<1>4. ASSUME NEW b \in Actions, NEW f \in Events,
             \/ \E h \in Hooks : ReceiveWebhook(h, b, f)
             \/ FiveMinutesPass(b, f)
             \/ ReconcilerReports(b, f)
      PROVE  FALSE
  BY <1>1, <1>4, ReportsType DEF ReceiveWebhook, FiveMinutesPass, ReconcilerReports, BeginDelivery
<1>5. ASSUME NEW h \in Hooks, FinishDelivery(h) PROVE FALSE
  <2>1. /\ hook[h].act \in Actions /\ hook[h].event \in Events
        /\ delivery[hook[h].act][hook[h].event] # "unsent"
    BY <1>5 DEF FinishDelivery, Processes, SentInv
  <2>2. QED
    BY <1>1, <1>5, <2>1 DEF FinishDelivery
<1>6. delivery' # delivery
  OBVIOUS
<1>7. ASSUME NEW w \in Workers, WorkerStep(w) \/ \E b \in Actions : SeeProposal(w, b)
      PROVE  FALSE
  BY <1>6, <1>7 DEF WorkerStep, SeeProposal, ClaimPullRequest, ManifestUnchanged, ManifestChanged,
     LookForExisting, PostPullRequest, GitHubFails, CompletePullRequest, FailPullRequest
<1>8. ASSUME NEW h \in Hooks, HookStep(h) PROVE FALSE
  BY <1>5, <1>6, <1>8 DEF HookStep, MarkPullRequest, FindRevision, ApproveMerged, RejectClosed,
     CheckExternal, CompleteExternal
<1>9. QED
  BY <1>2, <1>3, <1>4, <1>6, <1>7, <1>8
  DEF Step, state, PullLeaseExpires, ActionProposed, WorkerClaims, WorkerFails, ActionLeaseExpires,
      DecidedThroughAPI, IncidentOpens, IncidentEnds, ActionsCancelled, Crash

\* An execution that is newly tracked.
LEMMA NewlyTracked ==
  ASSUME PullTables, Processes, [Step]_state, NEW a \in Actions,
         external[a] # "pull", external'[a] = "pull"
  PROVE  \E h \in Hooks : /\ hook[h].step = "decide" /\ hook[h].event = "merged"
                          /\ hook[h].act = a /\ ApproveAndStartExternal(a)
<1>1. ASSUME NEW h \in Hooks, ApproveMerged(h)
      PROVE  /\ hook[h].step = "decide" /\ hook[h].event = "merged"
             /\ hook[h].act = a /\ ApproveAndStartExternal(a)
  BY <1>1 DEF ApproveMerged, actions, PullTables
<1>2. ASSUME NEW b \in Actions, WorkerFails(b) PROVE FALSE
  BY <1>2 DEF WorkerFails, PullTables
<1>3. external' # external
  OBVIOUS
<1>4. ASSUME NEW w \in Workers, WorkerStep(w) \/ \E b \in Actions : SeeProposal(w, b)
      PROVE  FALSE
  BY <1>3, <1>4 DEF WorkerStep, SeeProposal, ClaimPullRequest, ManifestUnchanged, ManifestChanged,
     LookForExisting, PostPullRequest, GitHubFails, CompletePullRequest, FailPullRequest, actions
<1>5. ASSUME NEW h \in Hooks, HookStep(h) PROVE ApproveMerged(h)
  BY <1>3, <1>5 DEF HookStep, MarkPullRequest, FindRevision, RejectClosed,
     CheckExternal, CompleteExternal, FinishDelivery, actions
<1>6. QED
  BY <1>1, <1>2, <1>3, <1>4, <1>5
  DEF Step, state, actions, PullLeaseExpires, ActionProposed, WorkerClaims, ActionLeaseExpires,
      DecidedThroughAPI, IncidentOpens, IncidentEnds, ActionsCancelled, Crash, EngineerMerges,
      EngineerCloses, ReconcilerReports, FiveMinutesPass, ReceiveWebhook

LEMMA GitOpsInit == Init => GitOpsInv
<1> SUFFICES ASSUME Init PROVE GitOpsInv
  OBVIOUS
<1>1. Processes
  BY DEF Init, Processes, IdleWorker, IdleHook, WorkerRow, HookRow
<1>2. Tables
  <2>1. AbsentIncident \in IncidentRow
    BY DEF AbsentIncident, IncidentRow, NoRecovery, Lease, InvestigationStatus
  <2>2. AbsentAction \in ActionRow /\ Fresh(AbsentAction)
    BY DEF AbsentAction, ActionRow, Adapter, Lease, Fresh
  <2>3. QED
    BY <2>1, <2>2 DEF Init, IncidentsInit, RemediationInit, Tables, Observation
<1>3. PullTables
  <2>1. AbsentPull \in PullRow /\ AbsentPull.status = "absent"
    BY DEF AbsentPull, PullRow, Lease
  <2>2. QED
    BY <2>1 DEF Init, PullTables, DeliveryStatus
<1>4. SentInv /\ MarkedInv /\ TrackedInv
  BY DEF Init, SentInv, MarkedInv, TrackedInv, IdleHook, Events
<1>5. QED
  BY <1>1, <1>2, <1>3, <1>4 DEF GitOpsInv

LEMMA GitOpsStep ==
  ASSUME GitOpsInv, [Step]_state
  PROVE  GitOpsInv'
<1>0. Processes /\ Tables /\ PullTables /\ SentInv /\ MarkedInv /\ TrackedInv
  BY DEF GitOpsInv
<1>1. Processes' /\ Tables' /\ PullTables' /\ RowsFollow /\ Forward
  <2>1. external \in [Actions -> {"none", "pull", "error"}]
    BY <1>0 DEF PullTables
  <2>2. QED
    BY <1>0, <2>1, ProcessesStep, TablesStep, PullTablesStep
<1>2. SentInv'
  <2>1. ASSUME NEW a \in Actions, NEW e \in {"merged", "closed"}, delivery'[a][e] # "unsent"
        PROVE  github'[a] = e
    <3>1. CASE delivery[a][e] = "unsent"
      BY <1>0, <2>1, <3>1, NewDelivery
    <3>2. CASE delivery[a][e] # "unsent"
      BY <1>0, <1>1, <3>2 DEF SentInv, Forward
    <3>3. QED
      BY <3>1, <3>2
  <2>2. ASSUME NEW h \in Hooks, hook'[h].step # "idle"
        PROVE  delivery'[hook'[h].act][hook'[h].event] # "unsent"
    <3>1. HookMoves(h)
      BY <1>0, HooksMove
    <3>2. hook[h].step # "idle" =>
            /\ hook[h].act \in Actions /\ hook[h].event \in Events
            /\ delivery[hook[h].act][hook[h].event] # "unsent"
      BY <1>0 DEF Processes, SentInv
    <3>3. hook[h].step # "idle" => delivery'[hook[h].act][hook[h].event] # "unsent"
      BY <1>1, <3>2 DEF Forward
    <3>4. QED
      BY <2>2, <3>1, <3>3 DEF HookMoves
  <2>3. QED
    BY <2>1, <2>2 DEF SentInv
<1>3. MarkedInv'
  <2> SUFFICES ASSUME NEW h \in Hooks
               PROVE  /\ hook'[h].step = "decide" /\ hook'[h].event = "merged" =>
                           pull'[hook'[h].act].sha
                      /\ hook'[h].step = "complete" => hook'[h].event \in {"success", "failure"}
    BY DEF MarkedInv
  <2>1. HookMoves(h)
    BY <1>0, HooksMove
  <2>2. hook[h].step = "decide" /\ hook[h].event = "merged" => pull'[hook[h].act].sha
    BY <1>0, <1>1 DEF MarkedInv, Processes, Forward
  <2>3. hook[h].step = "complete" => hook[h].event \in {"success", "failure"}
    BY <1>0 DEF MarkedInv
  <2>4. QED
    BY <2>1, <2>2, <2>3 DEF HookMoves
<1>4. TrackedInv'
  <2> SUFFICES ASSUME NEW a \in Actions, external'[a] = "pull"
               PROVE  /\ github'[a] = "merged" /\ pull'[a].sha
                      /\ action'[a].decision = "approve" /\ action'[a].tracked
    BY DEF TrackedInv
  <2>1. CASE external[a] = "pull"
    BY <1>0, <1>1, <2>1 DEF TrackedInv, Forward, RowsFollow, Follows
  <2>2. CASE external[a] # "pull"
    <3>1. PICK h \in Hooks : /\ hook[h].step = "decide" /\ hook[h].event = "merged"
                             /\ hook[h].act = a /\ ApproveAndStartExternal(a)
      BY <1>0, <2>2, NewlyTracked
    <3>2. github[a] = "merged" /\ pull[a].sha
      BY <1>0, <3>1 DEF SentInv, MarkedInv
    <3>3. action[a] \in ActionRow
      BY <1>0 DEF Tables
    <3>4. action'[a].decision = "approve" /\ action'[a].tracked
      BY <1>0, <3>1, <3>3 DEF ApproveAndStartExternal, ActionRow, Tables
    <3>5. QED
      BY <1>1, <3>2, <3>4 DEF Forward
  <2>3. QED
    BY <2>1, <2>2
<1>5. QED
  BY <1>1, <1>2, <1>3, <1>4 DEF GitOpsInv

LEMMA GitOpsInduction == Spec => []GitOpsInv
<1>1. Init => GitOpsInv
  BY GitOpsInit
<1>2. GitOpsInv /\ [Next]_vars => GitOpsInv'
  BY GitOpsStep, NextIsStep
<1>3. QED
  BY <1>1, <1>2, PTL DEF Spec

(***************************************************************************)
(* Every table, every process record and what GitHub holds has its type.   *)
(***************************************************************************)
THEOREM GitOpsTypeCorrect == Spec => []TypeOK
<1>1. GitOpsInv /\ Histories => TypeOK
  BY DEF GitOpsInv, Processes, Tables, PullTables, Histories, TypeOK
<1>2. Init => Histories
  BY DEF Init, Histories
<1>3. Histories /\ [Next]_vars => Histories'
  BY HistoriesStep
<1>4. QED
  BY <1>1, <1>2, <1>3, GitOpsInduction, PTL DEF Spec

(***************************************************************************)
(* An execution that tracks a pull request was merged and approved, and    *)
(* its revision is known, whatever workers and requests do meanwhile.      *)
(***************************************************************************)
THEOREM TrackedWasMerged == Spec => []TrackedIsMerged
<1>1. GitOpsInv => TrackedIsMerged
  BY DEF GitOpsInv, TrackedInv, TrackedIsMerged
<1>2. QED
  BY <1>1, GitOpsInduction, PTL

-----------------------------------------------------------------------------
(* Handled merges                                                          *)

\* Two workers that are busy with an action contend for it.
ContendedInv ==
  \A a \in Actions : \A v, w \in Workers : v # w /\ Busy(v, a) /\ Busy(w, a) => a \in contended

\* While the only worker ever is busy with an action, its pull request is not open yet.
BusyInv ==
  \A w \in Workers :
    worker[w].step # "idle" /\ worker[w].act \notin contended =>
      pull[worker[w].act].status \in {"absent", "creating", "failed"}

\* What was merged in the order Histograph expects is in the table.
KnownInv ==
  \A a \in Actions :
    github[a] = "merged" /\ a \notin hasty /\ a \notin contended =>
      pull[a].number /\ pull[a].status \in {"open", "merged"}

Accounted(a) == external[a] = "pull" \/ a \in hasty \/ a \in contended

\* What is answered, or was, as handled.
AnsweredInv ==
  /\ \A h \in Hooks :
       hook[h].step = "finish" /\ hook[h].event = "merged" /\ hook[h].ok =>
         Accounted(hook[h].act)
  /\ HandledMergeStarted

\* A step that writes a pull request's status: a worker's, or a request's.
LEMMA PullMoves ==
  ASSUME Processes, PullTables, SentInv, [Step]_state, NEW a \in Actions
  PROVE  \/ pull'[a].status = pull[a].status
         \/ \E w \in Workers :
              /\ worker[w].step # "idle" /\ worker[w].act = a
              /\ \/ WorkerFinish(w)
                 \/ WorkerGoto(w, "check") /\ pull'[a].status \in {"creating", "failed"}
              /\ \/ pull'[a].status \in {"creating", "failed"}
                 \/ pull'[a].status = "open" /\ pull'[a].number
         \/ /\ pull[a].status \in {"open", "merged", "closed"}
            /\ UNCHANGED worker
            /\ pull'[a].status \in {"merged", "closed"}
            /\ pull'[a].status = "closed" => github[a] = "closed"
<1>0. \A b \in Actions : pull[b] \in PullRow
  BY DEF PullTables
<1>1. ASSUME NEW w \in Workers, ClaimPullRequest(w) \/ ManifestChanged(w) \/ CompletePullRequest(w)
                                \/ FailPullRequest(w),
             pull'[a].status # pull[a].status
      PROVE  /\ worker[w].step # "idle" /\ worker[w].act = a
             /\ \/ WorkerFinish(w)
                \/ WorkerGoto(w, "check") /\ pull'[a].status \in {"creating", "failed"}
             /\ \/ pull'[a].status \in {"creating", "failed"}
                \/ pull'[a].status = "open" /\ pull'[a].number
  <2>1. worker[w].step # "idle"
    BY <1>1 DEF ClaimPullRequest, ManifestChanged, CompletePullRequest, FailPullRequest, WorkerAt
  <2>2. worker[w].act \in Actions /\ pull[worker[w].act] \in PullRow
    BY <1>0, <2>1 DEF Processes
  <2>3. worker[w].act = a
    BY <1>1, <2>2 DEF ClaimPullRequest, ManifestChanged, CompletePullRequest, FailPullRequest,
       SetPull, OpenPull, PullTables
  <2>4. CASE ClaimPullRequest(w)
    <3> DEFINE row == [pull[a] EXCEPT !.status = "creating", !.lease = "live"]
    <3>1. pull' = [pull EXCEPT ![a] = row] /\ WorkerGoto(w, "check")
      BY <1>1, <2>3, <2>4 DEF ClaimPullRequest, SetPull
    <3>2. row.status = "creating"
      BY <2>2, <2>3 DEF PullRow
    <3>3. pull'[a].status = "creating"
      BY <3>1, <3>2 DEF PullTables
    <3>4. QED
      BY <2>1, <2>3, <3>1, <3>3
  <2>5. CASE ManifestChanged(w)
    <3> DEFINE row == [pull[a] EXCEPT !.status = "failed", !.lease = "none"]
    <3>1. pull' = [pull EXCEPT ![a] = row] /\ WorkerFinish(w)
      BY <1>1, <2>3, <2>5 DEF ManifestChanged, SetPull
    <3>2. row.status = "failed"
      BY <2>2, <2>3 DEF PullRow
    <3>3. pull'[a].status = "failed"
      BY <3>1, <3>2 DEF PullTables
    <3>4. QED
      BY <2>1, <2>3, <3>1, <3>3
  <2>6. CASE CompletePullRequest(w)
    BY <1>1, <2>1, <2>2, <2>3, <2>6 DEF CompletePullRequest, OpenPull, SetPull, PullTables, PullRow
  <2>7. CASE FailPullRequest(w)
    BY <1>1, <2>1, <2>2, <2>3, <2>7 DEF FailPullRequest, SetPull, PullTables, PullRow
  <2>8. QED
    BY <1>1, <2>4, <2>5, <2>6, <2>7
<1>2. ASSUME NEW h \in Hooks, MarkPullRequest(h), pull'[a].status # pull[a].status
      PROVE  /\ pull[a].status \in {"open", "merged", "closed"}
             /\ UNCHANGED worker
             /\ pull'[a].status \in {"merged", "closed"}
             /\ pull'[a].status = "closed" => github[a] = "closed"
  <2> DEFINE b == hook[h].act
             row == [pull[b] EXCEPT !.status = hook[h].event,
                                    !.sha = @ \/ hook[h].event = "merged"]
  <2>1. /\ b \in Actions /\ hook[h].event \in {"merged", "closed"}
        /\ delivery[b][hook[h].event] # "unsent"
    BY <1>2 DEF MarkPullRequest, Processes, SentInv
  <2>2. MarkableAs(b, hook[h].event) /\ pull' = [pull EXCEPT ![b] = row] /\ UNCHANGED worker
    BY <1>2 DEF MarkPullRequest, SetPull
  <2>3. row.status = hook[h].event
    BY <1>0, <2>1 DEF PullRow
  <2> HIDE DEF row
  <2>4. b = a /\ pull'[a].status = hook[h].event
    BY <1>2, <2>1, <2>2, <2>3 DEF PullTables
  <2>5. QED
    BY <2>1, <2>2, <2>4 DEF MarkableAs, SentInv
<1>3. ASSUME NEW b \in Actions, PullLeaseExpires(b) PROVE pull'[a].status = pull[a].status
  BY <1>0, <1>3 DEF PullLeaseExpires, SetPull, PullTables, PullRow
<1>4. ASSUME UNCHANGED pull PROVE pull'[a].status = pull[a].status
  BY <1>4
<1>5. ASSUME NEW w \in Workers,
             \/ ManifestUnchanged(w) \/ LookForExisting(w) \/ PostPullRequest(w) \/ GitHubFails(w)
             \/ \E b \in Actions : SeeProposal(w, b)
      PROVE  UNCHANGED pull
  BY <1>5 DEF ManifestUnchanged, LookForExisting, PostPullRequest, GitHubFails, SeeProposal
<1>6. ASSUME NEW h \in Hooks,
             \/ FindRevision(h) \/ ApproveMerged(h) \/ RejectClosed(h) \/ CheckExternal(h)
             \/ CompleteExternal(h) \/ FinishDelivery(h)
             \/ \E b \in Actions, e \in Events : ReceiveWebhook(h, b, e)
      PROVE  UNCHANGED pull
  BY <1>6 DEF FindRevision, ApproveMerged, RejectClosed, CheckExternal, CompleteExternal,
     FinishDelivery, ReceiveWebhook
<1>7. QED
  BY <1>1, <1>2, <1>3, <1>4, <1>5, <1>6
  DEF Step, state, WorkerStep, HookStep, ActionProposed, WorkerClaims, WorkerFails,
      ActionLeaseExpires, DecidedThroughAPI, IncidentOpens, IncidentEnds, ActionsCancelled, Crash,
      EngineerMerges, EngineerCloses, ReconcilerReports, FiveMinutesPass

\* A worker becomes busy with another action only by seeing its proposal.
LEMMA WorkersMove ==
  ASSUME Processes, [Step]_state, NEW w \in Workers, worker'[w].step # "idle"
  PROVE  \/ worker[w].step # "idle" /\ worker'[w].act = worker[w].act
         \/ PullClaimable(worker'[w].act) /\ UNCHANGED pull
<1>1. ASSUME NEW v \in Workers, WorkerStep(v)
      PROVE  worker[w].step # "idle" /\ worker'[w].act = worker[w].act
  <2>1. \/ worker[v].step # "idle" /\ \E s : WorkerGoto(v, s)
        \/ WorkerFinish(v)
    BY <1>1 DEF WorkerStep, WorkerAt, ClaimPullRequest, ManifestUnchanged, ManifestChanged,
       LookForExisting, PostPullRequest, GitHubFails, CompletePullRequest, FailPullRequest
  <2>2. QED
    BY <2>1 DEF WorkerGoto, WorkerFinish, IdleWorker, Processes, WorkerRow
<1>2. ASSUME NEW v \in Workers, NEW a \in Actions, SeeProposal(v, a)
      PROVE  \/ worker[w].step # "idle" /\ worker'[w].act = worker[w].act
             \/ PullClaimable(worker'[w].act) /\ UNCHANGED pull
  BY <1>2 DEF SeeProposal, Processes
<1>3. ASSUME NEW v \in Workers, WorkerFinish(v)
      PROVE  worker[w].step # "idle" /\ worker'[w].act = worker[w].act
  BY <1>3 DEF WorkerFinish, IdleWorker, Processes
<1>4. CASE UNCHANGED worker
  BY <1>4
<1>5. ASSUME NEW h \in Hooks, HookStep(h) \/ \E a \in Actions, e \in Events : ReceiveWebhook(h, a, e)
      PROVE  UNCHANGED worker
  BY <1>5 DEF HookStep, ReceiveWebhook, MarkPullRequest, FindRevision, ApproveMerged, RejectClosed,
     CheckExternal, CompleteExternal, FinishDelivery
<1>6. QED
  BY <1>1, <1>2, <1>3, <1>4, <1>5
  DEF Step, state, processes, PullLeaseExpires, EngineerMerges, EngineerCloses, ReconcilerReports,
      FiveMinutesPass, ActionProposed, WorkerClaims, WorkerFails, ActionLeaseExpires,
      DecidedThroughAPI, IncidentOpens, IncidentEnds, ActionsCancelled, Crash

LEMMA ContendedStep ==
  ASSUME ContendedInv, [Next]_vars
  PROVE  ContendedInv'
<1>1. CASE UNCHANGED vars
  BY <1>1 DEF vars, state, ContendedInv, Busy, WorkerAt
<1>2. CASE Remember
  BY <1>2 DEF Remember, ContendedInv
<1>3. QED
  BY <1>1, <1>2, NextIsStep

LEMMA BusyStep ==
  ASSUME GitOpsInv, ContendedInv, BusyInv, [Next]_vars
  PROVE  BusyInv'
<1> SUFFICES ASSUME NEW w \in Workers, worker'[w].step # "idle", worker'[w].act \notin contended'
             PROVE  pull'[worker'[w].act].status \in {"absent", "creating", "failed"}
  BY DEF BusyInv
<1>0. Processes /\ PullTables /\ SentInv /\ [Step]_state /\ contended \subseteq contended'
  BY NextIsStep DEF GitOpsInv
<1>1. CASE PullClaimable(worker'[w].act) /\ UNCHANGED pull
  BY <1>1 DEF PullClaimable
<1>2. CASE worker[w].step # "idle" /\ worker'[w].act = worker[w].act
  <2> DEFINE a == worker[w].act
  <2>1. /\ a \in Actions /\ a \notin contended
        /\ pull[a].status \in {"absent", "creating", "failed"}
    BY <1>0, <1>2 DEF Processes, BusyInv
  <2>2. CASE pull'[a].status = pull[a].status
    BY <1>2, <2>1, <2>2
  <2>3. ASSUME NEW v \in Workers, worker[v].step # "idle", worker[v].act = a,
               \/ WorkerFinish(v)
               \/ WorkerGoto(v, "check") /\ pull'[a].status \in {"creating", "failed"}
        PROVE  pull'[a].status \in {"creating", "failed"}
    <3>1. v = w
      BY <1>2, <2>1, <2>3 DEF ContendedInv, Busy, WorkerAt
    <3>2. ~WorkerFinish(w)
      BY <1>0 DEF WorkerFinish, IdleWorker, Processes
    <3>3. QED
      BY <2>3, <3>1, <3>2
  <2>4. QED
    BY <1>0, <1>2, <2>1, <2>2, <2>3, PullMoves
<1>3. QED
  BY <1>0, <1>1, <1>2, WorkersMove

LEMMA NewMerge ==
  ASSUME Processes, PullTables, [Step]_state, NEW a \in Actions,
         github[a] # "merged", github'[a] = "merged"
  PROVE  github[a] = "open" /\ UNCHANGED pull
<1>1. ASSUME NEW w \in Workers, WorkerStep(w) \/ \E b \in Actions : SeeProposal(w, b)
      PROVE  FALSE
  <2>1. \/ github' = github
        \/ github' = [github EXCEPT ![worker[w].act] = "open"]
    BY <1>1 DEF WorkerStep, SeeProposal, ClaimPullRequest, ManifestUnchanged, ManifestChanged,
       LookForExisting, PostPullRequest, GitHubFails, CompletePullRequest, FailPullRequest
  <2>2. QED
    BY <2>1 DEF PullTables
<1>2. ASSUME NEW b \in Actions, EngineerMerges(b) PROVE github[a] = "open" /\ UNCHANGED pull
  BY <1>2 DEF EngineerMerges, PullTables
<1>3. ASSUME NEW b \in Actions, EngineerCloses(b) PROVE FALSE
  BY <1>3 DEF EngineerCloses, PullTables
<1>4. ASSUME NEW h \in Hooks, HookStep(h) \/ \E b \in Actions, e \in Events : ReceiveWebhook(h, b, e)
      PROVE  UNCHANGED github
  BY <1>4 DEF HookStep, ReceiveWebhook, MarkPullRequest, FindRevision, ApproveMerged, RejectClosed,
     CheckExternal, CompleteExternal, FinishDelivery
<1>5. QED
  BY <1>1, <1>2, <1>3, <1>4
  DEF Step, state, PullLeaseExpires, ReconcilerReports,
      FiveMinutesPass, ActionProposed, WorkerClaims, WorkerFails, ActionLeaseExpires,
      DecidedThroughAPI, IncidentOpens, IncidentEnds, ActionsCancelled, Crash

LEMMA KnownStep ==
  ASSUME GitOpsInv, BusyInv, KnownInv, [Next]_vars
  PROVE  KnownInv'
<1> SUFFICES ASSUME NEW a \in Actions, github'[a] = "merged", a \notin hasty', a \notin contended'
             PROVE  pull'[a].number /\ pull'[a].status \in {"open", "merged"}
  BY DEF KnownInv
<1>0. /\ Processes /\ PullTables /\ SentInv /\ [Step]_state
      /\ a \notin hasty /\ a \notin contended
  BY NextIsStep DEF GitOpsInv
<1>1. CASE github[a] # "merged"
  <2>1. github[a] = "open" /\ UNCHANGED pull
    BY <1>0, <1>1, NewMerge
  <2>2. Remember
    BY <1>1, NextIsStep DEF vars, state
  <2>3. pull[a].status = "open"
    BY <2>1, <2>2 DEF Remember
  <2>4. QED
    BY <1>0, <2>1, <2>3 DEF PullTables
<1>2. CASE github[a] = "merged"
  <2>1. pull[a].number /\ pull[a].status \in {"open", "merged"}
    BY <1>0, <1>2 DEF KnownInv
  <2>2. pull'[a].number
    BY <1>0, <2>1, PullTablesStep DEF Forward
  <2>3. \A w \in Workers : ~(worker[w].step # "idle" /\ worker[w].act = a)
    BY <1>0, <2>1 DEF BusyInv
  <2>4. QED
    BY <1>0, <1>2, <2>1, <2>2, <2>3, PullMoves
<1>3. QED
  BY <1>1, <1>2

\* An execution stays that of its pull request.
LEMMA TrackedStays ==
  ASSUME GitOpsInv, [Step]_state, NEW a \in Actions, external[a] = "pull"
  PROVE  external'[a] = "pull"
<1>0. Processes /\ PullTables /\ action[a].tracked
  BY DEF GitOpsInv, TrackedInv
<1>1. ASSUME NEW b \in Actions, WorkerFails(b) PROVE external'[a] = "pull"
  BY <1>0, <1>1 DEF WorkerFails, PullTables
<1>2. ASSUME NEW h \in Hooks, ApproveMerged(h) PROVE external'[a] = "pull"
  BY <1>0, <1>2 DEF ApproveMerged, actions, PullTables
<1>3. CASE UNCHANGED external
  BY <1>3
<1>4. ASSUME NEW w \in Workers, WorkerStep(w) \/ \E b \in Actions : SeeProposal(w, b)
      PROVE  UNCHANGED external
  BY <1>4 DEF WorkerStep, SeeProposal, ClaimPullRequest, ManifestUnchanged, ManifestChanged,
     LookForExisting, PostPullRequest, GitHubFails, CompletePullRequest, FailPullRequest, actions
<1>5. ASSUME NEW h \in Hooks, HookStep(h) PROVE ApproveMerged(h) \/ UNCHANGED external
  BY <1>5 DEF HookStep, MarkPullRequest, FindRevision, RejectClosed,
     CheckExternal, CompleteExternal, FinishDelivery, actions
<1>6. QED
  BY <1>1, <1>2, <1>3, <1>4, <1>5
  DEF Step, state, actions, PullLeaseExpires, ActionProposed, WorkerClaims, ActionLeaseExpires,
      DecidedThroughAPI, IncidentOpens, IncidentEnds, ActionsCancelled, Crash, EngineerMerges,
      EngineerCloses, ReconcilerReports, FiveMinutesPass, ReceiveWebhook

LEMMA NewAnswer ==
  ASSUME GitOpsInv, KnownInv, [Step]_state, NEW g \in Hooks,
         hook'[g] # hook[g], hook'[g].step = "finish", hook'[g].event = "merged", hook'[g].ok
  PROVE  external'[hook'[g].act] = "pull" \/ hook'[g].act \in hasty \cup contended
<1>0. /\ Processes /\ PullTables /\ SentInv /\ hook[g] \in HookRow
      /\ hook[g].step # "idle" => hook[g].act \in Actions
  BY DEF GitOpsInv, Processes
<1>1. ASSUME NEW h \in Hooks, HookStep(h)
      PROVE  external'[hook'[g].act] = "pull" \/ hook'[g].act \in hasty \cup contended
  <2>1. \/ \E s : HookGoto(h, s)
        \/ \E ok : HookAnswer(h, ok)
        \/ \E i : hook' = [hook EXCEPT ![h].step = "decide", ![h].id = i]
        \/ hook' = [hook EXCEPT ![h] = IdleHook]
    BY <1>1 DEF HookStep, MarkPullRequest, FindRevision, ApproveMerged, RejectClosed,
       CheckExternal, CompleteExternal, FinishDelivery
  <2>2. g = h
    BY <2>1 DEF HookGoto, HookAnswer, GitOpsInv, Processes
  <2>3. CASE MarkPullRequest(h)
    <3>1. /\ hook[g].step = "mark"
          /\ \/ HookGoto(g, "decide")
             \/ HookAnswer(g, TRUE) /\ ~MarkableAs(hook[g].act, hook[g].event)
      BY <2>2, <2>3 DEF MarkPullRequest
    <3>2. ~HookGoto(g, "decide")
      BY <1>0 DEF HookGoto, Processes, HookRow
    <3>3. hook'[g].act = hook[g].act /\ hook'[g].event = hook[g].event
      BY <1>0, <3>1, <3>2 DEF HookAnswer, Processes, HookRow
    <3>4. github[hook[g].act] = "merged" /\ hook[g].act \in Actions
      <4>1. hook[g].act \in Actions /\ hook[g].event = "merged"
        BY <1>0, <3>1, <3>3
      <4>2. delivery[hook[g].act]["merged"] # "unsent"
        BY <1>0, <3>1, <4>1 DEF SentInv
      <4>3. QED
        BY <1>0, <4>1, <4>2 DEF SentInv
    <3>5. MarkableAs(hook[g].act, "merged") \/ hook[g].act \in hasty \cup contended
      BY <3>4 DEF KnownInv, MarkableAs
    <3>6. QED
      BY <1>0, <3>1, <3>2, <3>3, <3>5
  <2>4. CASE ApproveMerged(h)
    <3>1. PICK ok \in BOOLEAN : HookAnswer(g, ok) /\ (ok => external'[hook[g].act] = "pull")
      <4>1. hook[g].act \in Actions
        BY <1>0, <2>2, <2>4 DEF ApproveMerged
      <4>2. CASE external' = [external EXCEPT ![hook[g].act] = "pull"] /\ HookAnswer(g, TRUE)
        BY <1>0, <4>1, <4>2 DEF PullTables
      <4>3. CASE /\ UNCHANGED external
                 /\ HookAnswer(g, /\ action[hook[g].act].status \in {"executing", "succeeded", "failed"}
                                  /\ external[hook[g].act] = "pull")
        BY <4>3
      <4>4. QED
        BY <2>2, <2>4, <4>2, <4>3 DEF ApproveMerged, actions
    <3>2. hook'[g].act = hook[g].act /\ hook'[g].ok = ok
      BY <1>0, <3>1 DEF HookAnswer, Processes, HookRow
    <3>3. QED
      BY <3>1, <3>2
  <2>5. CASE FindRevision(h) \/ RejectClosed(h) \/ CheckExternal(h) \/ CompleteExternal(h)
    <3>1. hook'[g].event = hook[g].event
      BY <1>0, <2>1, <2>2 DEF HookGoto, HookAnswer, IdleHook, Processes, HookRow
    <3>2. hook[g].event # "merged"
      BY <2>2, <2>5 DEF FindRevision, RejectClosed, CheckExternal, CompleteExternal,
         GitOpsInv, MarkedInv
    <3>3. QED
      BY <3>1, <3>2
  <2>6. CASE FinishDelivery(h)
    BY <1>0, <2>2, <2>6 DEF FinishDelivery, IdleHook, Processes
  <2>7. QED
    BY <1>1, <2>3, <2>4, <2>5, <2>6 DEF HookStep
<1>2. ASSUME NEW h \in Hooks, NEW a \in Actions, NEW e \in Events, ReceiveWebhook(h, a, e)
      PROVE  FALSE
  BY <1>0, <1>2 DEF ReceiveWebhook, IdleHook, Processes
<1>3. CASE Crash
  BY <1>0, <1>3 DEF Crash, IdleHook, Processes
<1>4. hook' # hook
  OBVIOUS
<1>5. ASSUME NEW w \in Workers, WorkerStep(w) \/ \E a \in Actions : SeeProposal(w, a)
      PROVE  UNCHANGED hook
  BY <1>5 DEF WorkerStep, SeeProposal, ClaimPullRequest, ManifestUnchanged, ManifestChanged,
     LookForExisting, PostPullRequest, GitHubFails, CompletePullRequest, FailPullRequest
<1>6. QED
  BY <1>1, <1>2, <1>3, <1>4, <1>5
  DEF Step, state, processes, PullLeaseExpires, EngineerMerges, EngineerCloses, ReconcilerReports,
      FiveMinutesPass, ActionProposed, WorkerClaims, WorkerFails, ActionLeaseExpires,
      DecidedThroughAPI, IncidentOpens, IncidentEnds, ActionsCancelled

LEMMA NewlyHandled ==
  ASSUME Processes, PullTables, [Step]_state, NEW a \in Actions,
         delivery[a]["merged"] # "completed", delivery'[a]["merged"] = "completed"
  PROVE  \E h \in Hooks : /\ hook[h].step = "finish" /\ hook[h].event = "merged"
                          /\ hook[h].ok /\ hook[h].act = a
<1>1. ASSUME NEW b \in Actions, NEW f \in Events, NEW s, Deliver(b, f, s)
      PROVE  b = a /\ f = "merged" /\ s = "completed"
  BY <1>1 DEF Deliver, PullTables, Events
<1>2. ASSUME NEW b \in Actions, EngineerMerges(b) \/ EngineerCloses(b) PROVE FALSE
  BY <1>1, <1>2 DEF EngineerMerges, EngineerCloses, Events
<1>3. ASSUME NEW b \in Actions, NEW f \in Events,
             \/ \E h \in Hooks : ReceiveWebhook(h, b, f)
             \/ FiveMinutesPass(b, f)
             \/ ReconcilerReports(b, f)
      PROVE  FALSE
  BY <1>1, <1>3 DEF ReceiveWebhook, FiveMinutesPass, ReconcilerReports
<1>4. ASSUME NEW h \in Hooks, FinishDelivery(h)
      PROVE  /\ hook[h].step = "finish" /\ hook[h].event = "merged"
             /\ hook[h].ok /\ hook[h].act = a
  BY <1>1, <1>4 DEF FinishDelivery, Processes
<1>5. delivery' # delivery
  OBVIOUS
<1>6. ASSUME NEW w \in Workers, WorkerStep(w) \/ \E b \in Actions : SeeProposal(w, b)
      PROVE  FALSE
  BY <1>5, <1>6 DEF WorkerStep, SeeProposal, ClaimPullRequest, ManifestUnchanged, ManifestChanged,
     LookForExisting, PostPullRequest, GitHubFails, CompletePullRequest, FailPullRequest
<1>7. ASSUME NEW h \in Hooks, HookStep(h) PROVE FinishDelivery(h)
  BY <1>5, <1>7 DEF HookStep, MarkPullRequest, FindRevision, ApproveMerged, RejectClosed,
     CheckExternal, CompleteExternal
<1>8. QED
  BY <1>2, <1>3, <1>4, <1>5, <1>6, <1>7
  DEF Step, state, PullLeaseExpires, ActionProposed, WorkerClaims, WorkerFails, ActionLeaseExpires,
      DecidedThroughAPI, IncidentOpens, IncidentEnds, ActionsCancelled, Crash

LEMMA AnsweredStep ==
  ASSUME GitOpsInv, KnownInv, AnsweredInv, [Next]_vars
  PROVE  AnsweredInv'
<1>0. /\ Processes /\ PullTables /\ [Step]_state
      /\ hasty \subseteq hasty' /\ contended \subseteq contended'
  BY NextIsStep DEF GitOpsInv
<1>1. ASSUME NEW a \in Actions, Accounted(a) PROVE Accounted(a)'
  BY <1>0, <1>1, TrackedStays DEF Accounted
<1>2. ASSUME NEW h \in Hooks, hook'[h].step = "finish", hook'[h].event = "merged", hook'[h].ok
      PROVE  Accounted(hook[h].act)'
  <2>1. CASE hook'[h] # hook[h]
    BY <1>0, <1>2, <2>1, NewAnswer DEF Accounted
  <2>2. CASE hook'[h] = hook[h]
    <3>1. Accounted(hook[h].act) /\ hook[h].act \in Actions
      BY <1>0, <1>2, <2>2 DEF AnsweredInv, Processes
    <3>2. QED
      BY <1>1, <2>2, <3>1 DEF Accounted
  <2>3. QED
    BY <2>1, <2>2
<1>3. ASSUME NEW a \in Actions, delivery'[a]["merged"] = "completed" PROVE Accounted(a)'
  <2>1. Accounted(a)
    <3>1. CASE delivery[a]["merged"] = "completed"
      BY <3>1 DEF AnsweredInv, HandledMergeStarted, Accounted
    <3>2. CASE delivery[a]["merged"] # "completed"
      BY <1>0, <1>3, <3>2, NewlyHandled DEF AnsweredInv
    <3>3. QED
      BY <3>1, <3>2
  <2>2. QED
    BY <1>1, <2>1
<1>4. QED
  BY <1>2, <1>3 DEF AnsweredInv, HandledMergeStarted, Accounted

HandledInv == GitOpsInv /\ ContendedInv /\ BusyInv /\ KnownInv /\ AnsweredInv

(***************************************************************************)
(* A merge that is answered as handled has started the execution, unless   *)
(* the engineer merged before the table showed the pull request as open or *)
(* two workers were busy with the action at a time: for every number of    *)
(* actions, workers and requests, crashes included.                        *)
(***************************************************************************)
THEOREM HandledMergesStart == Spec => []HandledMergeStarted
<1>1. Init => HandledInv
  <2>1. Init => ContendedInv /\ BusyInv /\ KnownInv /\ AnsweredInv
    BY DEF Init, ContendedInv, Busy, WorkerAt, BusyInv, KnownInv, AnsweredInv,
           HandledMergeStarted, IdleWorker, IdleHook, Events
  <2>2. QED
    BY <2>1, GitOpsInit DEF HandledInv
<1>2. HandledInv /\ [Next]_vars => HandledInv'
  BY NextIsStep, GitOpsStep, ContendedStep, BusyStep, KnownStep, AnsweredStep DEF HandledInv
<1>3. HandledInv => HandledMergeStarted
  BY DEF HandledInv, AnsweredInv
<1>4. QED
  BY <1>1, <1>2, <1>3, PTL DEF Spec

-----------------------------------------------------------------------------
(* Refinement                                                              *)

phaseBar == [a \in Actions |-> action[a].status]
liveBar == {i \in Incidents : IsActive(i)}
verifiedBar == {a \in Actions : action[a].verified}

Refined == Contract!Next \/ UNCHANGED Contract!contractVars

LEMMA RowRefines ==
  ASSUME Tables, UNCHANGED incident, NEW a \in Actions, RowWritten(a)
  PROVE  Refined
<1>1. PICK s \in ActionRow : action' = [action EXCEPT ![a] = s] /\ Follows(a, action[a], s)
  BY DEF RowWritten
<1> DEFINE r == action[a]
<1>2. \A to : s.status = to => phaseBar' = [phaseBar EXCEPT ![a] = to]
  BY <1>1 DEF phaseBar, Tables
<1>3. liveBar' = liveBar /\ verifiedBar' = verifiedBar
  BY <1>1 DEF liveBar, verifiedBar, IsActive, Tables, Follows
<1>4. \A from, to : r.status = from /\ s.status = to => Contract!Move(a, from, to)
  BY <1>2, <1>3 DEF Contract!Move, phaseBar, liveBar, verifiedBar
<1>5. ForActiveIncident(a) => IncidentOf[a] \in liveBar
  BY IncidentOfType DEF ForActiveIncident, liveBar
<1>6. CASE s.status = r.status
  <2>1. phaseBar' = phaseBar
    BY <1>2, <1>6 DEF phaseBar
  <2>2. QED
    BY <1>3, <2>1 DEF Refined, Contract!contractVars, phaseBar, liveBar, verifiedBar
<1>7. CASE r.status = "absent" /\ s.status = "proposed"
  BY <1>4, <1>7 DEF Refined, Contract!Next, Contract!Propose
<1>8. CASE /\ r.status = "proposed" /\ ForActiveIncident(a)
           /\ s.status \in {"approved", "rejected"}
  <2>1. Contract!Decide(a)
    BY <1>4, <1>5, <1>8 DEF Contract!Decide, liveBar
  <2>2. QED
    BY <2>1 DEF Refined, Contract!Next
<1>9. CASE r.status = "proposed" /\ ForActiveIncident(a) /\ s.status = "executing"
  <2>1. Contract!Merge(a)
    BY <1>4, <1>5, <1>9 DEF Contract!Merge, liveBar
  <2>2. QED
    BY <2>1 DEF Refined, Contract!Next
<1>10. CASE r.status = "approved" /\ s.status = "executing" /\ ForActiveIncident(a)
  <2>1. Contract!Start(a)
    BY <1>4, <1>5, <1>10 DEF Contract!Start, liveBar
  <2>2. QED
    BY <2>1 DEF Refined, Contract!Next
<1>11. CASE r.status = "executing" /\ s.status \in {"succeeded", "failed"}
  <2>1. Contract!Finish(a)
    BY <1>4, <1>11 DEF Contract!Finish
  <2>2. QED
    BY <2>1 DEF Refined, Contract!Next
<1>12. CASE r.status \in {"proposed", "approved"} /\ s.status = "cancelled"
  <2>1. phaseBar' = [b \in Actions |-> IF b \in {a} THEN "cancelled" ELSE phaseBar[b]]
    BY <1>2, <1>12 DEF phaseBar
  <2>2. \A b \in {a} : phaseBar[b] \in {"proposed", "approved"}
    BY <1>12 DEF phaseBar
  <2>3. Contract!Withdraw({a})
    BY <1>3, <2>1, <2>2 DEF Contract!Withdraw, Contract!Waiting, phaseBar, liveBar, verifiedBar
  <2>4. QED
    BY <2>3 DEF Refined, Contract!Next
<1>13. QED
  BY <1>1, <1>6, <1>7, <1>8, <1>9, <1>10, <1>11, <1>12 DEF Follows

LEMMA CancellationRefines ==
  ASSUME Tables, UNCHANGED incident, NEW i \in Incidents, CancelForIncident(i)
  PROVE  Refined
<1>1. PICK S \in SUBSET Actions :
        S = {a \in Actions : /\ IncidentOf[a] = i
                             /\ action[a].status \in {"proposed", "approved"}}
  OBVIOUS
<1>2. ASSUME NEW a \in Actions
      PROVE  /\ action'[a].status = (IF a \in S THEN "cancelled" ELSE action[a].status)
             /\ action'[a].verified = action[a].verified
  <2>1. action[a] \in ActionRow
    BY DEF Tables
  <2>2. QED
    BY <1>1, <2>1 DEF CancelForIncident, ActionRow
<1>3. phaseBar' = [a \in Actions |-> IF a \in S THEN "cancelled" ELSE phaseBar[a]]
  BY <1>2 DEF phaseBar
<1>4. liveBar' = liveBar /\ verifiedBar' = verifiedBar
  BY <1>2 DEF liveBar, verifiedBar, IsActive
<1>5. \A a \in S : phaseBar[a] \in {"proposed", "approved"}
  BY <1>1 DEF phaseBar
<1>6. Contract!Withdraw(S)
  BY <1>3, <1>4, <1>5 DEF Contract!Withdraw, Contract!Waiting, phaseBar, liveBar, verifiedBar
<1>7. QED
  BY <1>6 DEF Refined, Contract!Next

LEMMA IncidentRefines ==
  ASSUME Tables, IncidentStep
  PROVE  Refined
<1>1. PICK i \in Incidents : \E row \in IncidentRow : SetIncident(i, row)
  BY DEF IncidentStep
<1>2. liveBar' \in {liveBar \cup {i}, liveBar \ {i}}
  BY <1>1 DEF liveBar, IsActive, SetIncident, Tables
<1>3. phaseBar' = phaseBar /\ verifiedBar' = verifiedBar
  BY DEF IncidentStep, phaseBar, verifiedBar
<1>4. Contract!Toggle(i)
  BY <1>2, <1>3 DEF Contract!Toggle, phaseBar, liveBar, verifiedBar
<1>5. QED
  BY <1>4 DEF Refined, Contract!Next

(***************************************************************************)
(* Remediation through GitHub implements the contract of remediation       *)
(* actions: no order of webhooks, workers, deploys, decisions and crashes  *)
(* starts an action that was not decided, or moves a final one.            *)
(***************************************************************************)
THEOREM GitOpsImplementsContract == Spec => ContractSpec
<1>1. Init => Contract!Init
  BY DEF Init, IncidentsInit, RemediationInit, AbsentIncident, AbsentAction, Contract!Init,
         IsActive, ActiveStatus
<1>2. GitOpsInv /\ [Next]_vars => [Contract!Next]_(Contract!contractVars)
  <2> SUFFICES ASSUME GitOpsInv, [Next]_vars PROVE Refined
    BY DEF Refined
  <2>0. Tables /\ Processes /\ [Step]_state
    BY NextIsStep DEF GitOpsInv
  <2>1. CASE ActionStep
    BY <2>0, <2>1, RowRefines DEF ActionStep
  <2>2. CASE CancelStep
    BY <2>0, <2>2, CancellationRefines DEF CancelStep
  <2>3. CASE IncidentStep
    BY <2>0, <2>3, IncidentRefines
  <2>4. CASE OtherStep
    BY <2>4 DEF OtherStep, Refined, Contract!contractVars, IsActive
  <2>5. QED
    BY <2>0, <2>1, <2>2, <2>3, <2>4, TableSteps
<1>3. QED
  BY <1>1, <1>2, GitOpsInduction, PTL DEF Spec, ContractSpec, Contract!Spec

-----------------------------------------------------------------------------
(* The contract of incidents                                               *)

LEMMA StepIsLawful ==
  ASSUME Tables, Unrecovered, [Step]_state
  PROVE  Lawful
<1>0. Table
  BY DEF Tables, Table
<1>1. ASSUME NEW i \in Incidents, IncidentOpens(i) PROVE Lawful
  BY <1>0, <1>1, OpeningIsLawful DEF IncidentOpens
<1>2. ASSUME NEW i \in Incidents, IncidentEnds(i) PROVE Lawful
  <2>1. incident[i].status # "absent" /\ "closed" \in IncidentStatus
    BY <1>2 DEF IncidentEnds, IsActive, ActiveStatus, IncidentStatus, InactiveStatus
  <2>2. QED
    BY <1>0, <1>2, <2>1, TransitionIsLawful DEF IncidentEnds
<1>3. UNCHANGED incident \/ \E i \in Incidents : IncidentOpens(i) \/ IncidentEnds(i)
  BY DEF Step, state, actions, WorkerStep, HookStep, SeeProposal, ClaimPullRequest, ManifestChanged,
         ManifestUnchanged, LookForExisting, PostPullRequest, GitHubFails, CompletePullRequest,
         FailPullRequest, ReceiveWebhook, MarkPullRequest, FindRevision, ApproveMerged, RejectClosed,
         CheckExternal, CompleteExternal, FinishDelivery, PullLeaseExpires, EngineerMerges,
         EngineerCloses, ReconcilerReports, FiveMinutesPass, Crash, ActionProposed, WorkerClaims,
         WorkerFails, ActionLeaseExpires, DecidedThroughAPI, ActionsCancelled
<1>4. QED
  BY <1>1, <1>2, <1>3, RestIsLawful

(***************************************************************************)
(* Remediation through GitHub keeps the contract of incidents towards the  *)
(* rest of the control plane.                                              *)
(***************************************************************************)
THEOREM GitOpsKeepsContract == Spec => LifecycleSpec
<1>1. Init => Lifecycle!Init /\ Unrecovered /\ OneActivePerMonitor
  BY TableStarts DEF Init
<1>2. ASSUME GitOpsInv, GitOpsInv', Unrecovered, OneActivePerMonitor, [Next]_vars
      PROVE  Unrecovered' /\ OneActivePerMonitor' /\ Lawful
  BY <1>2, NextIsStep, StepIsLawful, LawfulKeeps DEF GitOpsInv, Tables, Table
<1>3. GitOpsInv /\ GitOpsInv' /\ Unrecovered /\ OneActivePerMonitor /\ [Next]_vars =>
        [Lifecycle!Next]_(Lifecycle!contractVars)
  BY <1>2 DEF Lawful
<1>4. QED
  BY <1>1, <1>2, <1>3, GitOpsInduction, PTL DEF Spec, LifecycleSpec, Lifecycle!Spec

===============================================================================
