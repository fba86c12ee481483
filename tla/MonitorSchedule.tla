---------------------------- MODULE MonitorSchedule ----------------------------
(***************************************************************************)
(* Scheduled detection.  MonitorWorker claims a due monitor, evaluates it  *)
(* as of the time its pass began, records an event when the signal crosses *)
(* its threshold, has IncidentRepository.create answer the event, and      *)
(* moves the schedule on.  Each of these is a transaction of its own, and  *)
(* complete_evaluation and fail_evaluation address the monitor by id,      *)
(* whoever holds its lease.  An API request evaluates a monitor without a  *)
(* claim, as of now or of a time its caller chooses.                       *)
(*                                                                         *)
(* Abstracted: what is measured (Detection models that; here a signal      *)
(* crosses or does not), and batches: a monitor that waits for its turn in *)
(* one belongs to a slow worker with a batch of one.                       *)
(***************************************************************************)
EXTENDS Incidents, FiniteSets

CONSTANTS
  Workers,        \* control-plane workers
  Checkers,       \* detection requests in progress
  None,           \* no monitor, no event
  LeaseTime,      \* worker_lease_seconds
  Interval,       \* check_interval_seconds
  RetryTime,      \* worker_retry_seconds
  CheckTimes,     \* bound: when requests come
  AsOfTimes,      \* bound: the times requests evaluate as of
  Moves,          \* bound: the statuses engineers give an incident
  MaxTime,        \* bound: the clock stops here
  Mortal,         \* bound: the workers that may die
  MaxCrashes      \* bound: how often that happens

ASSUME DurationsType == {LeaseTime, Interval, RetryTime, MaxTime} \subseteq Nat \ {0}
ASSUME CrashesType == MaxCrashes \in Nat
ASSUME MovesType == Moves \subseteq IncidentStatus
ASSUME ProcessesType == Workers \cap Checkers = {}

VARIABLES
  now,            \* the clock
  schedule,       \* monitors
  run,            \* monitor_runs, by monitor and scheduled_for
  event,          \* monitor_events, by monitor and occurred_at
  raisedBy,       \* incidents.monitor_event_id
  timeline,       \* incident_events: which incidents answered an event
  process,        \* the workers and the requests
  late,           \* history: monitors whose lease an overdue worker cleared
  crashes

vars == <<incident, now, schedule, run, event, raisedBy, timeline, process,
          late, crashes>>
incidentTables == <<incident, raisedBy, timeline>>

Processes == Workers \cup Checkers
Times == 1 .. MaxTime
Slots == 1 .. (MaxTime + Interval + RetryTime)
Event == [monitor : Monitors, at : Times]

ASSUME AsOfTimesType == AsOfTimes \subseteq Times
ASSUME NoneType == None \notin Monitors \cup Event

\* until: lease_expires_at, 0 for NULL.
ScheduleRow == [saved : BOOLEAN, next : Slots, until : 0 .. (MaxTime + LeaseTime)]
RunRow == [status : {"absent", "running", "evaluated", "failed"},
           finished : Times \cup {0}, triggered : BOOLEAN]
AbsentRun == [status |-> "absent", finished |-> 0, triggered |-> FALSE]

\* at: when the pass began, or as_of.  slot: scheduled_for.
ProcessRow == [step : {"idle", "claim", "evaluate", "lookup", "insert", "complete"},
               at : Times, monitor : Monitors \cup {None}, slot : Slots,
               triggered : BOOLEAN]
IdleProcess == [step |-> "idle", at |-> 1, monitor |-> None, slot |-> 1,
                triggered |-> FALSE]

Init ==
  /\ IncidentsInit
  /\ now = 1
  /\ schedule = [m \in Monitors |-> [saved |-> FALSE, next |-> 1, until |-> 0]]
  /\ run = [m \in Monitors |-> [s \in Slots |-> AbsentRun]]
  /\ event = {}
  /\ raisedBy = [i \in Incidents |-> None]
  /\ timeline = [i \in Incidents |-> {}]
  /\ process = [p \in Processes |-> IdleProcess]
  /\ late = {}
  /\ crashes = 0

Goto(p, step) == process' = [process EXCEPT ![p].step = step]
Stop(p) == process' = [process EXCEPT ![p] = IdleProcess]
EventOf(p) == [monitor |-> process[p].monitor, at |-> process[p].at]

\* The process holds a claim on m it has not given back.
Evaluating(p, m) == /\ process[p].monitor = m
                    /\ process[p].step \in {"evaluate", "lookup", "insert", "complete"}
Overdue(p) == now >= process[p].at + LeaseTime

-----------------------------------------------------------------------------
Tick ==
  /\ now < MaxTime
  /\ now' = now + 1
  /\ UNCHANGED <<incidentTables, schedule, run, event, process, late, crashes>>

\* MonitorRepository.save
SaveMonitor(m) ==
  /\ ~schedule[m].saved
  /\ schedule' = [schedule EXCEPT ![m].saved = TRUE, ![m].next = now]
  /\ UNCHANGED <<incidentTables, now, run, event, process, late, crashes>>

\* A pass reads the clock; the demo jobs that come first take their time.
StartPass(w) ==
  /\ process[w].step = "idle"
  /\ process' = [process EXCEPT ![w].step = "claim", ![w].at = now]
  /\ UNCHANGED <<incidentTables, now, schedule, run, event, late, crashes>>

\* Mutant of Claimable: a lease must have been given back.
ClaimableUnleased(m, at) ==
  schedule[m].saved /\ schedule[m].next <= at /\ schedule[m].until = 0

\* Mutant of Claimable: leases are not looked at.
ClaimableAnyway(m, at) == schedule[m].saved /\ schedule[m].next <= at

Claimable(m, at) ==
  /\ schedule[m].saved
  /\ schedule[m].next <= at
  /\ schedule[m].until <= at

\* claim_due: takes the lease and opens the row of this slot, again if need be.
ClaimDue(w, m) ==
  LET at == process[w].at  slot == schedule[m].next IN
  /\ process[w].step = "claim"
  /\ Claimable(m, at)
  /\ schedule' = [schedule EXCEPT ![m].until = at + LeaseTime]
  /\ run' = [run EXCEPT ![m][slot].status = "running", ![m][slot].finished = 0]
  /\ process' = [process EXCEPT ![w] = [@ EXCEPT !.step = "evaluate",
                                                 !.monitor = m, !.slot = slot]]
  /\ UNCHANGED <<incidentTables, now, event, late, crashes>>

NothingDue(w) ==
  /\ process[w].step = "claim"
  /\ \A m \in Monitors : ~Claimable(m, process[w].at)
  /\ Stop(w)
  /\ UNCHANGED <<incidentTables, now, schedule, run, event, late, crashes>>

\* POST /detection/monitors/{id}/performance, as_of now or another time.
CheckRequested(c, m) ==
  /\ process[c].step = "idle"
  /\ now \in CheckTimes
  /\ schedule[m].saved
  /\ \E at \in AsOfTimes :
       process' = [process EXCEPT ![c] = [@ EXCEPT !.step = "evaluate",
                                                   !.monitor = m, !.at = at]]
  /\ UNCHANGED <<incidentTables, now, schedule, run, event, late, crashes>>

\* The engine returns no event.
NoSignal(p) ==
  /\ process[p].step = "evaluate"
  /\ Goto(p, "complete")
  /\ UNCHANGED <<incidentTables, now, schedule, run, event, late, crashes>>

\* Mutant of AfterEvent: the evaluation is reported before it is answered.
ReportFirst == "complete"

\* Where a process goes once its event is recorded.
AfterEvent == "lookup"

\* record_event: one row per monitor and occurred_at, updated when it is there.
Signal(p) ==
  /\ process[p].step = "evaluate"
  /\ event' = event \cup {EventOf(p)}
  /\ process' = [process EXCEPT ![p].step = AfterEvent, ![p].triggered = TRUE]
  /\ UNCHANGED <<incidentTables, now, schedule, run, late, crashes>>

\* create, first statement: an incident this event opened is returned.
LookUp(p) ==
  /\ process[p].step = "lookup"
  /\ IF \E i \in Incidents : raisedBy[i] = EventOf(p)
     THEN Goto(p, "complete") ELSE Goto(p, "insert")
  /\ UNCHANGED <<incidentTables, now, schedule, run, event, late, crashes>>

\* incidents_monitor_event_unique_idx
EventTaken(e) == \E i \in Incidents : raisedBy[i] = e

\* create, second statement: a new row, with its 'created' event.
Insert(p, i) ==
  /\ process[p].step = "insert"
  /\ MonitorOf[i] = process[p].monitor
  /\ ~EventTaken(EventOf(p))
  /\ CreateIncident(i)
  /\ raisedBy' = [raisedBy EXCEPT ![i] = EventOf(p)]
  /\ timeline' = [timeline EXCEPT ![i] = @ \cup {EventOf(p)}]
  /\ Goto(p, "complete")
  /\ UNCHANGED <<now, schedule, run, event, late, crashes>>

\* ON CONFLICT (monitor_id): the active incident gets a 'signal_repeated' event.
Repeat(p, i) ==
  /\ process[p].step = "insert"
  /\ MonitorOf[i] = process[p].monitor /\ IsActive(i)
  /\ timeline' = [timeline EXCEPT ![i] = @ \cup {EventOf(p)}]
  /\ Goto(p, "complete")
  /\ UNCHANGED <<incident, raisedBy, now, schedule, run, event, late, crashes>>

\* The columns both ends of an evaluation set, whoever holds the lease.
Resume(m, at) == schedule' = [schedule EXCEPT ![m].next = at, ![m].until = 0]

NoteLate(w) ==
  late' = IF Overdue(w) THEN late \cup {process[w].monitor} ELSE late

\* complete_evaluation; a request has nothing to complete.
Complete(p) ==
  LET at == process[p].at  m == process[p].monitor IN
  /\ process[p].step = "complete"
  /\ IF p \in Workers
     THEN /\ Resume(m, at + Interval)
          /\ run' = [run EXCEPT ![m][process[p].slot] =
                       [status |-> "evaluated", finished |-> at,
                        triggered |-> process[p].triggered]]
          /\ NoteLate(p)
     ELSE UNCHANGED <<schedule, run, late>>
  /\ Stop(p)
  /\ UNCHANGED <<incidentTables, now, event, crashes>>

\* fail_evaluation: a call of the evaluation raised, or complete_evaluation
\* did: no version was resolved, the event has an incident already.
Fail(p) ==
  LET at == process[p].at  m == process[p].monitor IN
  /\ process[p].step \in {"evaluate", "lookup", "insert", "complete"}
  /\ IF p \in Workers
     THEN /\ Resume(m, at + RetryTime)
          /\ run' = [run EXCEPT ![m][process[p].slot].status = "failed",
                                ![m][process[p].slot].finished = at]
          /\ NoteLate(p)
     ELSE UNCHANGED <<schedule, run, late>>
  /\ Stop(p)
  /\ UNCHANGED <<incidentTables, now, event, crashes>>

\* A worker dies, and another process takes its place with the next pass.  Not
\* so late that its lease would outlast the clock.
Crash(w) ==
  /\ w \in Mortal
  /\ process[w].step # "idle"
  /\ crashes < MaxCrashes
  /\ now + LeaseTime <= MaxTime
  /\ crashes' = crashes + 1
  /\ Stop(w)
  /\ UNCHANGED <<incidentTables, now, schedule, run, event, late>>

\* PATCH /incidents/{id}
EngineerMoves(i, to) ==
  /\ incident[i].status # "absent"
  /\ to \in Moves \cap Allowed[incident[i].status]
  /\ TransitionRow(i, to)
  /\ UNCHANGED <<raisedBy, timeline, now, schedule, run, event, process, late, crashes>>

-----------------------------------------------------------------------------
ProcessStep(p) ==
  \/ NoSignal(p) \/ Signal(p) \/ LookUp(p) \/ Complete(p) \/ Fail(p)
  \/ \E i \in Incidents : Insert(p, i) \/ Repeat(p, i)

WorkerStep(w) ==
  \/ NothingDue(w) \/ ProcessStep(w)
  \/ \E m \in Monitors : ClaimDue(w, m)

Next ==
  \/ Tick
  \/ \E m \in Monitors : SaveMonitor(m)
  \/ \E w \in Workers : StartPass(w) \/ WorkerStep(w) \/ Crash(w)
  \/ \E c \in Checkers : \/ ProcessStep(c)
                         \/ \E m \in Monitors : CheckRequested(c, m)
  \/ \E i \in Incidents, to \in Moves : EngineerMoves(i, to)

Spec == Init /\ [][Next]_vars

\* A worker that runs keeps polling and ends what it began; time passes.
Fairness ==
  /\ WF_vars(Tick)
  /\ \A w \in Workers : WF_vars(StartPass(w)) /\ WF_vars(WorkerStep(w))

FairSpec == Spec /\ Fairness

-----------------------------------------------------------------------------
TypeOK ==
  /\ incident \in [Incidents -> IncidentRow]
  /\ now \in Times
  /\ schedule \in [Monitors -> ScheduleRow]
  /\ run \in [Monitors -> [Slots -> RunRow]]
  /\ event \subseteq Event
  /\ raisedBy \in [Incidents -> Event \cup {None}]
  /\ timeline \in [Incidents -> SUBSET Event]
  /\ process \in [Processes -> ProcessRow]
  /\ late \subseteq Monitors
  /\ crashes \in 0 .. MaxCrashes

(***************************************************************************)
(* An evaluation recorded as triggered was answered: the event it recorded *)
(* is on the timeline of an incident of that monitor, opened or repeated,  *)
(* whatever other workers, requests and engineers did in between.          *)
(***************************************************************************)
Answered(e) == \E i \in Incidents : MonitorOf[i] = e.monitor /\ e \in timeline[i]

TriggeredIsAnswered ==
  \A m \in Monitors, s \in Slots :
    (run[m][s].status = "evaluated" /\ run[m][s].triggered) =>
      Answered([monitor |-> m, at |-> run[m][s].finished])

(***************************************************************************)
(* Two workers evaluate one monitor only when one of them has outlived its *)
(* lease, or when one that had outlived it already gave back a lease that  *)
(* was no longer its own (complete_evaluation, fail_evaluation).           *)
(***************************************************************************)
EvaluatedAlone ==
  \A w, v \in Workers, m \in Monitors :
    w # v /\ Evaluating(w, m) /\ Evaluating(v, m) =>
      Overdue(w) \/ Overdue(v) \/ m \in late

(***************************************************************************)
(* No monitor stays due: whoever dies with its lease, and whoever moves    *)
(* its schedule back, another pass claims it again.                        *)
(***************************************************************************)
Due(m) == schedule[m].saved /\ schedule[m].next <= now

NeverStarved == \A m \in Monitors : []<>~Due(m)

=============================================================================
