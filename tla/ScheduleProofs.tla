----------------------------- MODULE ScheduleProofs -----------------------------
(***************************************************************************)
(* What scheduled detection promises, for any number of monitors, workers, *)
(* requests and crashes, any lease, interval and retry time, and however   *)
(* slow a worker is.                                                       *)
(***************************************************************************)
EXTENDS MonitorSchedule, IncidentsProofs, TLAPS

USE DEF incidentTables

Working == {"evaluate", "lookup", "insert", "complete"}

LEMMA DurationsOK ==
  /\ LeaseTime \in Nat /\ Interval \in Nat /\ RetryTime \in Nat /\ MaxTime \in Nat
  /\ LeaseTime > 0 /\ MaxTime > 0 /\ MaxCrashes \in Nat /\ MaxEpoch \in Nat
  /\ 1 \in Times /\ Times \subseteq Nat
BY DurationsType, CrashesType, MaxEpochType DEF Times

LEMMA SlotsOK ==
  /\ 1 \in Slots
  /\ \A at \in Times : /\ at \in Slots /\ at + Interval \in Slots /\ at + RetryTime \in Slots
                       /\ at + LeaseTime \in 0 .. (MaxTime + LeaseTime)
  /\ 0 \in 0 .. (MaxTime + LeaseTime)
BY DurationsOK DEF Slots, Times

-----------------------------------------------------------------------------
(* Types                                                                   *)

\* Whoever evaluates has a monitor, and a worker a time that has come.
Shape ==
  /\ \A p \in Processes : process[p].step \in Working => process[p].monitor # None
  /\ \A w \in Workers : process[w].at <= now

LEMMA IncidentTyped ==
  ASSUME incident \in [Incidents -> IncidentRow], NEW i \in Incidents,
         CreateIncident(i) \/ \E to \in IncidentStatus : TransitionRow(i, to)
  PROVE  incident' \in [Incidents -> IncidentRow]
<1>1. CASE CreateIncident(i)
  <2>1. [AbsentIncident EXCEPT !.status = "open", !.epoch = 1] \in IncidentRow
    BY DEF AbsentIncident, IncidentRow, NoRecovery, IncidentStatus, ActiveStatus, InvestigationStatus, Lease
  <2>2. QED
    BY <1>1, <2>1 DEF CreateIncident, SetIncident
<1>2. ASSUME NEW to \in IncidentStatus, TransitionRow(i, to)
      PROVE  incident' \in [Incidents -> IncidentRow]
  <2> DEFINE epoch == IF to \in ActiveStatus /\ ~IsActive(i) THEN NextEpoch(i) ELSE incident[i].epoch
  <2>1. epoch \in Nat
    BY DurationsOK DEF NextEpoch, IncidentRow
  <2>2. incident' = [incident EXCEPT ![i] = [incident[i] EXCEPT !.status = to, !.epoch = epoch]]
    BY <1>2 DEF TransitionRow, SetIncident
  <2> HIDE DEF epoch
  <2>3. [incident[i] EXCEPT !.status = to, !.epoch = epoch] \in IncidentRow
    BY <2>1 DEF IncidentRow
  <2>4. QED
    BY <2>2, <2>3
<1>3. QED
  BY <1>1, <1>2

LEMMA ProcessTyped ==
  /\ IdleProcess \in ProcessRow
  /\ \A row \in ProcessRow,
        step \in {"idle", "claim", "evaluate", "lookup", "insert", "complete"} :
       [row EXCEPT !.step = step] \in ProcessRow
<1>1. 1 \in Times /\ 1 \in Slots
  BY DurationsOK, SlotsOK
<1>2. IdleProcess \in ProcessRow
  BY <1>1 DEF ProcessRow, IdleProcess
<1>3. \A row \in ProcessRow,
         step \in {"idle", "claim", "evaluate", "lookup", "insert", "complete"} :
        [row EXCEPT !.step = step] \in ProcessRow
  BY DEF ProcessRow
<1>4. QED
  BY <1>2, <1>3

LEMMA TypeInit == Init => TypeOK /\ Shape
<1> SUFFICES ASSUME Init PROVE TypeOK /\ Shape
  OBVIOUS
<1>1. AbsentIncident \in IncidentRow
  BY DEF AbsentIncident, IncidentRow, NoRecovery, IncidentStatus, ActiveStatus, InvestigationStatus, Lease
<1>2. 1 \in Slots /\ IdleProcess \in ProcessRow /\ AbsentRun \in RunRow
  BY DurationsOK DEF Slots, IdleProcess, ProcessRow, AbsentRun, RunRow
<1>3. [saved |-> FALSE, next |-> 1, until |-> 0] \in ScheduleRow
  BY <1>2, DurationsOK DEF ScheduleRow
<1>4. TypeOK
  BY <1>1, <1>2, <1>3, DurationsOK DEF Init, TypeOK, IncidentsInit
<1>5. Shape
  BY DurationsOK DEF Init, Shape, IdleProcess, Working, Processes
<1>6. QED
  BY <1>4, <1>5

LEMMA EndTyped ==
  ASSUME TypeOK, Shape, NEW p \in Processes, Complete(p) \/ Fail(p)
  PROVE  TypeOK'
<1> DEFINE m == process[p].monitor
           at == process[p].at
           slot == process[p].slot
<1>1. m \in Monitors /\ at \in Times /\ slot \in Slots /\ process[p] \in ProcessRow
      /\ process[p].triggered \in BOOLEAN
  BY DEF TypeOK, Shape, ProcessRow, Working, Complete, Fail
<1>2. schedule' \in [Monitors -> ScheduleRow]
  <2>1. \A next \in {at + Interval, at + RetryTime} :
          [schedule[m] EXCEPT !.next = next, !.until = 0] \in ScheduleRow
    <3>1. schedule[m] \in ScheduleRow /\ at + Interval \in Slots /\ at + RetryTime \in Slots
      BY <1>1, SlotsOK DEF TypeOK
    <3>2. QED
      BY <3>1, SlotsOK DEF ScheduleRow
  <2>2. \/ schedule' = schedule
        \/ \E next \in {at + Interval, at + RetryTime} :
             schedule' = [schedule EXCEPT ![m] = [schedule[m] EXCEPT !.next = next, !.until = 0]]
    BY <1>1 DEF Complete, Fail, Resume, TypeOK
  <2>3. QED
    BY <1>1, <2>1, <2>2 DEF TypeOK
<1>3. run' \in [Monitors -> [Slots -> RunRow]]
  <2>0. run[m] \in [Slots -> RunRow] /\ run[m][slot] \in RunRow
    BY <1>1 DEF TypeOK
  <2> DEFINE done == [status |-> "evaluated", finished |-> at, triggered |-> process[p].triggered]
             failed == [run[m][slot] EXCEPT !.status = "failed", !.finished = at]
  <2>1. done \in RunRow /\ failed \in RunRow
    BY <1>1, <2>0 DEF RunRow
  <2>2. \/ run' = run
        \/ \E row \in {done, failed} : run' = [run EXCEPT ![m] = [run[m] EXCEPT ![slot] = row]]
    BY <1>1, <2>0 DEF Complete, Fail, TypeOK
  <2> HIDE DEF done, failed
  <2>3. QED
    <3>1. ASSUME NEW row \in RunRow PROVE [run[m] EXCEPT ![slot] = row] \in [Slots -> RunRow]
      BY <1>1, <2>0
    <3>2. run \in [Monitors -> [Slots -> RunRow]]
      BY DEF TypeOK
    <3>3. QED
      BY <1>1, <2>1, <2>2, <3>1, <3>2
<1>4. late' \subseteq Monitors
  BY <1>1 DEF Complete, Fail, NoteLate, TypeOK
<1>5. process' \in [Processes -> ProcessRow]
  <2>1. IdleProcess \in ProcessRow
    BY <1>1, ProcessTyped
  <2>2. QED
    BY <2>1 DEF Complete, Fail, Stop, TypeOK
<1>6. UNCHANGED <<incident, raisedBy, timeline, now, event, crashes>>
  BY DEF Complete, Fail
<1>7. QED
  BY <1>2, <1>3, <1>4, <1>5, <1>6 DEF TypeOK

LEMMA TypeStep ==
  ASSUME TypeOK, Shape, [Next]_vars
  PROVE  TypeOK'
<1>0. /\ process \in [Processes -> ProcessRow] /\ IdleProcess \in ProcessRow
      /\ now \in Times
      /\ \A p \in Processes, step \in {"idle", "claim", "evaluate", "lookup", "insert", "complete"} :
           [process[p] EXCEPT !.step = step] \in ProcessRow
  BY ProcessTyped, DurationsOK, SlotsOK DEF TypeOK
<1>e. ASSUME NEW p \in Processes, process[p].step \in Working
      PROVE  process[p].monitor \in Monitors /\ EventOf(p) \in Event
  BY <1>0, <1>e DEF Shape, ProcessRow, EventOf, Event
<1>1. CASE Tick
  BY <1>1, DurationsOK DEF Tick, TypeOK, Times
<1>2. ASSUME NEW m \in Monitors, SaveMonitor(m) PROVE TypeOK'
  <2>1. [schedule[m] EXCEPT !.saved = TRUE, !.next = now] \in ScheduleRow
    <3>1. schedule[m] \in ScheduleRow /\ now \in Slots
      BY <1>0, SlotsOK DEF TypeOK
    <3>2. QED
      BY <3>1 DEF ScheduleRow
  <2>2. schedule' = [schedule EXCEPT ![m] = [schedule[m] EXCEPT !.saved = TRUE, !.next = now]]
    BY <1>2 DEF SaveMonitor, TypeOK
  <2>3. QED
    BY <1>2, <2>1, <2>2 DEF SaveMonitor, TypeOK
<1>3. ASSUME NEW w \in Workers, StartPass(w) PROVE TypeOK'
  <2>0. w \in Processes /\ process[w] \in ProcessRow
    BY <1>0 DEF Processes
  <2>1. [process[w] EXCEPT !.step = "claim", !.at = now] \in ProcessRow
    BY <1>0, <2>0 DEF ProcessRow
  <2>2. process' = [process EXCEPT ![w] = [process[w] EXCEPT !.step = "claim", !.at = now]]
    BY <1>3, <1>0, <2>0 DEF StartPass
  <2>3. QED
    BY <1>0, <1>3, <2>0, <2>1, <2>2 DEF StartPass, TypeOK
<1>4. ASSUME NEW w \in Workers, NothingDue(w) \/ Crash(w) PROVE TypeOK'
  <2>1. process' \in [Processes -> ProcessRow]
    BY <1>0, <1>4 DEF NothingDue, Crash, Stop
  <2>2. crashes' \in 0 .. MaxCrashes
    BY <1>4, DurationsOK DEF NothingDue, Crash, TypeOK
  <2>3. QED
    BY <1>4, <2>1, <2>2 DEF NothingDue, Crash, TypeOK
<1>5. ASSUME NEW w \in Workers, NEW m \in Monitors, ClaimDue(w, m) PROVE TypeOK'
  <2> DEFINE at == process[w].at
             slot == schedule[m].next
             row == [schedule[m] EXCEPT !.until = at + LeaseTime]
             opened == [run[m][slot] EXCEPT !.status = "running", !.finished = 0]
             next == [process[w] EXCEPT !.step = "evaluate", !.monitor = m, !.slot = slot]
  <2>0. w \in Processes /\ process[w] \in ProcessRow /\ schedule[m] \in ScheduleRow
        /\ run[m] \in [Slots -> RunRow]
    BY <1>0 DEF TypeOK, Processes
  <2>1. at \in Times /\ slot \in Slots /\ run[m][slot] \in RunRow
    BY <2>0 DEF ScheduleRow, ProcessRow
  <2>2. row \in ScheduleRow /\ opened \in RunRow /\ next \in ProcessRow
    <3>1. row \in ScheduleRow
      BY <2>0, <2>1, SlotsOK DEF ScheduleRow
    <3>2. opened \in RunRow
      BY <2>1 DEF RunRow
    <3>3. next \in ProcessRow
      BY <2>0, <2>1 DEF ProcessRow
    <3>4. QED
      BY <3>1, <3>2, <3>3
  <2>3. /\ schedule' = [schedule EXCEPT ![m] = row]
        /\ run' = [run EXCEPT ![m] = [run[m] EXCEPT ![slot] = opened]]
        /\ process' = [process EXCEPT ![w] = next]
        /\ UNCHANGED <<incidentTables, now, event, late, crashes>>
    BY <1>0, <1>5, <2>0, <2>1 DEF ClaimDue, TypeOK
  <2> HIDE DEF at, slot, row, opened, next
  <2>4. QED
    BY <1>0, <2>0, <2>1, <2>2, <2>3 DEF TypeOK
<1>6. ASSUME NEW c \in Checkers, NEW m \in Monitors, CheckRequested(c, m) PROVE TypeOK'
  <2>a. PICK at \in AsOfTimes :
          process' = [process EXCEPT ![c] = [@ EXCEPT !.step = "evaluate",
                                                      !.monitor = m, !.at = at]]
    BY <1>6 DEF CheckRequested
  <2> DEFINE next == [process[c] EXCEPT !.step = "evaluate", !.monitor = m, !.at = at]
  <2>0. c \in Processes /\ process[c] \in ProcessRow
    BY <1>0 DEF Processes
  <2>1. next \in ProcessRow
    BY <1>0, <2>0, AsOfTimesType DEF ProcessRow
  <2>2. process' = [process EXCEPT ![c] = next]
    BY <1>0, <2>a, <2>0
  <2> HIDE DEF next
  <2>3. QED
    BY <1>0, <1>6, <2>0, <2>1, <2>2 DEF CheckRequested, TypeOK
<1>7. ASSUME NEW p \in Processes, NoSignal(p) \/ LookUp(p) PROVE TypeOK'
  BY <1>0, <1>7 DEF NoSignal, LookUp, Goto, TypeOK
<1>8. ASSUME NEW p \in Processes, Signal(p) PROVE TypeOK'
  <2>1. [process[p] EXCEPT !.step = "lookup", !.triggered = TRUE] \in ProcessRow
    <3>1. process[p] \in ProcessRow
      BY <1>0
    <3>2. QED
      BY <3>1 DEF ProcessRow
  <2>2. process' = [process EXCEPT ![p] = [process[p] EXCEPT !.step = "lookup", !.triggered = TRUE]]
    BY <1>0, <1>8 DEF Signal, AfterEvent
  <2>3. event' \subseteq Event
    BY <1>8, <1>e DEF Signal, TypeOK, Working
  <2>4. QED
    BY <1>0, <1>8, <2>1, <2>2, <2>3 DEF Signal, TypeOK
<1>9. ASSUME NEW p \in Processes, NEW i \in Incidents, Insert(p, i) \/ Repeat(p, i) PROVE TypeOK'
  <2>1. EventOf(p) \in Event
    BY <1>9, <1>e DEF Insert, Repeat, Working
  <2>2. incident' \in [Incidents -> IncidentRow]
    BY <1>9, IncidentTyped DEF Insert, Repeat, TypeOK
  <2>3. raisedBy' \in [Incidents -> Event \cup {None}] /\ timeline' \in [Incidents -> SUBSET Event]
    BY <1>9, <2>1 DEF Insert, Repeat, TypeOK
  <2>4. process' \in [Processes -> ProcessRow]
    BY <1>0, <1>9 DEF Insert, Repeat, Goto
  <2>5. QED
    BY <1>9, <2>2, <2>3, <2>4 DEF Insert, Repeat, TypeOK
<1>10. ASSUME NEW i \in Incidents, NEW to \in Moves, EngineerMoves(i, to) PROVE TypeOK'
  <2>1. incident' \in [Incidents -> IncidentRow]
    BY <1>10, IncidentTyped, MovesType DEF EngineerMoves, TypeOK
  <2>2. QED
    BY <1>10, <2>1 DEF EngineerMoves, TypeOK
<1>11. CASE UNCHANGED vars
  BY <1>11 DEF vars, TypeOK
<1>12. QED
  BY EndTyped, <1>1, <1>2, <1>3, <1>4, <1>5, <1>6, <1>7, <1>8, <1>9, <1>10, <1>11
  DEF Next, WorkerStep, ProcessStep, Processes

LEMMA ShapeStep ==
  ASSUME TypeOK, Shape, [Next]_vars
  PROVE  Shape'
<1>0. /\ process \in [Processes -> ProcessRow] /\ now \in Nat /\ now >= 1
      /\ \A p \in Processes : process[p].at \in Nat
      /\ \A w \in Workers : w \in Processes /\ w \notin Checkers
  BY DurationsOK, ProcessesType DEF TypeOK, ProcessRow, Times, Processes
<1>1. CASE Tick
  BY <1>0, <1>1 DEF Tick, Shape
<1>2. ASSUME NEW w \in Workers, StartPass(w) PROVE Shape'
  BY <1>0, <1>2 DEF StartPass, Shape, Working
<1>3. ASSUME NEW w \in Workers, NEW m \in Monitors, ClaimDue(w, m) PROVE Shape'
  BY <1>0, <1>3, NoneType DEF ClaimDue, Shape, Working
<1>4. ASSUME NEW c \in Checkers, NEW m \in Monitors, CheckRequested(c, m) PROVE Shape'
  BY <1>0, <1>4, NoneType DEF CheckRequested, Shape, Working
<1>5. ASSUME NEW p \in Processes,
             \/ NoSignal(p) \/ Signal(p) \/ LookUp(p)
             \/ \E i \in Incidents : Insert(p, i) \/ Repeat(p, i)
      PROVE  Shape'
  <2>1. process[p].step \in Working /\ now' = now
    BY <1>5 DEF NoSignal, Signal, LookUp, Insert, Repeat, Working
  <2>2. \A q \in Processes : process'[q].monitor = process[q].monitor /\ process'[q].at = process[q].at
                             /\ (q # p => process'[q] = process[q])
    BY <1>0, <1>5 DEF NoSignal, Signal, LookUp, Insert, Repeat, Goto, ProcessRow
  <2>3. QED
    BY <1>0, <2>1, <2>2 DEF Shape
<1>6. ASSUME NEW p \in Processes, Stop(p), now' = now PROVE Shape'
  BY <1>0, <1>6 DEF Stop, IdleProcess, Shape, Working
<1>7. CASE UNCHANGED <<process, now>>
  BY <1>7 DEF Shape
<1>8. QED
  BY <1>1, <1>2, <1>3, <1>4, <1>5, <1>6, <1>7
  DEF Next, SaveMonitor, WorkerStep, ProcessStep, NothingDue, Complete, Fail, Crash, EngineerMoves, Processes, vars

-----------------------------------------------------------------------------
(* What an evaluation leaves behind                                        *)

(***************************************************************************)
(* A process that is done with its event, and an incident that an event    *)
(* opened, have it on a timeline.                                          *)
(***************************************************************************)
AnswerInv ==
  /\ \A i \in Incidents : raisedBy[i] # None =>
       MonitorOf[i] = raisedBy[i].monitor /\ raisedBy[i] \in timeline[i]
  /\ \A p \in Processes : /\ process[p].step \in {"idle", "claim", "evaluate"} => ~process[p].triggered
                          /\ process[p].step = "complete" /\ process[p].triggered => Answered(EventOf(p))
  /\ TriggeredIsAnswered

\* A step that only grows timelines keeps what was answered.
Grows == \A i \in Incidents : timeline[i] \subseteq timeline'[i]

LEMMA AnswerInit == Init => AnswerInv
BY DEF Init, AnswerInv, IdleProcess, TriggeredIsAnswered, AbsentRun

LEMMA AnswerStep ==
  ASSUME TypeOK, Shape, AnswerInv, [Next]_vars
  PROVE  AnswerInv'
<1>0. /\ process \in [Processes -> ProcessRow] /\ run \in [Monitors -> [Slots -> RunRow]]
      /\ timeline \in [Incidents -> SUBSET Event] /\ raisedBy \in [Incidents -> Event \cup {None}]
  BY DEF TypeOK
<1>g. Grows => \A e : Answered(e) => Answered(e)'
  BY DEF Grows, Answered
<1>1. CASE UNCHANGED <<raisedBy, timeline, process, run>>
  BY <1>1 DEF AnswerInv, TriggeredIsAnswered, Answered, EventOf
<1>2. ASSUME NEW p \in Processes, UNCHANGED <<raisedBy, timeline, run>>,
             \A q \in Processes \ {p} : process'[q] = process[q],
             \/ process'[p].step \in {"idle", "claim", "evaluate"} /\ ~process'[p].triggered
             \/ process'[p].step \in {"lookup", "insert"}
             \/ process'[p].step = "complete" /\ (process'[p].triggered => Answered(EventOf(p)'))
      PROVE  AnswerInv'
  BY <1>2 DEF AnswerInv, TriggeredIsAnswered, Answered, EventOf
<1>3. ASSUME NEW p \in Processes, NoSignal(p) \/ Signal(p) \/ LookUp(p) PROVE AnswerInv'
  <2>1. CASE NoSignal(p)
    BY <1>0, <1>2, <2>1 DEF NoSignal, Goto, AnswerInv, ProcessRow
  <2>2. CASE Signal(p)
    BY <1>0, <1>2, <2>2 DEF Signal, AfterEvent, ProcessRow
  <2>3. CASE LookUp(p)
    <3>1. process'[p].step = "complete" \/ process'[p].step = "insert"
      BY <1>0, <2>3 DEF LookUp, Goto, ProcessRow
    <3>2. EventOf(p)' = EventOf(p)
      BY <1>0, <2>3 DEF LookUp, Goto, EventOf, ProcessRow
    <3>3. process'[p].step = "complete" => Answered(EventOf(p))
      <4>1. ASSUME process'[p].step = "complete" PROVE \E i \in Incidents : raisedBy[i] = EventOf(p)
        BY <1>0, <2>3, <4>1 DEF LookUp, Goto, ProcessRow
      <4>2. EventOf(p) \in Event
        BY <1>0, <2>3 DEF LookUp, EventOf, Event, ProcessRow, Shape, Working
      <4>3. QED
        BY <4>1, <4>2, NoneType DEF AnswerInv, Answered
    <3>4. QED
      BY <1>0, <1>2, <2>3, <3>1, <3>2, <3>3 DEF LookUp, Goto
  <2>4. QED
    BY <1>3, <2>1, <2>2, <2>3
<1>4. ASSUME NEW p \in Processes, NEW i \in Incidents, Insert(p, i) \/ Repeat(p, i) PROVE AnswerInv'
  <2>1. Grows /\ EventOf(p) \in timeline'[i] /\ MonitorOf[i] = EventOf(p).monitor /\ run' = run
    BY <1>0, <1>4 DEF Insert, Repeat, Grows, EventOf
  <2>2. /\ \A q \in Processes \ {p} : process'[q] = process[q]
        /\ process'[p].step = "complete" /\ EventOf(p)' = EventOf(p)
    BY <1>0, <1>4 DEF Insert, Repeat, Goto, EventOf, ProcessRow
  <2>3. Answered(EventOf(p))'
    BY <2>1, <2>2 DEF Answered
  <2>4. \A j \in Incidents : raisedBy'[j] = raisedBy[j] \/ (j = i /\ raisedBy'[j] = EventOf(p))
    BY <1>0, <1>4 DEF Insert, Repeat
  <2>5. \A j \in Incidents : raisedBy'[j] # None =>
          MonitorOf[j] = raisedBy'[j].monitor /\ raisedBy'[j] \in timeline'[j]
    BY <2>1, <2>4 DEF AnswerInv, Grows
  <2>6. \A q \in Processes :
          /\ process'[q].step \in {"idle", "claim", "evaluate"} => ~process'[q].triggered
          /\ process'[q].step = "complete" /\ process'[q].triggered => Answered(EventOf(q))'
    BY <1>g, <2>1, <2>2, <2>3 DEF AnswerInv, EventOf
  <2>7. TriggeredIsAnswered'
    BY <1>g, <2>1 DEF AnswerInv, TriggeredIsAnswered
  <2>8. QED
    BY <2>5, <2>6, <2>7 DEF AnswerInv
<1>5. ASSUME NEW p \in Processes, Complete(p) \/ Fail(p) PROVE AnswerInv'
  <2>1. /\ UNCHANGED <<raisedBy, timeline>>
        /\ \A q \in Processes \ {p} : process'[q] = process[q]
        /\ process'[p] = IdleProcess
    BY <1>0, <1>5 DEF Complete, Fail, Stop
  <2>2. process[p].monitor \in Monitors /\ process[p].slot \in Slots
    BY <1>0, <1>5 DEF Complete, Fail, Shape, Working, ProcessRow
  <2>3. \A m \in Monitors, s \in Slots :
          \/ run'[m][s] = run[m][s]
          \/ run'[m][s].status = "failed"
          \/ /\ Complete(p) /\ m = process[p].monitor
             /\ run'[m][s].finished = process[p].at /\ run'[m][s].triggered = process[p].triggered
    <3> DEFINE k == process[p].monitor
               slot == process[p].slot
    <3>1. run[k] \in [Slots -> RunRow] /\ run[k][slot] \in RunRow
      BY <1>0, <2>2
    <3>2. CASE run' = run
      BY <3>2
    <3>3. CASE Complete(p) /\ run' # run
      <4>1. run' = [run EXCEPT ![k] = [run[k] EXCEPT ![slot] =
                      [status |-> "evaluated", finished |-> process[p].at,
                       triggered |-> process[p].triggered]]]
        BY <3>3 DEF Complete
      <4>2. QED
        BY <1>0, <2>2, <3>1, <3>3, <4>1
    <3>4. CASE Fail(p) /\ run' # run
      <4>1. run' = [run EXCEPT ![k] = [run[k] EXCEPT ![slot] =
                      [run[k][slot] EXCEPT !.status = "failed", !.finished = process[p].at]]]
        BY <1>0, <2>2, <3>1, <3>4 DEF Fail
      <4>2. \A m \in Monitors, s \in Slots :
              run'[m][s] = run[m][s] \/ run'[m][s] = [run[k][slot] EXCEPT !.status = "failed", !.finished = process[p].at]
        BY <1>0, <2>2, <3>1, <4>1
      <4>3. [run[k][slot] EXCEPT !.status = "failed", !.finished = process[p].at].status = "failed"
        BY <3>1 DEF RunRow
      <4>4. QED
        BY <4>2, <4>3
    <3>5. QED
      BY <1>5, <3>2, <3>3, <3>4
  <2>4. ASSUME NEW m \in Monitors, NEW s \in Slots, run'[m][s].status = "evaluated",
               run'[m][s].triggered
        PROVE  Answered([monitor |-> m, at |-> run'[m][s].finished])
    <3>1. CASE run'[m][s] = run[m][s]
      BY <2>4, <3>1 DEF AnswerInv, TriggeredIsAnswered
    <3>2. CASE run'[m][s] # run[m][s]
      <4>1. Complete(p) /\ process[p].triggered
            /\ EventOf(p) = [monitor |-> m, at |-> run'[m][s].finished]
        BY <2>3, <2>4, <3>2 DEF EventOf
      <4>2. QED
        BY <4>1 DEF AnswerInv, Complete
    <3>3. QED
      BY <3>1, <3>2
  <2>5. TriggeredIsAnswered'
    BY <2>1, <2>4 DEF TriggeredIsAnswered, Answered
  <2>6. QED
    BY <2>1, <2>5 DEF AnswerInv, Answered, EventOf, IdleProcess
<1>6. ASSUME NEW w \in Workers, \/ StartPass(w) \/ NothingDue(w) \/ Crash(w)
                                \/ \E m \in Monitors : ClaimDue(w, m)
      PROVE  AnswerInv'
  <2>0. w \in Processes
    BY DEF Processes
  <2>1. CASE StartPass(w)
    BY <1>0, <1>2, <2>0, <2>1 DEF StartPass, AnswerInv, ProcessRow
  <2>2. CASE NothingDue(w) \/ Crash(w)
    BY <1>0, <1>2, <2>0, <2>2 DEF NothingDue, Crash, Stop, IdleProcess
  <2>3. ASSUME NEW m \in Monitors, ClaimDue(w, m) PROVE AnswerInv'
    <3>1. \A q \in Processes : /\ process'[q].step \in {"idle", "claim", "evaluate"} => ~process'[q].triggered
                               /\ q # w => process'[q] = process[q]
          /\ process'[w].step = "evaluate"
      BY <1>0, <2>0, <2>3 DEF ClaimDue, AnswerInv, ProcessRow
    <3>2. \A k \in Monitors, s \in Slots : run'[k][s] = run[k][s] \/ run'[k][s].status = "running"
      BY <1>0, <2>3 DEF ClaimDue, RunRow
    <3>3. UNCHANGED <<raisedBy, timeline>>
      BY <2>3 DEF ClaimDue
    <3>4. TriggeredIsAnswered'
      BY <3>2, <3>3 DEF AnswerInv, TriggeredIsAnswered, Answered
    <3>5. QED
      BY <3>1, <3>3, <3>4 DEF AnswerInv, Answered, EventOf
  <2>4. QED
    BY <1>6, <2>1, <2>2, <2>3
<1>7. ASSUME NEW c \in Checkers, NEW m \in Monitors, CheckRequested(c, m) PROVE AnswerInv'
  <2>1. c \in Processes
    BY DEF Processes
  <2>2. QED
    BY <1>0, <1>2, <1>7, <2>1 DEF CheckRequested, AnswerInv, ProcessRow
<1>8. QED
  BY <1>1, <1>3, <1>4, <1>5, <1>6, <1>7
  DEF Next, Tick, SaveMonitor, WorkerStep, ProcessStep, EngineerMoves, Processes, vars

-----------------------------------------------------------------------------
(* Who evaluates                                                           *)

(***************************************************************************)
(* Until an overdue worker has cleared a lease, a worker that evaluates a  *)
(* monitor holds its lease, or has outlived it.                            *)
(***************************************************************************)
LeaseInv ==
  \A w \in Workers, m \in Monitors : Evaluating(w, m) /\ m \notin late =>
    Overdue(w) \/ schedule[m].until = process[w].at + LeaseTime

AloneInv == LeaseInv /\ EvaluatedAlone

LEMMA AloneInit == Init => AloneInv
BY DEF Init, AloneInv, LeaseInv, EvaluatedAlone, Evaluating, IdleProcess, Processes

LEMMA AloneStep ==
  ASSUME TypeOK, Shape, AloneInv, [Next]_vars
  PROVE  AloneInv'
<1>0. /\ process \in [Processes -> ProcessRow] /\ schedule \in [Monitors -> ScheduleRow]
      /\ now \in Nat /\ LeaseTime \in Nat /\ LeaseTime > 0
      /\ \A p \in Processes : process[p].at \in Nat
      /\ \A m \in Monitors : schedule[m].until \in Nat
      /\ Workers \subseteq Processes
  <2>1. \A m \in Monitors : schedule[m].until \in Nat
    BY DurationsOK DEF TypeOK, ScheduleRow
  <2>2. QED
    BY <2>1, DurationsOK DEF TypeOK, ProcessRow, Processes
\* Nobody new evaluates, and the leases are left as they are.
<1>r. ASSUME now' \in Nat, now' >= now, late \subseteq late',
             \A w \in Workers : process'[w].step \in Working =>
               /\ process[w].step \in Working
               /\ process'[w].monitor = process[w].monitor /\ process'[w].at = process[w].at,
             \A m \in Monitors : schedule'[m].until = schedule[m].until
      PROVE  AloneInv'
  <2>1. \A w \in Workers, m \in Monitors : Evaluating(w, m)' =>
          Evaluating(w, m) /\ (Overdue(w) => Overdue(w)') /\ process'[w].at = process[w].at
    BY <1>0, <1>r DEF Evaluating, Overdue, Working
  <2>2. QED
    BY <1>r, <2>1 DEF AloneInv, LeaseInv, EvaluatedAlone
<1>1. ASSUME NEW w \in Workers, NEW m \in Monitors, ClaimDue(w, m) PROVE AloneInv'
  <2>1. /\ schedule[m].until <= process[w].at /\ now' = now /\ late' = late
        /\ schedule'[m].until = process[w].at + LeaseTime
        /\ \A k \in Monitors : k # m => schedule'[k] = schedule[k]
        /\ process'[w].at = process[w].at /\ process'[w].monitor = m
        /\ \A v \in Workers : v # w => process'[v] = process[v]
    BY <1>0, <1>1 DEF ClaimDue, Claimable, ScheduleRow, ProcessRow
  <2>2. ASSUME NEW v \in Workers, v # w, Evaluating(v, m), m \notin late PROVE Overdue(v)
    BY <1>0, <2>1, <2>2 DEF AloneInv, LeaseInv, Overdue, Shape
  <2>3. \A v \in Workers, k \in Monitors : Evaluating(v, k)' =>
          \/ v = w /\ k = m
          \/ v # w /\ Evaluating(v, k)
    BY <2>1 DEF Evaluating
  <2>4. \A v \in Workers : Overdue(v)' <=> Overdue(v)
    BY <1>0, <2>1 DEF Overdue
  <2>5. LeaseInv'
    BY <2>1, <2>2, <2>3, <2>4 DEF AloneInv, LeaseInv
  <2>6. EvaluatedAlone'
    BY <2>1, <2>2, <2>3, <2>4 DEF AloneInv, EvaluatedAlone
  <2>7. QED
    BY <2>5, <2>6 DEF AloneInv
<1>2. ASSUME NEW p \in Processes, Complete(p) \/ Fail(p) PROVE AloneInv'
  <2>1. CASE p \notin Workers
    BY <1>0, <1>2, <1>r, <2>1 DEF Complete, Fail, Stop, IdleProcess, Working
  <2>2. CASE p \in Workers
    <3> DEFINE m == process[p].monitor
    <3>1. /\ Evaluating(p, m) /\ m \in Monitors /\ now' = now
          /\ \A k \in Monitors : k # m => schedule'[k] = schedule[k]
          /\ \A v \in Workers : v # p => process'[v] = process[v]
          /\ process'[p].step = "idle"
          /\ late \subseteq late' /\ (Overdue(p) => m \in late')
      <4>1. Evaluating(p, m) /\ m \in Monitors /\ now' = now
        BY <1>0, <1>2 DEF Complete, Fail, Evaluating, Shape, Working, ProcessRow
      <4>2. \A k \in Monitors : k # m => schedule'[k] = schedule[k]
        BY <1>0, <1>2, <2>2 DEF Complete, Fail, Resume
      <4>3. process' = [process EXCEPT ![p] = IdleProcess]
        BY <1>2 DEF Complete, Fail, Stop
      <4>4. late \subseteq late' /\ (Overdue(p) => m \in late')
        BY <1>2, <2>2 DEF Complete, Fail, NoteLate
      <4>5. QED
        BY <1>0, <4>1, <4>2, <4>3, <4>4 DEF IdleProcess
    <3> HIDE DEF m
    <3>2. \A v \in Workers, k \in Monitors : Evaluating(v, k)' =>
            v # p /\ Evaluating(v, k) /\ (Overdue(v)' <=> Overdue(v)) /\ process'[v].at = process[v].at
      BY <3>1 DEF Evaluating, Overdue
    <3>3. ASSUME NEW v \in Workers, NEW k \in Monitors, Evaluating(v, k)', k \notin late'
          PROVE  Overdue(v)' \/ schedule'[k].until = process'[v].at + LeaseTime
      <4>1. CASE k = m
        BY <2>2, <3>1, <3>2, <3>3, <4>1 DEF AloneInv, EvaluatedAlone
      <4>2. CASE k # m
        BY <3>1, <3>2, <3>3, <4>2 DEF AloneInv, LeaseInv
      <4>3. QED
        BY <4>1, <4>2
    <3>4. EvaluatedAlone'
      BY <3>1, <3>2 DEF AloneInv, EvaluatedAlone
    <3>5. QED
      BY <3>3, <3>4 DEF AloneInv, LeaseInv
  <2>3. QED
    BY <2>1, <2>2
<1>3. ASSUME NEW m \in Monitors, SaveMonitor(m) PROVE AloneInv'
  <2>1. \A k \in Monitors : schedule'[k].until = schedule[k].until
    BY <1>0, <1>3 DEF SaveMonitor, ScheduleRow
  <2>2. QED
    BY <1>0, <1>3, <1>r, <2>1 DEF SaveMonitor
<1>4. ASSUME NEW w \in Workers, StartPass(w) \/ NothingDue(w) \/ Crash(w) PROVE AloneInv'
  <2>1. \A v \in Workers : v # w => process'[v] = process[v]
    BY <1>0, <1>4 DEF StartPass, NothingDue, Crash, Stop
  <2>2. process'[w].step \in {"idle", "claim"}
    BY <1>0, <1>4 DEF StartPass, NothingDue, Crash, Stop, IdleProcess, ProcessRow
  <2>3. now' = now /\ late' = late /\ schedule' = schedule
    BY <1>4 DEF StartPass, NothingDue, Crash
  <2>4. QED
    BY <1>0, <1>r, <2>1, <2>2, <2>3 DEF Working
<1>5. ASSUME NEW c \in Checkers, NEW m \in Monitors, CheckRequested(c, m) PROVE AloneInv'
  <2>1. \A v \in Workers : process'[v] = process[v]
    BY <1>0, <1>5, ProcessesType DEF CheckRequested
  <2>2. QED
    <3>1. UNCHANGED <<now, late, schedule>>
      BY <1>5 DEF CheckRequested
    <3>2. QED
      BY <1>0, <1>r, <2>1, <3>1
<1>6. ASSUME NEW p \in Processes,
             \/ NoSignal(p) \/ Signal(p) \/ LookUp(p)
             \/ \E i \in Incidents : Insert(p, i) \/ Repeat(p, i)
      PROVE  AloneInv'
  <2>1. process[p].step \in Working /\ UNCHANGED <<now, late, schedule>>
    BY <1>6 DEF NoSignal, Signal, LookUp, Insert, Repeat, Working
  <2>2. \A q \in Processes : process'[q].monitor = process[q].monitor /\ process'[q].at = process[q].at
                             /\ (q # p => process'[q] = process[q])
    BY <1>0, <1>6 DEF NoSignal, Signal, LookUp, Insert, Repeat, Goto, ProcessRow
  <2>3. QED
    BY <1>0, <1>r, <2>1, <2>2
<1>7. CASE Tick \/ UNCHANGED vars \/ \E i \in Incidents, to \in Moves : EngineerMoves(i, to)
  BY <1>0, <1>7, <1>r DEF Tick, EngineerMoves, vars
<1>8. QED
  BY <1>1, <1>2, <1>3, <1>4, <1>5, <1>6, <1>7 DEF Next, WorkerStep, ProcessStep, Processes

-----------------------------------------------------------------------------
(* The incidents table                                                     *)

LEMMA StepIsLawful ==
  ASSUME TypeOK, Unrecovered, [Next]_vars
  PROVE  Lawful
<1>0. Table
  BY DEF TypeOK, Table
<1>1. ASSUME NEW i \in Incidents, NEW to \in Moves, EngineerMoves(i, to) PROVE Lawful
  BY <1>0, <1>1, MovesType, TransitionIsLawful DEF EngineerMoves
<1>2. ASSUME NEW p, NEW i \in Incidents, Insert(p, i) PROVE Lawful
  BY <1>0, <1>2, OpeningIsLawful DEF Insert
<1>3. CASE UNCHANGED incident
  BY <1>3, RestIsLawful
<1>4. \/ UNCHANGED incident
      \/ \E i \in Incidents : \/ \E to \in Moves : EngineerMoves(i, to)
                              \/ \E p \in Processes : Insert(p, i)
  BY DEF Next, Tick, SaveMonitor, StartPass, WorkerStep, NothingDue, ClaimDue, ProcessStep, NoSignal,
         Signal, LookUp, Repeat, Complete, Fail, Crash, CheckRequested, Processes, vars
<1>5. QED
  BY <1>1, <1>2, <1>3, <1>4

-----------------------------------------------------------------------------
(* Scheduled detection                                                     *)

ScheduleInv ==
  TypeOK /\ Shape /\ AnswerInv /\ AloneInv /\ Unrecovered /\ OneActivePerMonitor

LEMMA ScheduleAlways == Spec => []ScheduleInv
<1>1. Init => Unrecovered /\ OneActivePerMonitor
  BY TableStarts DEF Init
<1>2. Init => ScheduleInv
  BY <1>1, TypeInit, AnswerInit, AloneInit DEF ScheduleInv
<1>3. ScheduleInv /\ [Next]_vars => ScheduleInv'
  <2> SUFFICES ASSUME ScheduleInv, [Next]_vars PROVE ScheduleInv'
    OBVIOUS
  <2>1. TypeOK' /\ Shape' /\ AnswerInv' /\ AloneInv'
    BY TypeStep, ShapeStep, AnswerStep, AloneStep DEF ScheduleInv
  <2>2. Unrecovered' /\ OneActivePerMonitor'
    BY <2>1, StepIsLawful, LawfulKeeps DEF ScheduleInv, TypeOK, Table
  <2>3. QED
    BY <2>1, <2>2 DEF ScheduleInv
<1>4. QED
  BY <1>2, <1>3, PTL DEF Spec

(***************************************************************************)
(* The monitors, their runs and events, the incidents and their timelines, *)
(* and whoever evaluates keep their types.                                 *)
(***************************************************************************)
THEOREM ScheduleTypeCorrect == Spec => []TypeOK
BY ScheduleAlways, PTL DEF ScheduleInv

(***************************************************************************)
(* complete_evaluation says 'triggered' only of an evaluation whose event  *)
(* an incident of the monitor has on its timeline, whatever the other      *)
(* workers, requests and engineers did meanwhile.                          *)
(***************************************************************************)
THEOREM TriggersAreAnswered == Spec => []TriggeredIsAnswered
<1>1. ScheduleInv => TriggeredIsAnswered
  BY DEF ScheduleInv, AnswerInv
<1>2. QED
  BY <1>1, ScheduleAlways, PTL

(***************************************************************************)
(* claim_due keeps a second worker from a monitor until a lease has been   *)
(* outlived, or was given back by one that had outlived its own.           *)
(***************************************************************************)
THEOREM EvaluationIsAlone == Spec => []EvaluatedAlone
<1>1. ScheduleInv => EvaluatedAlone
  BY DEF ScheduleInv, AloneInv
<1>2. QED
  BY <1>1, ScheduleAlways, PTL

(***************************************************************************)
(* Concurrent evaluations of a monitor, and engineers who reopen, leave it *)
(* at most one active incident.                                            *)
(***************************************************************************)
THEOREM OneIncidentIsActive == Spec => []OneActivePerMonitor
BY ScheduleAlways, PTL DEF ScheduleInv

(***************************************************************************)
(* Scheduled detection keeps the contract of incidents towards the rest of *)
(* the control plane: what opens an incident consults the unique index,    *)
(* and the engineers' transitions do.                                      *)
(***************************************************************************)
THEOREM DetectionKeepsContract == Spec => LifecycleSpec
<1>1. Init => Lifecycle!Init
  BY TableStarts DEF Init
<1>2. ScheduleInv /\ [Next]_vars => [Lifecycle!Next]_(Lifecycle!contractVars)
  BY StepIsLawful DEF ScheduleInv, Lawful
<1>3. QED
  BY <1>1, <1>2, ScheduleAlways, PTL DEF Spec, LifecycleSpec, Lifecycle!Spec

=============================================================================
