---------------------------- MODULE IncidentsProofs ----------------------------
(***************************************************************************)
(* The statements on the incidents table, whoever issues them, are steps   *)
(* of IncidentContract; and what the contract keeps, every process keeps.  *)
(***************************************************************************)
EXTENDS Incidents, TLAPS

statusBar == [i \in Incidents |-> incident[i].status]
recoveredBar == {i \in Incidents : incident[i].verifiedEvent}

\* A step of the contract, or none.
Lawful == Lifecycle!Next \/ UNCHANGED Lifecycle!contractVars

\* Writing one row changes one status, and adds one recovery or none.
LEMMA RowWrites ==
  ASSUME incident \in [Incidents -> IncidentRow],
         NEW i \in Incidents, NEW row, SetIncident(i, row)
  PROVE  /\ statusBar' = [statusBar EXCEPT ![i] = row.status]
         /\ row.verifiedEvent = incident[i].verifiedEvent => recoveredBar' = recoveredBar
         /\ row.verifiedEvent => recoveredBar' = recoveredBar \cup {i}
         /\ row.status = incident[i].status => statusBar' = statusBar
BY DEF SetIncident, statusBar, recoveredBar

\* Statements that leave the status and the timeline alone.
LEMMA QuietRows ==
  ASSUME incident \in [Incidents -> IncidentRow],
         NEW i \in Incidents, NEW row, SetIncident(i, row),
         row.status = incident[i].status, row.verifiedEvent = incident[i].verifiedEvent
  PROVE  Lawful
BY RowWrites DEF Lawful, Lifecycle!contractVars, statusBar, recoveredBar

LEMMA QuietStatements ==
  ASSUME incident \in [Incidents -> IncidentRow], NEW i \in Incidents
  PROVE  /\ ClaimInvestigation(i) => Lawful
         /\ CompleteInvestigation(i) => Lawful
         /\ FailInvestigation(i) => Lawful
         /\ InvestigationLeaseExpires(i) => Lawful
         /\ \A n : UpdateEvidence(i, n) => Lawful
<1>0. incident[i] \in IncidentRow
  OBVIOUS
<1>1. ClaimInvestigation(i) => Lawful
  BY <1>0, QuietRows DEF ClaimInvestigation, IncidentRow
<1>2. CompleteInvestigation(i) => Lawful
  BY <1>0, QuietRows DEF CompleteInvestigation, IncidentRow
<1>3. FailInvestigation(i) => Lawful
  BY <1>0, QuietRows DEF FailInvestigation, IncidentRow
<1>4. InvestigationLeaseExpires(i) => Lawful
  BY <1>0, QuietRows DEF InvestigationLeaseExpires, IncidentRow
<1>5. ASSUME NEW n, UpdateEvidence(i, n) PROVE Lawful
  BY <1>0, <1>5, QuietRows DEF UpdateEvidence, IncidentRow
<1>6. QED
  BY <1>1, <1>2, <1>3, <1>4, <1>5

\* A row that does not exist has no timeline.
Unrecovered == \A i \in Incidents : incident[i].status = "absent" => ~incident[i].verifiedEvent

\* What a statement may assume of the table, and leaves so.
Table == incident \in [Incidents -> IncidentRow]

LEMMA OpeningIsLawful ==
  ASSUME Table, Unrecovered, NEW i \in Incidents, CreateIncident(i)
  PROVE  Lawful
<1> DEFINE row == [AbsentIncident EXCEPT !.status = "open", !.epoch = 1]
<1>1. /\ row.status = "open" /\ row.verifiedEvent = incident[i].verifiedEvent
      /\ SetIncident(i, row) /\ incident[i].status = "absent" /\ ~IndexTaken(i)
  BY DEF CreateIncident, AbsentIncident, Unrecovered, Table, IncidentRow
<1> HIDE DEF row
<1>2. statusBar' = [statusBar EXCEPT ![i] = "open"] /\ recoveredBar' = recoveredBar
  BY <1>1, RowWrites DEF Table
<1>3. statusBar[i] = "absent" /\ ~Lifecycle!Occupied(i)
  BY <1>1 DEF statusBar, IndexTaken, IsActive, ActiveStatus, Lifecycle!Occupied, Lifecycle!Active
<1>4. Lifecycle!Open(i)
  BY <1>2, <1>3 DEF Lifecycle!Open, Lifecycle!Become, statusBar, recoveredBar
<1>5. QED
  BY <1>4 DEF Lawful, Lifecycle!Next

LEMMA TransitionIsLawful ==
  ASSUME Table, NEW i \in Incidents, incident[i].status # "absent",
         NEW to \in IncidentStatus, TransitionRow(i, to)
  PROVE  Lawful
<1> DEFINE row == [incident[i] EXCEPT
                     !.status = to,
                     !.epoch = IF to \in ActiveStatus /\ ~IsActive(i) THEN NextEpoch(i) ELSE @]
<1>1. /\ row.status = to /\ row.verifiedEvent = incident[i].verifiedEvent
      /\ SetIncident(i, row) /\ ~TransitionRefused(i, to)
  BY DEF TransitionRow, Table, IncidentRow
<1> HIDE DEF row
<1>2. statusBar' = [statusBar EXCEPT ![i] = to] /\ recoveredBar' = recoveredBar
  BY <1>1, RowWrites DEF Table
<1>3. /\ statusBar[i] = incident[i].status /\ incident[i].status \in IncidentStatus
      /\ Lifecycle!Occupied(i) = IndexTaken(i)
  BY DEF Table, IncidentRow, statusBar, IndexTaken, IsActive, ActiveStatus, Lifecycle!Occupied,
         Lifecycle!Active
<1>4. Lifecycle!Become(i, to)
  BY <1>2 DEF Lifecycle!Become, statusBar, recoveredBar
<1>5. CASE to \in InactiveStatus
  <2>1. Lifecycle!End(i)
    BY <1>3, <1>4, <1>5 DEF Lifecycle!End, Lifecycle!Active, Lifecycle!Ended, IncidentStatus,
       ActiveStatus, InactiveStatus, statusBar
  <2>2. QED
    BY <2>1 DEF Lawful, Lifecycle!Next
<1>6. CASE to \in ActiveStatus /\ incident[i].status \in ActiveStatus
  <2>1. Lifecycle!Proceed(i)
    BY <1>3, <1>4, <1>6 DEF Lifecycle!Proceed, Lifecycle!Active, ActiveStatus, statusBar
  <2>2. QED
    BY <2>1 DEF Lawful, Lifecycle!Next
<1>7. CASE to \in ActiveStatus /\ incident[i].status \in InactiveStatus
  <2>1. ~IndexTaken(i)
    BY <1>1, <1>7 DEF TransitionRefused, IsActive, ActiveStatus, InactiveStatus
  <2>2. Lifecycle!Reopen(i)
    BY <1>3, <1>4, <1>7, <2>1 DEF Lifecycle!Reopen, Lifecycle!Active, Lifecycle!Ended, ActiveStatus,
       InactiveStatus, statusBar
  <2>3. QED
    BY <2>2 DEF Lawful, Lifecycle!Next
<1>8. QED
  BY <1>3, <1>5, <1>6, <1>7 DEF IncidentStatus

LEMMA RecoveryIsLawful ==
  ASSUME Table, NEW i \in Incidents, incident[i].status # "absent",
         NEW measured, RecordRecovery(i, measured)
  PROVE  Lawful
<1> DEFINE row == [incident[i] EXCEPT !.recovery = measured, !.verifiedEvent = TRUE]
<1>1. row.status = incident[i].status /\ row.verifiedEvent /\ SetIncident(i, row)
  BY DEF RecordRecovery, Table, IncidentRow
<1> HIDE DEF row
<1>2. statusBar' = statusBar /\ recoveredBar' = recoveredBar \cup {i}
  BY <1>1, RowWrites DEF Table
<1>3. Lifecycle!Recover(i)
  BY <1>2 DEF Lifecycle!Recover, statusBar, recoveredBar
<1>4. QED
  BY <1>3 DEF Lawful, Lifecycle!Next

LEMMA RestIsLawful == UNCHANGED incident => Lawful
BY DEF Lawful, Lifecycle!contractVars

(***************************************************************************)
(* What the contract keeps of the table.                                   *)
(***************************************************************************)
LEMMA LawfulKeeps ==
  ASSUME Table, Table', Lawful, Unrecovered, OneActivePerMonitor
  PROVE  Unrecovered' /\ OneActivePerMonitor'
<1>1. \A i \in Incidents : /\ statusBar[i] = incident[i].status
                           /\ statusBar'[i] = incident'[i].status
                           /\ i \in recoveredBar <=> incident[i].verifiedEvent
                           /\ i \in recoveredBar' <=> incident'[i].verifiedEvent
  BY DEF statusBar, recoveredBar
<1>2. CASE UNCHANGED Lifecycle!contractVars
  <2>1. statusBar' = statusBar /\ recoveredBar' = recoveredBar
    BY <1>2 DEF Lifecycle!contractVars, statusBar, recoveredBar
  <2>2. QED
    BY <1>1, <2>1 DEF Unrecovered, OneActivePerMonitor, IsActive
<1>3. ASSUME NEW i \in Incidents, Lifecycle!Recover(i)
      PROVE  Unrecovered' /\ OneActivePerMonitor'
  <2>1. statusBar[i] # "absent" /\ statusBar' = statusBar /\ recoveredBar' = recoveredBar \cup {i}
    BY <1>3 DEF Lifecycle!Recover, statusBar, recoveredBar
  <2>2. QED
    BY <1>1, <2>1 DEF Unrecovered, OneActivePerMonitor, IsActive
<1>4. ASSUME NEW i \in Incidents, NEW to \in ActiveStatus \cup InactiveStatus, Lifecycle!Become(i, to),
             to \in ActiveStatus => statusBar[i] \in ActiveStatus \/ ~IndexTaken(i)
      PROVE  Unrecovered' /\ OneActivePerMonitor'
  <2>1. statusBar' = [statusBar EXCEPT ![i] = to] /\ recoveredBar' = recoveredBar
    BY <1>4 DEF Lifecycle!Become, statusBar, recoveredBar
  <2>2. /\ \A j \in Incidents : j # i => incident'[j].status = incident[j].status
        /\ incident'[i].status = to
        /\ \A j \in Incidents : incident'[j].verifiedEvent <=> incident[j].verifiedEvent
    BY <1>1, <2>1 DEF statusBar
  <2>3. Unrecovered'
    BY <2>2 DEF Unrecovered, ActiveStatus, InactiveStatus
  <2>4. OneActivePerMonitor'
    BY <1>1, <1>4, <2>2 DEF OneActivePerMonitor, IsActive, IndexTaken, ActiveStatus, InactiveStatus
  <2>5. QED
    BY <2>3, <2>4
<1>5. ASSUME NEW i \in Incidents,
             Lifecycle!Open(i) \/ Lifecycle!Reopen(i) \/ Lifecycle!Proceed(i) \/ Lifecycle!End(i)
      PROVE  Unrecovered' /\ OneActivePerMonitor'
  <2>1. Lifecycle!Occupied(i) = IndexTaken(i)
    BY DEF IndexTaken, IsActive, ActiveStatus, Lifecycle!Occupied, Lifecycle!Active
  <2>2. Lifecycle!Active = ActiveStatus /\ Lifecycle!Ended = InactiveStatus
    BY DEF Lifecycle!Active, Lifecycle!Ended, ActiveStatus, InactiveStatus
  <2>3. PICK to \in ActiveStatus \cup InactiveStatus :
          /\ Lifecycle!Become(i, to)
          /\ to \in ActiveStatus => statusBar[i] \in ActiveStatus \/ ~IndexTaken(i)
    BY <1>5, <2>1, <2>2
    DEF Lifecycle!Open, Lifecycle!Reopen, Lifecycle!Proceed, Lifecycle!End, statusBar, ActiveStatus,
        InactiveStatus
  <2>4. QED
    BY <1>4, <2>3
<1>6. QED
  BY <1>2, <1>3, <1>5 DEF Lawful, Lifecycle!Next

LEMMA TableStarts == IncidentsInit => Lifecycle!Init /\ Unrecovered /\ OneActivePerMonitor
BY DEF IncidentsInit, AbsentIncident, Lifecycle!Init, Unrecovered, OneActivePerMonitor, IsActive,
       ActiveStatus

================================================================================
