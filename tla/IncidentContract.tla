--------------------------- MODULE IncidentContract ---------------------------
(***************************************************************************)
(* What all processes that write the incidents table promise each other    *)
(* about an incident, told without leases, investigations and evidence: it *)
(* is opened once and never removed; it becomes active, at first or again, *)
(* only while no other incident of its monitor is; a recovery that its     *)
(* timeline holds stays there; and a step concerns one incident.           *)
(* When an incident may be resolved is ControlPlane's matter.              *)
(***************************************************************************)
CONSTANTS
  Cases,       \* identifiers of incidents
  MonitorOf    \* the monitor whose events open the incident

VARIABLES
  status,      \* the status of each incident
  recovered    \* the incidents with a verified recovery in their timeline

contractVars == <<status, recovered>>

Active == {"open", "investigating"}
Ended == {"resolved", "closed"}

\* Another incident of the monitor is active.
Occupied(c) ==
  \E d \in Cases \ {c} : MonitorOf[d] = MonitorOf[c] /\ status[d] \in Active

Init ==
  /\ status = [c \in Cases |-> "absent"]
  /\ recovered = {}

Become(c, to) ==
  /\ status' = [status EXCEPT ![c] = to]
  /\ UNCHANGED recovered

Open(c) == status[c] = "absent" /\ ~Occupied(c) /\ Become(c, "open")

Reopen(c) == status[c] \in Ended /\ ~Occupied(c) /\ \E to \in Active : Become(c, to)

Proceed(c) == status[c] \in Active /\ \E to \in Active : Become(c, to)

End(c) == status[c] \in Active \cup Ended /\ \E to \in Ended : Become(c, to)

Recover(c) ==
  /\ status[c] # "absent"
  /\ recovered' = recovered \cup {c}
  /\ UNCHANGED status

Next == \E c \in Cases : Open(c) \/ Reopen(c) \/ Proceed(c) \/ End(c) \/ Recover(c)

Spec == Init /\ [][Next]_contractVars

==============================================================================
