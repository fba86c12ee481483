------------------------- MODULE RemediationContract -------------------------
(***************************************************************************)
(* What the control plane promises about remediation actions, told without *)
(* workers, leases, requests or evidence.  An action is decided once and   *)
(* only while its incident is live; only an approved one starts, and only  *)
(* while its incident is live; a started action is never withdrawn; a      *)
(* final status stays; and only an execution that succeeded is verified.   *)
(***************************************************************************)
CONSTANTS
  Actions,     \* identifiers of remediation actions
  Cases,       \* the incidents they were proposed for
  CaseOf       \* the incident of an action

VARIABLES
  phase,       \* the status of each action
  live,        \* the incidents that are open or investigating
  verified     \* the actions whose recovery has been verified

contractVars == <<phase, live, verified>>

Waiting == {"proposed", "approved"}

Init ==
  /\ phase = [a \in Actions |-> "absent"]
  /\ live = {}
  /\ verified = {}

Move(a, from, to) ==
  /\ phase[a] = from
  /\ phase' = [phase EXCEPT ![a] = to]
  /\ UNCHANGED <<live, verified>>

Propose(a) == Move(a, "absent", "proposed")

Decide(a) ==
  CaseOf[a] \in live /\ \E to \in {"approved", "rejected"} : Move(a, "proposed", to)

Start(a) == CaseOf[a] \in live /\ Move(a, "approved", "executing")

\* A merged pull request decides and starts at once.
Merge(a) == CaseOf[a] \in live /\ Move(a, "proposed", "executing")

Finish(a) == \E to \in {"succeeded", "failed"} : Move(a, "executing", to)

Verify(a) ==
  /\ phase[a] = "succeeded"
  /\ verified' = verified \cup {a}
  /\ UNCHANGED <<phase, live>>

\* Several actions of one incident are withdrawn together.
Withdraw(S) ==
  /\ \A a \in S : phase[a] \in Waiting
  /\ phase' = [a \in Actions |-> IF a \in S THEN "cancelled" ELSE phase[a]]
  /\ UNCHANGED <<live, verified>>

\* Incidents come and go one at a time, and no action moves in that step.
Toggle(c) ==
  /\ live' \in {live \cup {c}, live \ {c}}
  /\ UNCHANGED <<phase, verified>>

Next ==
  \/ \E a \in Actions :
       Propose(a) \/ Decide(a) \/ Start(a) \/ Merge(a) \/ Finish(a) \/ Verify(a)
  \/ \E S \in SUBSET Actions : Withdraw(S)
  \/ \E c \in Cases : Toggle(c)

Spec == Init /\ [][Next]_contractVars

=============================================================================
