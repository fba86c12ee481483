---------------------------- MODULE MCControlPlane ----------------------------
(***************************************************************************)
(* Small instances of ControlPlane for TLC.                                *)
(***************************************************************************)
EXTENDS ControlPlane, TLC

CONSTANTS i1, a1, m1, w1, w2, h1, h2

\* One monitor, one incident with one action.
OneMonitorOf == [i \in {i1} |-> m1]
OneIncidentOf == [a \in {a1} |-> i1]

WorkerSymmetry == Permutations({w1, w2})

=============================================================================
