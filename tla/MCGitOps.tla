------------------------------- MODULE MCGitOps -------------------------------
(***************************************************************************)
(* Small instances of GitOps for TLC: one incident with one action.        *)
(***************************************************************************)
EXTENDS GitOps, TLC

CONSTANTS i1, a1, m1, w1, w2, h1, h2

OneMonitorOf == [i \in {i1} |-> m1]
OneIncidentOf == [a \in {a1} |-> i1]

WorkerSymmetry == Permutations({w1, w2})

=============================================================================
