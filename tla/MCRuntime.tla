------------------------------ MODULE MCRuntime ------------------------------
(***************************************************************************)
(* A small instance for TLC: a canary version and a feature that two       *)
(* commits change, the first of which has the canary and the second not.   *)
(***************************************************************************)
EXTENDS Imports, TLC

CONSTANTS v2, f, ten, x, y, t1, t2

RollbackManifest == << (v2 :> ten @@ f :> x), (v2 :> Absent @@ f :> y) >>

=============================================================================
