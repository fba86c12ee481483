-------------------------------- MODULE MCDemo --------------------------------
(***************************************************************************)
(* A small instance of DemoRuns for TLC.                                   *)
(***************************************************************************)
EXTENDS DemoRuns

CONSTANTS r1, r2, w1, w2, q1

=============================================================================
