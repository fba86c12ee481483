------------------------------ MODULE MCSchedule ------------------------------
(***************************************************************************)
(* A small instance of MonitorSchedule for TLC: one monitor, two incidents *)
(* it may open.                                                            *)
(***************************************************************************)
EXTENDS MonitorSchedule, TLC

CONSTANTS i1, i2, m1, w1, w2, c1

TwoOfOneMonitor == [i \in {i1, i2} |-> m1]

=============================================================================
