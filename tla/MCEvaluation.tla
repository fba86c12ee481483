----------------------------- MODULE MCEvaluation -----------------------------
(***************************************************************************)
(* A small instance for TLC: windows of up to four pairs, samples that are *)
(* large enough for ten bins, of which some lie above the baseline.        *)
(***************************************************************************)
EXTENDS Evaluation, TLC

CONSTANTS v1, v2, income, None

ZeroAndHalf == {<<0, 1>>, <<1, 2>>}
Baselines == {b \in [{1, 2, 3} -> 0 .. 10] : b[3] = 0}
Currents == [{1, 2, 3} -> 0 .. 1]

\* With and without a canary, a rollback, a feature.
BranchOf(a, b) ==
  LET release(v, share, r) == [version |-> v, traffic |-> share, rollback |-> r]
      feature(v, r) == [x \in {income} |-> [version |-> v, rollback |-> r]]
      row(stable, candidate, of) ==
        [stable |-> stable, candidate |-> candidate, features |-> of]
  IN {row(release(a, 90, b), release(b, 10, None), [x \in {income} |-> None]),
      row(release(a, 90, None), release(b, 10, None), feature(a, b)),
      row(release(a, 100, b), None, feature(a, None))}
Branch == BranchOf(v1, v2) \cup BranchOf(v2, v1)

VersionSymmetry == Permutations({v1, v2})

=============================================================================
