------------------------- MODULE MCSessionLifecycle -------------------------
(* TLC instances of SessionLifecycle: the identities are model values, and  *)
(* interchangeable in the runs that check no liveness.                      *)
EXTENDS SessionLifecycle, TLC

CONSTANTS j1, j2, j3, r1, r2, r3, r4

TwoJobs == {j1, j2}
ThreeJobs == {j1, j2, j3}
TwoRuns == {r1, r2}
ThreeRuns == {r1, r2, r3}
FourRuns == {r1, r2, r3, r4}

Identities == Permutations(Jobs) \cup Permutations(Runs)
=============================================================================
