----------------------- MODULE MCCheckpointPublication -----------------------
(* TLC instances of CheckpointPublication. *)
EXTENDS CheckpointPublication, TLC

CONSTANTS j1, j2, r1, r2, r3, d1, d2

OneJob == {j1}
TwoJobs == {j1, j2}
OneRun == {r1}
TwoRuns == {r1, r2}
ThreeRuns == {r1, r2, r3}
OneDrainer == {d1}
TwoDrainers == {d1, d2}

Identities == Permutations(Jobs) \cup Permutations(Runs)
              \cup Permutations(Drainers)
=============================================================================
