------------------------- MODULE MCCheckpointCleanup -------------------------
(* TLC instances of CheckpointCleanup. *)
EXTENDS CheckpointCleanup, TLC

CONSTANTS j1, r1, r2, d1, c1, c2

OneJob == {j1}
OneRun == {r1}
TwoRuns == {r1, r2}
OneDrainer == {d1}
TwoCleaners == {c1, c2}

Identities == Permutations(Jobs) \cup Permutations(Runs)
              \cup Permutations(Cleaners)
=============================================================================
