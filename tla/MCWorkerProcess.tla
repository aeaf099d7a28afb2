--------------------------- MODULE MCWorkerProcess ---------------------------
(* TLC instances of WorkerProcess. *)
EXTENDS WorkerProcess, TLC

CONSTANTS j1, j2, t1, t2

TwoJobs == {j1, j2}
OneJob == {j1}
OneTimer == {t1}
TwoTimers == {t1, t2}

Identities == Permutations(Jobs) \cup Permutations(Timers)
=============================================================================
