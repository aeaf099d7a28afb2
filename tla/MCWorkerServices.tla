--------------------------- MODULE MCWorkerServices ---------------------------
(* TLC instance of WorkerServices. *)
EXTENDS WorkerServices, TLC

CONSTANTS j1, t1, p1, p2, h1, s1

OneJob == {j1}
OneTimer == {t1}
TwoProcesses == {p1, p2}    \* each publishes, and each reconciles
OneHook == {h1}

(* Rework is routed to a stage and Done completes, or the stage of rework   *)
(* is not one of the session's and Done lands the work first.               *)
OneStage == {s1}
ThreeStatuses == {"todo", "rework", "done"}
TwoConfigurations == {[rework |-> s1, land |-> NoTarget],
                      [rework |-> Unselected, land |-> s1]}

Identities == Permutations(TwoProcesses)
=============================================================================
