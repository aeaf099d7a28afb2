-------------------------- MODULE MCReconcilingWorker --------------------------
(* TLC instance of ReconcilingWorker. *)
EXTENDS ReconcilingWorker

CONSTANTS j1, t1, r1, r2, s1

OneJob == {j1}
OneTimer == {t1}
TwoReconcilers == {r1, r2}
OneStage == {s1}
ThreeStatuses == {"todo", "rework", "done"}

(* Rework is routed to a stage and Done completes, or the stage of rework   *)
(* is not one of the session's and Done lands the work first.               *)
TwoConfigurations == {[rework |-> s1, land |-> NoTarget],
                      [rework |-> Unselected, land |-> s1]}
=============================================================================
