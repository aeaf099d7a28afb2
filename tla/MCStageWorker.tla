---------------------------- MODULE MCStageWorker ----------------------------
(* TLC instances of StageWorker. *)
EXTENDS StageWorker
=============================================================================
