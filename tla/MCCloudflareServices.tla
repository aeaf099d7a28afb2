------------------------- MODULE MCCloudflareServices -------------------------
(* TLC instance of CloudflareServices. *)
EXTENDS CloudflareServices, TLC

CONSTANTS j1, f1, f2, t1, t2, b1

OneJob == {j1}
TwoFlows == {f1, f2}
TwoTasks == {t1, t2}
OneTab == {b1}

(* Sound for DispatchedWorkEnds too: it is about jobs, and the states of a  *)
(* behaviour about jobs hold no flow and no task to permute.                *)
Identities == Permutations(Flows) \cup Permutations(Tasks)
=============================================================================
