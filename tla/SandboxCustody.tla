---------------------------- MODULE SandboxCustody ----------------------------
(***************************************************************************)
(* What the pipeline promises about the sandboxes of execution attempts,   *)
(* whoever acts: a sandbox in use is not taken from its worker while the   *)
(* attempt is in force, and the only copy of completed work is not thrown  *)
(* away.  StageWorker implements this specification.                       *)
(***************************************************************************)

CONSTANT Attempts      \* execution attempts, each with at most one sandbox

VARIABLES
    box,        \* the sandbox: none, up, stopped by the pipeline, or expired
    authority,  \* of the attempt: none, open, over, or discarded by a user
    used,       \* the attempt's worker holds the sandbox
    work        \* completed work: none, only in the sandbox, or copied

vars == <<box, authority, used, work>>

BoxStates == {"none", "up", "stopped", "expired"}
AuthorityStates == {"none", "open", "over", "discarded"}
WorkStates == {"none", "boxed", "copied"}

Init ==
    /\ box = [a \in Attempts |-> "none"]
    /\ authority = [a \in Attempts |-> "none"]
    /\ used = [a \in Attempts |-> FALSE]
    /\ work = [a \in Attempts |-> "none"]

-----------------------------------------------------------------------------
(* Authority is given once and does not come back. *)
AuthorityMoves(a) ==
    \/ authority[a] = "none" /\ authority'[a] = "open"
    \/ authority[a] = "open" /\ authority'[a] \in {"over", "discarded"}

(* A sandbox goes down by a step of the pipeline only when it holds nothing *)
(* to keep, or what a user discarded; and only when its worker lets it go,  *)
(* or has lost the right to it.                                             *)
MayStop(a) ==
    /\ work[a] # "boxed" \/ authority[a] = "discarded"
    /\ ~used[a] \/ ~used'[a] \/ authority[a] \in {"over", "discarded"}

BoxMoves(a) ==
    \/ box[a] = "none" /\ box'[a] = "up"
    \/ box[a] = "up" /\ box'[a] = "expired"
    \/ box[a] = "up" /\ box'[a] = "stopped" /\ MayStop(a)

(* Work is declared in force.  It stops being kept once it was copied, or   *)
(* when its sandbox is gone.                                                *)
WorkMoves(a) ==
    \/ work[a] = "none" /\ work'[a] = "boxed" /\ authority[a] = "open"
    \/ work[a] # "copied" /\ work'[a] = "copied"
    \/ work[a] = "boxed" /\ work'[a] = "none" /\ box[a] \in {"stopped", "expired"}

Step(a) ==
    /\ authority'[a] = authority[a] \/ AuthorityMoves(a)
    /\ box'[a] = box[a] \/ BoxMoves(a)
    /\ work'[a] = work[a] \/ WorkMoves(a)

Next ==
    /\ box' \in [Attempts -> BoxStates]
    /\ authority' \in [Attempts -> AuthorityStates]
    /\ used' \in [Attempts -> BOOLEAN]
    /\ work' \in [Attempts -> WorkStates]
    /\ \A a \in Attempts : Step(a)

Spec == Init /\ [][Next]_vars
=============================================================================
