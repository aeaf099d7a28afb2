-------------------------- MODULE CloudflareServices --------------------------
(***************************************************************************)
(* What the Durable Object of the Cloudflare deployment delivers to        *)
(* workflows: claimed jobs (CloudflareDispatch) and claimed Cursor         *)
(* sign-ins (CursorAuth, whose task is the CursorAuthWorkflow here and a   *)
(* promise of the worker process elsewhere).  Both pass through one batch  *)
(* but meet in no row: a delivery that fails is caught and the batch goes  *)
(* on with the next.  A behaviour is followed in the service it is about.  *)
(***************************************************************************)
EXTENDS CloudflareDispatch, CursorAuth

VARIABLE delivers   \* the kind of delivery a behaviour is about

cloudVars == <<dispatchVars, authVars, delivers>>

CloudInit == /\ DispatchInit /\ AuthInit
             /\ delivers \in {"jobs", "sign-ins"}

Jobs == delivers = "jobs"

CloudNext ==
    /\ \/ Jobs /\ DispatchNext /\ UNCHANGED authVars
       \/ ~Jobs /\ AuthNext /\ UNCHANGED dispatchVars
    /\ UNCHANGED delivers

(* The schedule kicks every minute and alarms fire; calls are answered; the *)
(* sweep of the maintenance workflow comes back; executions end by their    *)
(* deadline.  Nothing is said of sign-ins in the long run.                  *)
CloudFairness ==
    /\ WF_dispatchVars(Jobs /\ AlarmFires)
    /\ WF_dispatchVars(Jobs /\ BatchStep)
    /\ \A c \in DispatchedClaims :
          /\ WF_dispatchVars(Jobs /\ StallSweep(c))
          /\ WF_dispatchVars(Jobs /\ (ExecutionEnds(c) \/ ExecutionDies(c)))

CloudSpec == CloudInit /\ [][CloudNext]_cloudVars /\ CloudFairness

(* Unless its batches fail for ever, a job neither waits nor runs for ever: *)
(* it comes to an end, whichever replies, creations, batches and workflows  *)
(* are lost on the way.  (A batch that comes to its end leaves the same      *)
(* state as one that failed there, and is no failure.)                      *)
DispatchedWorkEnds ==
    <>[][BatchFails => NothingToClaim]_dispatchVars =>
        \A j \in DJobs : (Jobs /\ work[j].status # "ended") ~> work[j].status = "ended"
=============================================================================
