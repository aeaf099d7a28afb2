------------------------------ MODULE CursorAuth ------------------------------
(***************************************************************************)
(* Signing one user in to Cursor.  The settings page inserts a flow, a     *)
(* worker claims it under a fresh token, publishes the URL the user opens, *)
(* polls for the key and saves it.  The claim is a lease the worker renews *)
(* while it polls; a worker that stops renewing is replaced, and one that  *)
(* was replaced, canceled or cut off must not save what it still obtains.  *)
(*                                                                         *)
(* A task is one processFlow of one worker process and stands for its      *)
(* claim token too; its identity is free again when the task has ended.    *)
(* Every await on the database is a step of its own, may fail, and may     *)
(* have been carried out although it failed.  Time is abstract: a flow's   *)
(* ten minutes are over (due) and a lease has lapsed (stale) at any moment *)
(* the code allows.                                                        *)
(***************************************************************************)
EXTENDS Integers, FiniteSets

CONSTANTS
    Flows,      \* identities of cursor_auth_flows rows of the user
    Tasks,      \* concurrent processFlow tasks of all workers
    Tabs,       \* concurrent requests of the settings page
    NoOne       \* SQL null

ASSUME AuthAssumption == NoOne \notin Flows \cup Tasks

VARIABLES
    flows,      \* the cursor_auth_flows rows
    credential, \* the user_cursor_credentials row: its flow and its task
    signIns,    \* the processing of a flow by each task
    tabs,       \* the web requests
    withdrawn   \* history: flows that an answered disconnect had canceled,
                \* or that were over when it began

authVars == <<flows, credential, signIns, tabs, withdrawn>>

-----------------------------------------------------------------------------
Statuses == {"absent", "starting", "processing", "prompted",
             "authenticated", "expired", "error", "canceled"}
ClaimedStatuses == {"processing", "prompted"}
ActiveFlowStatuses == {"starting"} \cup ClaimedStatuses

NoFlow == [status |-> "absent", by |-> NoOne, url |-> NoOne,
           due |-> FALSE, stale |-> FALSE]
IdleTask == [step |-> "idle", flow |-> NoOne, signal |-> "none"]
IdleTab == [doing |-> "idle", seen |-> {}]

TaskSteps == {"idle", "claim", "login", "poll", "complete",
              "release", "expired", "error"}

ActiveFlows == {f \in Flows : flows[f].status \in ActiveFlowStatuses}

AuthInit ==
    /\ flows = [f \in Flows |-> NoFlow]
    /\ credential = NoOne
    /\ signIns = [t \in Tasks |-> IdleTask]
    /\ tabs = [b \in Tabs |-> IdleTab]
    /\ withdrawn = {}

Goes(t, step) == signIns' = [signIns EXCEPT ![t].step = step]
Ends(t) == signIns' = [signIns EXCEPT ![t] = IdleTask]

(* mutant: the row is recognised by its status alone *)
OwnsByStatus(t, f) == flows[f].status \in ClaimedStatuses

(* The predicate of every update a task makes on its flow. *)
Owns(t, f) == flows[f].by = t /\ flows[f].status \in ClaimedStatuses

(* A verdict; what the other columns hold is not looked at again. *)
Verdicted(f, status) == [NoFlow EXCEPT !.status = status, !.by = flows[f].by]
Concluded(f, status) == [flows EXCEPT ![f] = Verdicted(f, status)]

-----------------------------------------------------------------------------
(* The settings page (app/api/cursor/connection) *)

CanceledFlows(fs) ==
    [f \in Flows |-> IF f \in fs \cap ActiveFlows
                     THEN Verdicted(f, "canceled") ELSE flows[f]]

(* POST cancels what the user has under way, in a statement of its own      *)
(* whose error is ignored ...                                               *)
PostCancels(b) ==
    /\ tabs[b].doing = "idle"
    /\ flows' \in {flows, CanceledFlows(Flows)}
    /\ tabs' = [tabs EXCEPT ![b].doing = "insert"]
    /\ UNCHANGED <<credential, signIns, withdrawn>>

(* ... and inserts the new flow, which the index on active flows refuses    *)
(* when another request has been faster.                                    *)
PostInserts(b) ==
    /\ tabs[b].doing = "insert"
    /\ \/ ActiveFlows # {} /\ UNCHANGED flows
       \/ /\ ActiveFlows = {}
          /\ \E f \in Flows :
                /\ flows[f].status = "absent"
                /\ flows' = [flows EXCEPT ![f].status = "starting"]
    /\ tabs' = [tabs EXCEPT ![b] = IdleTab]
    /\ UNCHANGED <<credential, signIns, withdrawn>>

(* DELETE of one flow. *)
CancelFlow(f) ==
    /\ flows[f].status \in ActiveFlowStatuses
    /\ flows' = CanceledFlows({f})
    /\ UNCHANGED <<credential, signIns, tabs, withdrawn>>

(* mutant: the credential first, the flows after *)
DeleteFirst == [first |-> "delete", second |-> "cancel"]

(* DELETE of the connection: two statements, in this order. *)
DisconnectOrder == [first |-> "cancel", second |-> "delete"]

Statement(what, carried) ==
    \/ what = "cancel" /\ UNCHANGED credential
       /\ flows' = IF carried THEN CanceledFlows(Flows) ELSE flows
    \/ what = "delete" /\ UNCHANGED flows
       /\ credential' = IF carried THEN NoOne ELSE credential

Known == {f \in Flows : flows[f].status # "absent"}

(* The error of the first statement is ignored: the request goes on, and is *)
(* answered in the end, although nothing may have been canceled.            *)
DisconnectBegins(b) ==
    /\ tabs[b].doing = "idle"
    /\ \E carried \in BOOLEAN :
          /\ Statement(DisconnectOrder.first, carried)
          /\ tabs' = [tabs EXCEPT ![b] =
                        [doing |-> "disconnect",
                         seen |-> IF carried THEN Known ELSE Known \ ActiveFlows]]
    /\ UNCHANGED <<signIns, withdrawn>>

DisconnectEnds(b) ==
    /\ tabs[b].doing = "disconnect"
    /\ Statement(DisconnectOrder.second, TRUE)
    /\ withdrawn' = withdrawn \cup tabs[b].seen
    /\ tabs' = [tabs EXCEPT ![b] = IdleTab]
    /\ UNCHANGED signIns

(* The second statement fails, whether or not it was carried out, or the    *)
(* request is cut off before it.                                            *)
RequestFails(b) ==
    /\ tabs[b].doing # "idle"
    /\ credential' \in {credential} \cup IF tabs[b].doing = "disconnect"
                                         THEN {NoOne} ELSE {}
    /\ tabs' = [tabs EXCEPT ![b] = IdleTab]
    /\ UNCHANGED <<flows, signIns, withdrawn>>

-----------------------------------------------------------------------------
(* A tick of the processor expires, reclaims, looks and claims, each with a *)
(* statement of its own.  The first two leave nothing behind in the task,   *)
(* so a tick that dies between them is a tick that did the first only.      *)

ExpireDue ==
    /\ \E f \in ActiveFlows : flows[f].due /\ flows' = Concluded(f, "expired")
    /\ UNCHANGED <<credential, signIns, tabs, withdrawn>>

(* Null the claim and hand the flow to whoever comes next. *)
Restarted(f) == [flows EXCEPT ![f].status = "starting", ![f].by = NoOne,
                              ![f].url = NoOne, ![f].stale = FALSE]

(* reclaimStaleCursorAuthFlows: at most one flow of the user is active. *)
ReclaimStale ==
    /\ \E f \in Flows : /\ flows[f].status \in ClaimedStatuses
                        /\ flows[f].stale /\ ~flows[f].due
                        /\ flows' = Restarted(f)
    /\ UNCHANGED <<credential, signIns, tabs, withdrawn>>

SelectPending(t) ==
    /\ signIns[t].step = "idle"
    /\ \E f \in Flows :
          /\ flows[f].status = "starting" /\ ~flows[f].due
          /\ signIns' = [signIns EXCEPT ![t].step = "claim", ![t].flow = f]
    /\ UNCHANGED <<flows, credential, tabs, withdrawn>>

(* Update where status is still starting; no row means another was faster. *)
ClaimFlow(t) ==
    LET f == signIns[t].flow
    IN  /\ signIns[t].step = "claim"
        /\ \/ /\ flows[f].status = "starting"
              /\ flows' = [flows EXCEPT ![f].status = "processing",
                                        ![f].by = t, ![f].stale = FALSE]
              /\ Goes(t, "login")
           \/ /\ flows[f].status # "starting"
              /\ Ends(t)
              /\ UNCHANGED flows
        /\ UNCHANGED <<credential, tabs, withdrawn>>

-----------------------------------------------------------------------------
(* processClaimedCursorAuthFlow *)

(* The catch block: what becomes of the flow depends on why it ended. *)
Verdict(t) == CASE signIns[t].signal = "shutdown" -> "release"
                [] signIns[t].signal = "aborted"  -> "expired"
                [] signIns[t].signal = "none"     -> "error"

Failing(t, verdict) ==
    [signIns EXCEPT ![t] = [IdleTask EXCEPT !.step = verdict,
                                            !.flow = signIns[t].flow]]

(* publishCursorLoginUrl.  When it fails, or the claim is lost, the task    *)
(* aborts itself, which is an error and no expiry.                          *)
PublishUrl(t) ==
    LET f == signIns[t].flow
    IN  /\ signIns[t].step = "login"
        /\ \/ /\ Owns(t, f)
              /\ flows' = [flows EXCEPT ![f].status = "prompted", ![f].url = t]
              /\ Goes(t, "poll")
           \/ /\ UNCHANGED flows
              /\ signIns' = Failing(t, IF signIns[t].signal = "shutdown"
                                     THEN "release" ELSE "error")
        /\ UNCHANGED <<credential, tabs, withdrawn>>

(* loginCursor obtains a key, unless it was told to stop. *)
LoginSucceeds(t) ==
    /\ signIns[t].step = "poll" /\ signIns[t].signal = "none"
    /\ Goes(t, "complete")
    /\ UNCHANGED <<flows, credential, tabs, withdrawn>>

(* loginCursor throws: it was aborted, or Cursor refused. *)
LoginThrows(t) ==
    /\ \/ signIns[t].step = "login" /\ signIns[t].signal # "none"
       \/ signIns[t].step = "poll"
    /\ signIns' = Failing(t, Verdict(t))
    /\ UNCHANGED <<flows, credential, tabs, withdrawn>>

(* complete_cursor_auth_flow, one transaction: the flow and the key. *)
Completes(t, f) ==
    /\ Owns(t, f) /\ ~flows[f].due
    /\ flows' = Concluded(f, "authenticated")
    /\ credential' = [item |-> f, by |-> t]

(* The processor does not look at what completion returned.  A reply that   *)
(* is lost makes it fail a flow that may have been completed.               *)
CompleteFlow(t) ==
    LET f == signIns[t].flow
    IN  /\ signIns[t].step = "complete"
        /\ \/ Completes(t, f)
           \/ ~(Owns(t, f) /\ ~flows[f].due) /\ UNCHANGED <<flows, credential>>
        /\ Ends(t) \/ signIns' = Failing(t, Verdict(t))
        /\ UNCHANGED <<tabs, withdrawn>>

(* The update of the catch block; its error is not looked at either.  The   *)
(* finally block lets pending renewals settle, which finds them before this *)
(* update or finds them nothing to renew.                                   *)
WriteVerdict(t) ==
    LET f == signIns[t].flow
    IN  /\ signIns[t].step \in {"release", "expired", "error"}
        /\ \/ /\ Owns(t, f)
              /\ flows' = IF signIns[t].step = "release" THEN Restarted(f)
                          ELSE Concluded(f, signIns[t].step)
           \/ UNCHANGED flows
        /\ Ends(t)
        /\ UNCHANGED <<credential, tabs, withdrawn>>

-----------------------------------------------------------------------------
(* What happens meanwhile *)

Processing(t) == signIns[t].step \in {"login", "poll", "complete"}
Abort(t) == /\ signIns[t].signal = "none"
            /\ signIns' = [signIns EXCEPT ![t].signal = "aborted"]

(* A renewal of the lease; renewals are not awaited by the sign-in. *)
RenewLease(t) ==
    LET f == signIns[t].flow
    IN  /\ Processing(t)
        /\ \/ /\ Owns(t, f)
              /\ flows' = [flows EXCEPT ![f].stale = FALSE]
              /\ UNCHANGED signIns
           \/ Abort(t) /\ UNCHANGED flows
        /\ UNCHANGED <<credential, tabs, withdrawn>>

(* The timer set to the end of the flow. *)
TimeoutFires(t) ==
    /\ Processing(t) /\ flows[signIns[t].flow].due
    /\ Abort(t)
    /\ UNCHANGED <<flows, credential, tabs, withdrawn>>

(* stop() aborts every task of the process. *)
StopWorker(t) ==
    /\ signIns[t].step \in {"claim", "login", "poll", "complete"}
    /\ signIns' = [signIns EXCEPT ![t].signal = "shutdown"]
    /\ UNCHANGED <<flows, credential, tabs, withdrawn>>

(* The process dies, or a statement before the claim throws. *)
TaskDies(t) ==
    /\ signIns[t].step # "idle"
    /\ Ends(t)
    /\ UNCHANGED <<flows, credential, tabs, withdrawn>>

FlowDue(f) ==
    /\ flows[f].status \in ActiveFlowStatuses /\ ~flows[f].due
    /\ flows' = [flows EXCEPT ![f].due = TRUE]
    /\ UNCHANGED <<credential, signIns, tabs, withdrawn>>

LeaseLapses(f) ==
    /\ flows[f].status \in ClaimedStatuses /\ ~flows[f].stale
    /\ flows' = [flows EXCEPT ![f].stale = TRUE]
    /\ UNCHANGED <<credential, signIns, tabs, withdrawn>>

-----------------------------------------------------------------------------
SignInStep(t) == \/ SelectPending(t) \/ ClaimFlow(t) \/ PublishUrl(t)
                 \/ LoginSucceeds(t) \/ LoginThrows(t) \/ CompleteFlow(t) \/ WriteVerdict(t)
Meanwhile(t) == RenewLease(t) \/ TimeoutFires(t) \/ StopWorker(t) \/ TaskDies(t)
TabStep(b) == \/ PostCancels(b) \/ PostInserts(b) \/ RequestFails(b)
              \/ DisconnectBegins(b) \/ DisconnectEnds(b)

AuthNext ==
    \/ \E t \in Tasks : SignInStep(t) \/ Meanwhile(t)
    \/ ExpireDue \/ ReclaimStale
    \/ \E b \in Tabs : TabStep(b)
    \/ \E f \in Flows : CancelFlow(f) \/ FlowDue(f) \/ LeaseLapses(f)

AuthSpec == AuthInit /\ [][AuthNext]_authVars

-----------------------------------------------------------------------------
(* Properties *)

(* Every variable holds values of its type. *)
AuthTypeOK ==
    /\ flows \in [Flows -> [status : Statuses, by : Tasks \cup {NoOne},
                            url : Tasks \cup {NoOne}, due : BOOLEAN,
                            stale : BOOLEAN]]
    /\ credential = NoOne \/ credential \in [item : Flows, by : Tasks]
    /\ signIns \in [Tasks -> [step : TaskSteps, flow : Flows \cup {NoOne},
                            signal : {"none", "aborted", "shutdown"}]]
    /\ tabs \in [Tabs -> [doing : {"idle", "insert", "disconnect"},
                          seen : SUBSET Flows]]
    /\ withdrawn \subseteq Flows

(* The page shows the URL of the task that polls for it, never of one that  *)
(* lost the flow; and once a disconnect is answered, no sign-in that it     *)
(* canceled, or that was over before, connects the user again.  (The route  *)
(* does not look whether the cancel succeeded: a sign-in that was under way *)
(* and was not canceled may.)                                               *)
SignInIsCurrent ==
    /\ \A f \in Flows :
          /\ flows[f].status = "prompted" => flows[f].url = flows[f].by
          /\ flows[f].status = "starting" => flows[f].url = NoOne
    /\ credential # NoOne => credential.item \notin withdrawn

Outcome(f) == CASE flows[f].status \in {"absent"} \cup ActiveFlowStatuses -> "open"
                [] flows[f].status = "authenticated" -> "done"
                [] OTHER -> "closed"

Lease == INSTANCE FencedLease WITH
            Items <- Flows, Holders <- Tasks, Nobody <- NoOne, Nothing <- NoOne,
            holder <- [f \in Flows |-> flows[f].by],
            outcome <- [f \in Flows |-> Outcome(f)],
            effect <- credential

(* A key is saved once, by the task that holds the flow when it is saved,   *)
(* whatever tasks were replaced, stopped or cut off meanwhile.              *)
LeaseSpec == Lease!Spec
=============================================================================
