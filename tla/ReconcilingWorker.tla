--------------------------- MODULE ReconcilingWorker ---------------------------
(***************************************************************************)
(* A worker process (WorkerProcess) and the reconcilers of Linear issues   *)
(* (LinearTransitions) of this and of other processes.  To the process its *)
(* reconciler is the task of a timer, which may last, fail or be abandoned;*)
(* they share no row.  A step of one is therefore no step of the other,    *)
(* and a behaviour is followed in what it is about.                        *)
(***************************************************************************)
EXTENDS WorkerProcess, LinearTransitions

VARIABLE follows    \* what a behaviour is about

reconcilingVars == <<vars, linearVars, follows>>

Attempting == follows = "attempts"

(* An issue that nobody follows has one initial state. *)
ReconcilingInit ==
    /\ Init /\ LinearInit
    /\ follows \in {"attempts", "issues"}
    /\ Attempting => /\ issue.status = CHOOSE s \in Statuses : TRUE
                     /\ routing = CHOOSE c \in Configurations : TRUE

ReconcilingNext ==
    /\ \/ Attempting /\ Next /\ UNCHANGED linearVars
       \/ ~Attempting /\ LinearNext /\ UNCHANGED vars
    /\ UNCHANGED follows

(* Fairness, where the behaviour is about the process: promises settle (a   *)
(* claim and a write are answered or fail, callbacks and sign-in end), the  *)
(* loop and main() go on, the heartbeat's interval fires, and a write       *)
(* succeeds now and then.                                                   *)
WorkerFairness ==
    /\ WF_vars(Attempting /\ StartServing)
    /\ WF_vars(Attempting /\ \/ Fill \/ ClaimFails \/ Resume
                             \/ \E j \in Jobs : ClaimReturns(j))
    /\ WF_vars(Attempting /\ HeartbeatTick)
    /\ \A s \in Sources :
          WF_vars(Attempting /\ \E w \in Awaited({s}) : WriteLands(w) \/ WriteErrs(w))
    /\ SF_vars(Attempting /\ \E w \in Awaited({Tick}) : WriteLands(w))
    /\ \A t \in Timers : WF_vars(Attempting /\ TaskEnds(t))
    /\ WF_vars(Attempting /\ AuxStops)
    /\ WF_vars(Attempting /\ (JobsWaitStep \/ DrainCompletes))
    /\ WF_vars(Attempting /\ (BeginShutdown \/ LastWaitStep \/ TicksSettle \/ Deregister))

(* One process goes on: its interval fires, and a reading of the rows, of   *)
(* Linear or a transition that comes again and again does not fail for      *)
(* ever.  Of other reconcilers nothing is assumed.                          *)
Survivor == CHOOSE r \in Reconcilers : TRUE

ReconcilerFairness ==
    /\ WF_linearVars(~Attempting /\ ListSessions(Survivor))
    /\ SF_linearVars(~Attempting /\ LoadRouting(Survivor))
    /\ SF_linearVars(~Attempting /\ ObserveIssue(Survivor))
    /\ SF_linearVars(~Attempting /\ Transition(Survivor))

ReconcilingSpec == /\ ReconcilingInit /\ [][ReconcilingNext]_reconcilingVars
                   /\ WorkerFairness /\ ReconcilerFairness

(* When people leave an issue, the configuration and the session alone, the *)
(* session follows the issue (IssueIsFollowed of LinearTransitions).        *)
IssuesAreFollowed == ~Attempting => IssueIsFollowed
=============================================================================
