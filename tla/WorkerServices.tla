---------------------------- MODULE WorkerServices ----------------------------
(***************************************************************************)
(* What worker processes run at the same time: the scheduler of claimed    *)
(* attempts with its heartbeat, maintenance and shutdown (WorkerProcess)   *)
(* and, as maintenance callbacks, the drain of canonical pull requests     *)
(* (CanonicalPr) and the reconciler of Linear issues (LinearTransitions).  *)
(*                                                                         *)
(* They share no row and call each other nowhere: to WorkerProcess the     *)
(* others are tasks of its timers, which may last, fail or be abandoned.   *)
(* A step of one is therefore no step of another, and a behaviour is       *)
(* followed in the service it is about.                                    *)
(***************************************************************************)
EXTENDS WorkerProcess, CanonicalPr, LinearTransitions

VARIABLE service    \* the service a behaviour is about

servicesVars == <<vars, prVars, linearVars, service>>

(* An issue that nobody follows has one initial state. *)
ServicesInit ==
    /\ Init /\ CanonicalInit /\ LinearInit
    /\ service \in {"attempts", "pull requests", "successors", "issues"}
    /\ service # "issues" => /\ issue.status = CHOOSE s \in Statuses : TRUE
                             /\ routing = CHOOSE c \in Configurations : TRUE

(* BOUND: while several publishers work, the session has one pull request;  *)
(* its successors are followed with one publisher at work at a time, whose  *)
(* predecessors left nothing but their claims and what they had sent, and   *)
(* people close or merge each of them once.                                 *)
OneEpoch == sync'.epoch <= 1
OneAtWork == Cardinality({p \in Publishers : pubs'[p].step # "idle"}) <= 1
OneChange == \A e \in Epochs : pull'[e].changes <= 1

ServicesNext ==
    /\ \/ /\ service = "attempts" /\ Next
          /\ UNCHANGED <<prVars, linearVars>>
       \/ /\ service = "pull requests" /\ CanonicalNext /\ OneEpoch
          /\ UNCHANGED <<vars, linearVars>>
       \/ /\ service = "successors" /\ CanonicalNext /\ OneAtWork /\ OneChange
          /\ UNCHANGED <<vars, linearVars>>
       \/ /\ service = "issues" /\ LinearNext
          /\ UNCHANGED <<vars, prVars>>
    /\ UNCHANGED service

ServicesSpec == ServicesInit /\ [][ServicesNext]_servicesVars

(* Every variable of the service that moves holds values of its type. *)
ServicesTypeOK ==
    CASE service = "attempts" -> TypeOK
      [] service = "issues" -> LinearTypeOK
      [] OTHER -> CanonicalTypeOK
=============================================================================
