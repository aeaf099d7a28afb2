--------------------------- MODULE LinearTransitions ---------------------------
(***************************************************************************)
(* How moves of a Linear issue reach the session linked to it: reconcilers *)
(* (reconcileLinearState, of worker processes and of maintenance ticks)    *)
(* read the session, the routing configuration and the issue, one after    *)
(* the other, and call apply_linear_session_transition with what they saw. *)
(*                                                                         *)
(* A move opens a span of the issue.  The private receipt of the session   *)
(* holds the span and the meaning that were consumed last.  What a         *)
(* transition does to the rows of a session is SessionLifecycle's Reroute, *)
(* Enqueue and Archive; here a session is what decides whether one of them *)
(* takes place, and every other change of it is LocalChange.               *)
(***************************************************************************)
EXTENDS Naturals, FiniteSets

CONSTANTS
    Reconcilers,
    Statuses,        \* states of the issue, each named by the route it maps to
                     \* ("todo" for what may start work, "in_review" for what
                     \* the reconciler only notes)
    Targets,         \* stages of the session that a route may name
    NoTarget,        \* no stage is configured
    Unselected,      \* the session does not run the configured stage
    Configurations,  \* what workspace_linear_routing may hold
    MaxSpans,        \* BOUND: spans of the issue
    MaxTime,         \* BOUND: instants of Linear's clock after the session began
    MaxRearms,       \* BOUND: changes of the meaning of a state
    MaxTouches       \* BOUND: other changes of the session

Routes == {"todo", "in_review", "rework", "merging", "done", "canceled"}

ASSUME LinearAssumption ==
    /\ Statuses \subseteq Routes /\ Statuses # {}
    /\ Targets # {} /\ NoTarget # Unselected /\ {NoTarget, Unselected} \cap Targets = {}
    /\ Configurations \subseteq [rework : Targets \cup {Unselected},
                                 land : Targets \cup {NoTarget, Unselected}]
    /\ MaxSpans \in Nat \ {0} /\ {MaxTime, MaxRearms, MaxTouches} \subseteq Nat

VARIABLES
    issue,      \* Linear: the open span, its state, and the issue's timestamps
    routing,    \* workspace_linear_routing: the stage of each routed state
    linked,     \* sessions: in progress or rejected (open), archived, exhausted,
                \* and whether a job of the session is active (working)
    receipt,    \* internal.session_linear_transition_receipts
    sweeps,     \* what each reconciler is at and has read
    acts,       \* history: the span of the last transition that changed the
                \* session's work, and a bit that each of them flips
    bounds      \* history: the spans whose meaning changed while they were open;
                \* for the bounds, how many such changes and local changes were made

linearVars == <<issue, routing, linked, receipt, sweeps, acts, bounds>>

IdleSweep == [step |-> "idle", fresh |-> FALSE, config |-> FALSE, saw |-> {}]
NoReceipt == [span |-> 0, started |-> 0, updated |-> 0, key |-> <<>>]

(* A session is created for an issue that is in its first span, at time 0.  *)
LinearInit ==
    /\ \E s \in Statuses :
          issue = [span |-> 1, status |-> s, started |-> 0, updated |-> 0]
    /\ routing \in Configurations
    /\ linked = [open |-> TRUE, archived |-> FALSE, exhausted |-> FALSE, working |-> TRUE]
    /\ receipt = NoReceipt
    /\ sweeps = [r \in Reconcilers |-> IdleSweep]
    /\ acts = [span |-> 0, flip |-> FALSE]
    /\ bounds = [rearmed |-> {}, rearms |-> 0, touches |-> 0]

-----------------------------------------------------------------------------
(* Linear, the configuration, and everybody else *)

(* Two moves may fall into one instant. *)
IssueMoves ==
    /\ issue.span < MaxSpans
    /\ \E s \in Statuses \ {issue.status},
          t \in {issue.updated, issue.updated + 1} \cap 0..MaxTime :
          issue' = [span |-> issue.span + 1, status |-> s, started |-> t, updated |-> t]
    /\ UNCHANGED <<routing, linked, receipt, sweeps, acts, bounds>>

IssueIsEdited ==
    /\ issue.updated < MaxTime
    /\ issue' = [issue EXCEPT !.updated = @ + 1]
    /\ UNCHANGED <<routing, linked, receipt, sweeps, acts, bounds>>

(* The open span may come to mean something else. *)
Rearmed == /\ bounds.rearms < MaxRearms
           /\ bounds' = [bounds EXCEPT !.rearms = @ + 1, !.rearmed = @ \cup {issue.span}]

(* A state is renamed: the same span, and no edit of the issue. *)
StateIsRenamed ==
    /\ Rearmed
    /\ \E s \in Statuses \ {issue.status} : issue' = [issue EXCEPT !.status = s]
    /\ UNCHANGED <<routing, linked, receipt, sweeps, acts>>

(* upsertLinearRoutingConfig *)
RoutingChanges ==
    /\ Rearmed
    /\ routing' \in Configurations \ {routing}
    /\ sweeps' = [r \in Reconcilers |-> [sweeps[r] EXCEPT !.config = FALSE]]
    /\ UNCHANGED <<issue, linked, receipt, acts>>

Sessions == [open : BOOLEAN, archived : BOOLEAN, exhausted : BOOLEAN, working : BOOLEAN]

(* Any update of the session ends the snapshots of it (updated_at). *)
Touched == sweeps' = [r \in Reconcilers |-> [sweeps[r] EXCEPT !.fresh = FALSE]]

LocalChange ==
    /\ bounds.touches < MaxTouches
    /\ bounds' = [bounds EXCEPT !.touches = @ + 1]
    /\ linked' \in {l \in Sessions : /\ l.archived => ~l.working
                                    /\ linked.exhausted => l.exhausted}
    /\ Touched
    /\ UNCHANGED <<issue, routing, receipt, acts>>

-----------------------------------------------------------------------------
(* apply_linear_session_transition *)

Target(status) == CASE status = "rework" -> routing.rework
                    [] status \in {"merging", "done"} -> routing.land
                    [] OTHER -> NoTarget
Key(o) == <<o.status, Target(o.status)>>
RoutesTo(o) == Target(o.status) \in Targets

(* mutant: a move at the instant of the one consumed is taken for a later one *)
BehindByTime(o) ==
    /\ receipt.span # 0
    /\ o.started < receipt.started \/ o.updated < receipt.updated

(* mutant: what is not newer than the receipt is rejected *)
BehindUnlessNewer(o) ==
    /\ receipt.span # 0
    /\ o.started < receipt.started \/ o.updated <= receipt.updated

(* The receipt rejects an older observation. *)
Behind(o) ==
    /\ receipt.span # 0
    /\ \/ o.started < receipt.started
       \/ o.updated < receipt.updated
       \/ /\ o.started = receipt.started /\ o.span # receipt.span
          /\ o.updated <= receipt.updated

(* Linear's Done may complete a session that was archived meanwhile. *)
Stale(r, o) ==
    \/ ~sweeps[r].config
    \/ (~sweeps[r].fresh \/ linked.archived) /\ ~(linked.archived /\ o.status = "done")
    \/ Behind(o)

Consumed(o) == receipt.span = o.span /\ receipt.key = Key(o)

(* What the issue asked for before the session was created is adopted.      *)
FirstSight(o) == receipt.span = 0 /\ o.started <= 0

MissesTarget(o) == Target(o.status) = Unselected /\ o.status # "done"
ContinuesWork(o) == o.status = "todo" /\ linked.open
EndsSession(o) == o.status = "canceled" \/ (o.status = "done" /\ ~RoutesTo(o))
NeedsWork(o) == ~FirstSight(o) /\ (RoutesTo(o) \/ ContinuesWork(o))

Record(o) == receipt' = [span |-> o.span, started |-> o.started,
                         updated |-> o.updated, key |-> Key(o)]
Acts(o) == acts' = [span |-> o.span, flip |-> ~acts.flip]
Returns(r) == [sweeps EXCEPT ![r] = IdleSweep]
ReturnsTouching(r) ==
    [q \in Reconcilers |-> IF q = r THEN IdleSweep ELSE [sweeps[q] EXCEPT !.fresh = FALSE]]

(* The budget, or the limit of repairs, admits no further work: the receipt *)
(* is consumed and the session keeps what it has.                           *)
Exhausts(r, o) ==
    /\ NeedsWork(o)
    /\ linked' = [linked EXCEPT !.exhausted = TRUE]
    /\ sweeps' = IF linked.exhausted THEN Returns(r) ELSE ReturnsTouching(r)
    /\ UNCHANGED acts

(* Completing what is archived already changes no work. *)
Archives(r, o) ==
    /\ EndsSession(o)
    /\ linked' = [linked EXCEPT !.archived = TRUE, !.working = FALSE,
                                !.open = @ /\ o.status # "done"]
    /\ sweeps' = ReturnsTouching(r)
    /\ IF linked.archived THEN UNCHANGED acts ELSE Acts(o)

RoutesSession(r, o) ==
    /\ ~FirstSight(o) /\ RoutesTo(o) /\ ~linked.exhausted
    /\ linked' = [linked EXCEPT !.open = TRUE, !.working = TRUE]
    /\ sweeps' = ReturnsTouching(r)
    /\ Acts(o)

(* An active job is returned as it is; a reservation touches the session.   *)
ContinuesSession(r, o) ==
    /\ ~FirstSight(o) /\ ContinuesWork(o) /\ ~linked.exhausted
    /\ IF linked.working
       THEN sweeps' = Returns(r) /\ UNCHANGED <<linked, acts>>
       ELSE /\ linked' = [linked EXCEPT !.working = TRUE]
            /\ sweeps' \in {Returns(r), ReturnsTouching(r)}
            /\ Acts(o)

Observes(r, o) ==
    /\ ~EndsSession(o) /\ ~NeedsWork(o)
    /\ sweeps' = Returns(r)
    /\ UNCHANGED <<linked, acts>>

Applies(r, o) ==
    IF Stale(r, o)
    THEN sweeps' = Returns(r) /\ UNCHANGED <<linked, receipt, acts>>
    ELSE IF Consumed(o)
    THEN /\ receipt' = [receipt EXCEPT !.updated = o.updated]
         /\ sweeps' = Returns(r) /\ UNCHANGED <<linked, acts>>
    ELSE IF MissesTarget(o) \/ (linked.archived /\ RoutesTo(o))
    THEN sweeps' = Returns(r) /\ UNCHANGED <<linked, receipt, acts>>
    ELSE /\ Record(o)
         /\ \/ Exhausts(r, o)
            \/ Archives(r, o)
            \/ RoutesSession(r, o)
            \/ ContinuesSession(r, o)
            \/ Observes(r, o)

-----------------------------------------------------------------------------
(* reconcileLinearState *)

ListSessions(r) ==
    /\ sweeps[r].step = "idle" /\ ~linked.archived
    /\ sweeps' = [sweeps EXCEPT ![r] = [IdleSweep EXCEPT !.step = "routing", !.fresh = TRUE]]
    /\ UNCHANGED <<issue, routing, linked, receipt, acts, bounds>>

LoadRouting(r) ==
    /\ sweeps[r].step = "routing"
    /\ sweeps' = [sweeps EXCEPT ![r].step = "observe", ![r].config = TRUE]
    /\ UNCHANGED <<issue, routing, linked, receipt, acts, bounds>>

(* One consistent reading of the issue (fetchLinearStateObservations). *)
ObserveIssue(r) ==
    /\ sweeps[r].step = "observe"
    /\ sweeps' = [sweeps EXCEPT ![r].step = "apply", ![r].saw = {issue}]
    /\ UNCHANGED <<issue, routing, linked, receipt, acts, bounds>>

(* A repair of an exhausted session is not submitted.  (Whether it was      *)
(* exhausted when it was listed makes no difference to a fresh snapshot,    *)
(* and a stale one has no effect.)                                          *)
Transition(r) ==
    /\ sweeps[r].step = "apply"
    /\ \E o \in sweeps[r].saw :
          IF linked.exhausted /\ (o.status = "rework" \/ ContinuesWork(o))
          THEN sweeps' = Returns(r) /\ UNCHANGED <<linked, receipt, acts>>
          ELSE Applies(r, o)
    /\ UNCHANGED <<issue, routing, bounds>>

(* Rate limits, errors of any call, an inconsistent history, a lost process *)
SweepFails(r) ==
    /\ sweeps[r].step # "idle"
    /\ sweeps' = Returns(r)
    /\ UNCHANGED <<issue, routing, linked, receipt, acts, bounds>>

Reconciles(r) == \/ ListSessions(r) \/ LoadRouting(r) \/ ObserveIssue(r)
                 \/ Transition(r) \/ SweepFails(r)

OthersMove == \/ IssueMoves \/ IssueIsEdited \/ StateIsRenamed \/ RoutingChanges
              \/ LocalChange

LinearNext == OthersMove \/ \E r \in Reconcilers : Reconciles(r)

LinearSpec == LinearInit /\ [][LinearNext]_linearVars

-----------------------------------------------------------------------------
(* Properties *)

Times == 0..MaxTime
Issues == [span : 1..MaxSpans, status : Statuses, started : Times, updated : Times]

(* Every variable holds values of its type, and who has observed the issue  *)
(* has read everything else.                                                *)
LinearTypeOK ==
    /\ issue \in Issues /\ routing \in Configurations
    /\ linked \in Sessions
    /\ \/ receipt = NoReceipt
       \/ /\ receipt.span \in 1..issue.span
          /\ receipt.started \in Times /\ receipt.updated \in receipt.started..issue.updated
          /\ receipt.key[1] \in Statuses /\ receipt.key[2] \in Targets \cup {NoTarget, Unselected}
    /\ \A r \in Reconcilers :
          /\ sweeps[r].saw \subseteq Issues
          /\ sweeps[r].step = "apply" <=> sweeps[r].saw # {}
    /\ acts.span \in 0..issue.span /\ bounds.rearmed \subseteq 1..issue.span

(* However late, stale or repeated the readings of concurrent reconcilers   *)
(* are, a session follows the moves of its issue forward (the receipt, by   *)
(* the order of moves and not of timestamps), a move changes its work once, *)
(* unless the meaning of the move changed while it was open, and what the   *)
(* issue asked for before the session existed starts no work.               *)
MovesActOnce ==
    [][/\ receipt'.span >= receipt.span
       /\ acts'.flip # acts.flip =>
             /\ acts'.span = receipt'.span
             /\ acts'.span > acts.span \/ acts'.span \in bounds.rearmed
             /\ acts'.span = 1 => linked'.archived \/ receipt.span = 1
      ]_linearVars

(* What is left open on purpose: a stage the session does not run, work the *)
(* budget refuses, and a move at the very instant that was consumed, which  *)
(* waits for the issue's next edit.                                         *)
LeftOpen ==
    \/ MissesTarget(issue)
    \/ linked.exhausted /\ (issue.status = "rework" \/ ContinuesWork(issue))
    \/ issue.span # receipt.span /\ Behind(issue)

(* When people leave issue, configuration and session alone, the session's  *)
(* receipt comes to the issue's open span in its present meaning.           *)
IssueIsFollowed ==
    <>[][\E r \in Reconcilers : Reconciles(r)]_linearVars =>
        <>[](linked.archived \/ Consumed(issue) \/ LeftOpen)
=============================================================================
