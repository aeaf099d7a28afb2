------------------------------ MODULE CanonicalPr ------------------------------
(***************************************************************************)
(* The pull request of a session.  Every accepted checkpoint asks for a    *)
(* publication; an operation of the current epoch moves the epoch's branch *)
(* and its fence to the checkpoint, and the first one creates the pull     *)
(* request.  Publishers claim operations under a lease, work on GitHub     *)
(* without a lock, and report what they read there; webhooks report too.   *)
(*                                                                         *)
(* A push or POST that was sent may take effect at any later time or never, *)
(* whatever became of its sender: a sender that is about to send after it  *)
(* lost its claim is a sender whose request was slow.  Calls that only     *)
(* read are joined to the step that uses what they read, unless something  *)
(* has to happen in between.  Time is abstract: leases lapse and retries   *)
(* are due at any moment.  A session that is archived, in a workspace that *)
(* is deleted or under a release that was withdrawn is refused everything  *)
(* a lapsed claim is refused, and claimed by nobody: to a publisher it is  *)
(* a session whose claim lapsed and is not taken over.                     *)
(***************************************************************************)
EXTENDS Integers, FiniteSets

CONSTANTS
    Publishers,     \* concurrent runs of drainCanonicalPullRequests
    Hooks,          \* concurrent pull_request webhooks
    NoToken,        \* SQL null
    MaxGenerations, \* BOUND: checkpoints accepted for the session
    MaxEpochs,      \* BOUND: epochs of the session
    MaxOperations,  \* BOUND: operations of all its epochs
    MaxChanges      \* BOUND: times people close, merge or reopen a pull request

ASSUME CanonicalAssumption ==
    /\ {MaxGenerations, MaxEpochs, MaxOperations, MaxChanges} \subseteq Nat \ {0}
    /\ NoToken \notin Publishers \cup Hooks
    /\ Publishers \cap Hooks = {}

VARIABLES
    sync,       \* the session_pr_sync row
    epochs,     \* session_pr_epochs, by their number
    ops,        \* session_pr_operations, in the order of their creation
    remote,     \* GitHub: branch and fence of each epoch
    pull,       \* GitHub: the pull request of each epoch
    unheard,    \* epochs whose pull request changed since the last webhook
    sent,       \* pushes and POSTs that may still take effect
    pubs,       \* the publishers
    hooks       \* the webhooks

prRows == <<sync, epochs, ops>>
prGitHub == <<remote, pull, unheard, sent>>
prVars == <<prRows, prGitHub, pubs, hooks>>

-----------------------------------------------------------------------------
Generations == 1..MaxGenerations
Epochs == 1..MaxEpochs
Operations == 1..MaxOperations
Foreign == MaxGenerations + 1       \* a commit somebody else pushed

PrStates == {"none", "open", "closed", "merged"}
Terminal == {"closed", "merged"}
Unresolved == {"pending", "claimed"}

NoEpoch == [pinned |-> FALSE, state |-> "none", armed |-> FALSE, ack |-> 0,
            token |-> NoToken]
NoOperation == [status |-> "absent", epoch |-> 1, gen |-> 1, expects |-> 0,
                by |-> NoToken, lapsed |-> FALSE]
IdlePublisher == [step |-> "idle", op |-> 0, pr |-> "none", head |-> 0,
                  promoted |-> FALSE, why |-> "-"]
IdleHook == [step |-> "idle", epoch |-> 1, pr |-> "none"]

PublisherSteps == {"idle", "look", "promote", "reread", "confirm",
                   "arm", "post", "answer", "reserve", "observe", "finish", "fail"}

CanonicalInit ==
    /\ sync = [status |-> "absent", gen |-> 0, epoch |-> 0]
    /\ epochs = [e \in Epochs |-> NoEpoch]
    /\ ops = [o \in Operations |-> NoOperation]
    /\ remote = [e \in Epochs |-> [head |-> 0, fence |-> 0]]
    /\ pull = [e \in Epochs |-> [state |-> "none", made |-> 0, changes |-> 0]]
    /\ unheard = {} /\ sent = {}
    /\ pubs = [p \in Publishers |-> IdlePublisher]
    /\ hooks = [h \in Hooks |-> IdleHook]

(* The fence commit carries the operation's id: no two operations desire    *)
(* the same pair.                                                           *)
PairOf(o) == IF o = 0 THEN [head |-> 0, fence |-> 0]
             ELSE [head |-> ops[o].gen, fence |-> o]
EpochOf(p) == ops[pubs[p].op].epoch
PushOf(o) == [kind |-> "push", of |-> o]
PostOf(p) == [kind |-> "post", of |-> EpochOf(p)]

(* assert_session_pr_sync_claim *)
ClaimHolds(p) ==
    LET o == ops[pubs[p].op]
    IN  /\ o.status = "claimed" /\ o.by = p /\ ~o.lapsed
        /\ sync.epoch = o.epoch /\ epochs[o.epoch].state \notin Terminal

-----------------------------------------------------------------------------
(* The session's side *)

UnlessTerminal(e, open) == IF epochs[e].state \in Terminal THEN "successor_required" ELSE open

(* enqueue_session_pr_sync, the trigger on the session's Git head. *)
Enqueue ==
    /\ sync.gen < MaxGenerations
    /\ sync' = [sync EXCEPT !.gen = @ + 1,
                  !.status = IF sync.epoch = 0 THEN "pending"
                             ELSE UnlessTerminal(sync.epoch, "pending")]
    /\ UNCHANGED <<epochs, ops, prGitHub, pubs, hooks>>

(* authorize_session_pr_successor *)
AuthorizeSuccessor ==
    /\ sync.epoch \in 1..(MaxEpochs - 1)
    /\ epochs[sync.epoch].state \in Terminal
    /\ sync' = [sync EXCEPT !.epoch = @ + 1, !.status = "pending"]
    /\ UNCHANGED <<epochs, ops, prGitHub, pubs, hooks>>

LeaseOfOperationLapses(o) ==
    /\ ops[o].status = "claimed" /\ ~ops[o].lapsed
    /\ ops' = [ops EXCEPT ![o].lapsed = TRUE]
    /\ UNCHANGED <<sync, epochs, prGitHub, pubs, hooks>>

-----------------------------------------------------------------------------
(* The publisher *)

Continues(p, step) == pubs' = [pubs EXCEPT ![p].step = step]
Throws(p, why) == pubs' = [pubs EXCEPT ![p] = [IdlePublisher EXCEPT
                             !.step = "fail", !.op = pubs[p].op, !.why = why]]
PublisherEnds(p) == pubs' = [pubs EXCEPT ![p] = IdlePublisher]

UnresolvedOps(e) == {o \in Operations : ops[o].epoch = e /\ ops[o].status \in Unresolved}
FreshOps == {o \in Operations : /\ ops[o].status = "absent"
                                /\ \A older \in 1..(o - 1) : ops[older].status # "absent"}

(* The claim of an operation that is over is not looked at again. *)
Released(row, status) == [row EXCEPT !.status = status, !.by = NoToken, !.lapsed = FALSE]
Claimed(p, o) == [ops EXCEPT ![o].status = "claimed", ![o].by = p, ![o].lapsed = FALSE]

(* claim_session_pr_sync: the first claim creates the epoch; the epoch's    *)
(* unresolved operation is taken over, and only without one a new operation *)
(* is pinned to what the session wants and what GitHub was seen to hold.    *)
ClaimSync(p) ==
    LET e == IF sync.epoch = 0 THEN 1 ELSE sync.epoch
    IN  /\ pubs[p].step = "idle"
        /\ sync.status \in {"pending", "error"}
        /\ IF epochs[e].state \in Terminal
           THEN /\ sync' = [sync EXCEPT !.status = "successor_required"]
                /\ UNCHANGED <<ops, pubs>>
           ELSE /\ sync' = [sync EXCEPT !.epoch = e]
                /\ \/ \E o \in UnresolvedOps(e) :
                         /\ ops[o].status = "pending" \/ ops[o].lapsed
                         /\ ops' = Claimed(p, o)
                         /\ pubs' = [pubs EXCEPT ![p].step = "look", ![p].op = o]
                   \/ /\ UnresolvedOps(e) = {}
                      /\ \E o \in FreshOps :
                            /\ ops' = [ops EXCEPT ![o] =
                                  [status |-> "claimed", by |-> p, lapsed |-> FALSE,
                                   epoch |-> e, gen |-> sync.gen,
                                   expects |-> epochs[e].ack]]
                            /\ pubs' = [pubs EXCEPT ![p].step = "look", ![p].op = o]
        /\ UNCHANGED <<epochs, prGitHub, hooks>>

(* The claim is checked and the pull request looked up: by its number once  *)
(* that is pinned, by its branch before.                                    *)
LookUp(p) ==
    /\ pubs[p].step = "look"
    /\ IF ClaimHolds(p)
       THEN LET pr == pull[EpochOf(p)].state
            IN  pubs' = [pubs EXCEPT ![p].pr = pr,
                           ![p].step = IF pr \in Terminal THEN "reserve" ELSE "promote"]
       ELSE Throws(p, "error")
    /\ UNCHANGED <<prRows, prGitHub, hooks>>

(* What the remote pair means, before a push and after it. *)
Judge(p, otherwise, ifExpected) ==
    LET o == pubs[p].op
    IN  CASE remote[EpochOf(p)] = PairOf(o) -> Continues(p, "confirm") /\ otherwise
          [] remote[EpochOf(p)] = PairOf(ops[o].expects) -> ifExpected
          [] OTHER -> Throws(p, "conflict") /\ otherwise

(* What is not there yet is pushed, after beforePush; a pull request found   *)
(* terminal is reported instead.                                            *)
PromoteRefs(p) ==
    LET pr == IF pubs[p].pr = "none" THEN "none" ELSE pull[EpochOf(p)].state
        push == \/ ~ClaimHolds(p) /\ Throws(p, "error") /\ UNCHANGED sent
                \/ /\ ClaimHolds(p) /\ pr \in Terminal /\ UNCHANGED sent
                   /\ pubs' = [pubs EXCEPT ![p].pr = pr, ![p].step = "reserve"]
                \/ /\ ClaimHolds(p) /\ pr \notin Terminal
                   /\ sent' = sent \cup {PushOf(pubs[p].op)}
                   /\ Continues(p, "reread")
    IN  /\ pubs[p].step = "promote"
        /\ Judge(p, UNCHANGED sent, push)
        /\ UNCHANGED <<prRows, remote, pull, unheard, hooks>>

(* Answered or not, both refs are read again. *)
RereadRemote(p) ==
    /\ pubs[p].step = "reread"
    /\ Judge(p, TRUE, Throws(p, "error"))
    /\ UNCHANGED <<prRows, prGitHub, hooks>>

ConfirmPromotion(p) ==
    /\ pubs[p].step = "confirm"
    /\ IF ClaimHolds(p)
       THEN LET pr == IF pubs[p].pr = "none" THEN pull[EpochOf(p)].state ELSE pubs[p].pr
            IN  pubs' = [pubs EXCEPT ![p].promoted = TRUE, ![p].pr = pr,
                           ![p].step = IF pr = "none" THEN "arm" ELSE "reserve"]
       ELSE Throws(p, "error")
    /\ UNCHANGED <<prRows, prGitHub, hooks>>

(* mutant: an epoch is armed as often as it is asked for *)
AlwaysArmable(e) == ~epochs[e].pinned

Armable(e) == ~epochs[e].armed /\ ~epochs[e].pinned /\ epochs[e].state = "none"

(* arm_session_pr_creation.  An epoch armed before may have its pull        *)
(* request already: the publisher gives up and does not POST again.         *)
ArmCreation(p) ==
    LET e == EpochOf(p)
    IN  /\ pubs[p].step = "arm"
        /\ IF ClaimHolds(p) /\ Armable(e)
           THEN /\ epochs' = [epochs EXCEPT ![e].armed = TRUE]
                /\ Continues(p, "post")
           ELSE Throws(p, "error") /\ UNCHANGED epochs
        /\ UNCHANGED <<sync, ops, prGitHub, hooks>>

SendPost(p) ==
    /\ pubs[p].step = "post"
    /\ IF ClaimHolds(p)
       THEN sent' = sent \cup {PostOf(p)} /\ Continues(p, "answer")
       ELSE Throws(p, "error") /\ UNCHANGED sent
    /\ UNCHANGED <<prRows, remote, pull, unheard, hooks>>

Found(p) == pubs' = [pubs EXCEPT ![p].pr = pull[EpochOf(p)].state, ![p].step = "reserve"]

(* The answer: 201; a rejection that proves nothing was created; or neither *)
(* of the two.  What failed is looked up again before it counts as failed.  *)
AnswerPost(p) ==
    LET none == pull[EpochOf(p)].state = "none"
    IN  /\ pubs[p].step = "answer"
        /\ \/ ~none /\ Found(p) /\ UNCHANGED sent
           \/ /\ PostOf(p) \in sent /\ sent' = sent \ {PostOf(p)}
              /\ IF none THEN Throws(p, "rejected") ELSE Throws(p, "rejected") \/ Found(p)
           \/ Throws(p, "error") /\ UNCHANGED sent
        /\ UNCHANGED <<prRows, remote, pull, unheard, hooks>>

(* begin_session_pr_sync_observation pins the pull request and reserves the *)
(* observation before the GET that will be reported.                        *)
ReserveObservation(p) ==
    /\ pubs[p].step = "reserve"
    /\ IF ClaimHolds(p)
       THEN /\ epochs' = [epochs EXCEPT ![EpochOf(p)].pinned = TRUE,
                                        ![EpochOf(p)].token = p]
            /\ sync' = [sync EXCEPT !.status = "pending"]
            /\ Continues(p, "observe")
       ELSE Throws(p, "error") /\ UNCHANGED <<sync, epochs>>
    /\ UNCHANGED <<ops, prGitHub, hooks>>

(* A pull request once seen terminal stays so for this publisher. *)
ObservePull(p) ==
    /\ pubs[p].step = "observe"
    /\ pubs' = [pubs EXCEPT ![p].step = "finish", ![p].head = remote[EpochOf(p)].head,
                  ![p].pr = IF @ = "open" THEN pull[EpochOf(p)].state ELSE @]
    /\ UNCHANGED <<prRows, prGitHub, hooks>>

(* mutant: a receipt counts although a later observation was begun *)
AnyToken(e, actor) == TRUE

TokenHolds(e, actor) == epochs[e].token = actor

SyncAfter(p) ==
    LET gen == ops[pubs[p].op].gen
    IN  IF pubs[p].pr \in Terminal THEN "successor_required"
        ELSE IF pubs[p].head # gen THEN "conflict"
        ELSE IF sync.gen = gen THEN "synced" ELSE "pending"

(* finish_session_pr_sync *)
Receipt(p) ==
    LET e == EpochOf(p) over == pubs[p].pr \in Terminal
    IN  /\ epochs' = [epochs EXCEPT ![e].state = pubs[p].pr, ![e].token = NoToken,
                                    ![e].ack = IF over THEN @ ELSE pubs[p].op]
        /\ ops' = [ops EXCEPT ![pubs[p].op] =
                      Released(@, IF over THEN "terminal" ELSE "succeeded")]
        /\ sync' = [sync EXCEPT !.status = SyncAfter(p)]

(* The reply may be lost; failing the operation then finds it receipted. *)
FinishSync(p) ==
    LET accepted == /\ ClaimHolds(p) /\ TokenHolds(EpochOf(p), p)
                    /\ pubs[p].pr \in Terminal \/ pubs[p].promoted
    IN  /\ pubs[p].step = "finish"
        /\ \/ accepted /\ Receipt(p) /\ (PublisherEnds(p) \/ Throws(p, "error"))
           \/ ~accepted /\ Throws(p, "error") /\ UNCHANGED <<sync, epochs, ops>>
        /\ UNCHANGED <<prGitHub, hooks>>

(* fail_session_pr_sync *)
FailSync(p) ==
    LET conflict == pubs[p].why = "conflict"
        e == EpochOf(p)
    IN  /\ pubs[p].step = "fail"
        /\ IF ClaimHolds(p)
           THEN /\ ops' = [ops EXCEPT ![pubs[p].op] =
                             Released(@, IF conflict THEN "conflict" ELSE "pending")]
                /\ sync' = [sync EXCEPT !.status = IF conflict THEN "conflict" ELSE "error"]
                /\ epochs' = IF /\ pubs[p].why = "rejected"
                                /\ ~epochs[e].pinned /\ epochs[e].state = "none"
                             THEN [epochs EXCEPT ![e].armed = FALSE] ELSE epochs
           ELSE UNCHANGED <<sync, epochs, ops>>
        /\ PublisherEnds(p)
        /\ UNCHANGED <<prGitHub, hooks>>

(* A call fails, which the publisher reports; or the run is aborted, or its *)
(* process dies, and nobody reports it.                                     *)
CallFails(p) ==
    /\ pubs[p].step \notin {"idle", "fail"}
    /\ Throws(p, "error")
    /\ UNCHANGED <<prRows, prGitHub, hooks>>

PublisherDies(p) ==
    /\ pubs[p].step # "idle"
    /\ PublisherEnds(p)
    /\ UNCHANGED <<prRows, prGitHub, hooks>>

-----------------------------------------------------------------------------
(* GitHub, and the people who use it *)

(* --atomic --force-with-lease: both refs are as the operation expects. *)
PushAllowed(o) == remote[ops[o].epoch] = PairOf(ops[o].expects)

PushLands(o) ==
    /\ PushOf(o) \in sent /\ sent' = sent \ {PushOf(o)}
    /\ remote' = IF PushAllowed(o) THEN [remote EXCEPT ![ops[o].epoch] = PairOf(o)]
                 ELSE remote
    /\ UNCHANGED <<prRows, pull, unheard, pubs, hooks>>

(* A branch has at most one open pull request. *)
PostLands ==
    /\ \E m \in sent :
          /\ m.kind = "post" /\ sent' = sent \ {m}
          /\ pull' = IF pull[m.of].state = "open" THEN pull
                     ELSE [pull EXCEPT ![m.of].state = "open", ![m.of].made = @ + 1]
    /\ UNCHANGED <<prRows, remote, unheard, pubs, hooks>>

PersonChanges(e) ==
    /\ pull[e].changes < MaxChanges
    /\ \E s \in PrStates \ {"none"} :
          /\ \/ pull[e].state = "open" /\ s \in Terminal
             \/ pull[e].state = "closed" /\ s = "open"
          /\ pull' = [pull EXCEPT ![e].state = s, ![e].changes = @ + 1]
    /\ unheard' = unheard \cup {e}
    /\ UNCHANGED <<prRows, remote, sent, pubs, hooks>>

PersonPushes(e) ==
    /\ remote[e].head \notin {0, Foreign}
    /\ remote' = [remote EXCEPT ![e].head = Foreign]
    /\ UNCHANGED <<prRows, pull, unheard, sent, pubs, hooks>>

-----------------------------------------------------------------------------
(* The webhook.  One that comes before the pull request is pinned, or never *)
(* comes, leaves nothing behind.                                            *)

HookEnds(h) == hooks' = [hooks EXCEPT ![h] = IdleHook]

BeginObservation(h) ==
    /\ hooks[h].step = "idle"
    /\ \E e \in unheard :
          /\ unheard' = unheard \ {e}
          /\ IF epochs[e].pinned
             THEN /\ epochs' = [epochs EXCEPT ![e].token = h]
                  /\ sync' = IF sync.epoch = e
                             THEN [sync EXCEPT !.status = UnlessTerminal(e, "pending")] ELSE sync
                  /\ hooks' = [hooks EXCEPT ![h] = [IdleHook EXCEPT !.step = "get",
                                                                    !.epoch = e]]
             ELSE UNCHANGED <<sync, epochs, hooks>>
    /\ UNCHANGED <<ops, remote, pull, sent, pubs>>

HookReads(h) ==
    /\ hooks[h].step = "get"
    /\ hooks' = [hooks EXCEPT ![h].step = "finish", ![h].pr = pull[hooks[h].epoch].state]
    /\ UNCHANGED <<prRows, prGitHub, pubs>>

Regresses(from, to) == \/ from = "merged" /\ to # "merged"
                       \/ from = "closed" /\ to = "open"

(* finish_session_pr_observation; a pull request seen terminal ends the     *)
(* epoch's operation too.                                                   *)
FinishObservation(h) ==
    LET e == hooks[h].epoch pr == hooks[h].pr
    IN  /\ hooks[h].step = "finish"
        /\ IF TokenHolds(e, h) /\ ~Regresses(epochs[e].state, pr)
           THEN /\ epochs' = [epochs EXCEPT ![e].state = pr, ![e].token = NoToken]
                /\ sync' = IF sync.epoch # e THEN sync
                           ELSE [sync EXCEPT !.status = IF pr \in Terminal
                                   THEN "successor_required" ELSE "pending"]
                /\ ops' = [o \in Operations |->
                             IF pr \in Terminal /\ o \in UnresolvedOps(e)
                             THEN Released(ops[o], "terminal") ELSE ops[o]]
           ELSE UNCHANGED <<sync, epochs, ops>>
        /\ HookEnds(h)
        /\ UNCHANGED <<prGitHub, pubs>>

HookFails(h) ==
    /\ hooks[h].step # "idle"
    /\ HookEnds(h)
    /\ UNCHANGED <<prRows, prGitHub, pubs>>

-----------------------------------------------------------------------------
PublisherStep(p) ==
    \/ ClaimSync(p) \/ LookUp(p) \/ PromoteRefs(p) \/ RereadRemote(p)
    \/ ConfirmPromotion(p) \/ ArmCreation(p) \/ SendPost(p) \/ AnswerPost(p)
    \/ ReserveObservation(p) \/ ObservePull(p) \/ FinishSync(p) \/ FailSync(p)
    \/ CallFails(p) \/ PublisherDies(p)
HookStep(h) == \/ BeginObservation(h) \/ HookReads(h) \/ FinishObservation(h) \/ HookFails(h)

CanonicalNext ==
    \/ Enqueue \/ AuthorizeSuccessor \/ PostLands
    \/ \E p \in Publishers : PublisherStep(p)
    \/ \E h \in Hooks : HookStep(h)
    \/ \E o \in Operations : LeaseOfOperationLapses(o) \/ PushLands(o)
    \/ \E e \in Epochs : PersonChanges(e) \/ PersonPushes(e)

CanonicalSpec == CanonicalInit /\ [][CanonicalNext]_prVars

-----------------------------------------------------------------------------
(* Properties *)

(* Every variable holds values of its type. *)
CanonicalTypeOK ==
    /\ sync \in [status : {"absent", "pending", "synced", "conflict", "error",
                           "successor_required"},
                 gen : 0..MaxGenerations, epoch : 0..MaxEpochs]
    /\ epochs \in [Epochs -> [pinned : BOOLEAN, state : PrStates, armed : BOOLEAN,
                              ack : 0..MaxOperations,
                              token : Publishers \cup Hooks \cup {NoToken}]]
    /\ ops \in [Operations -> [status : {"absent", "pending", "claimed", "succeeded",
                                         "terminal", "conflict"},
                               epoch : Epochs, gen : Generations,
                               expects : 0..MaxOperations,
                               by : Publishers \cup {NoToken}, lapsed : BOOLEAN]]
    /\ remote \in [Epochs -> [head : 0..Foreign, fence : 0..MaxOperations]]
    /\ pull \in [Epochs -> [state : PrStates, made : Nat, changes : 0..MaxChanges]]
    /\ unheard \subseteq Epochs
    /\ \A m \in sent : \/ m.kind = "push" /\ m.of \in Operations
                       \/ m.kind = "post" /\ m.of \in Epochs
    /\ pubs \in [Publishers -> [step : PublisherSteps, op : 0..MaxOperations,
                                pr : PrStates, head : 0..Foreign, promoted : BOOLEAN,
                                why : {"-", "error", "conflict", "rejected"}]]
    /\ hooks \in [Hooks -> [step : {"idle", "get", "finish"}, epoch : Epochs,
                            pr : PrStates]]

(* Whatever requests are lost or late and whoever took a claim over: the    *)
(* refs of an epoch pass through its operations in their order and are not  *)
(* moved once somebody else has pushed, and a second pull request is never  *)
(* created for an epoch, not even when the first one was closed.            *)
PublicationMovesForward ==
    [][\A e \in Epochs :
          /\ remote'[e].fence >= remote[e].fence
          /\ remote[e].head = Foreign => remote'[e] = remote[e]
          /\ pull'[e].made <= 1
      ]_prVars

(* A session counts as synchronised only while its newest checkpoint is the *)
(* one acknowledged, and no webhook that arrived since has told that the    *)
(* pull request is not open any more.                                       *)
SyncedIsHeard ==
    sync.status = "synced" =>
        LET e == sync.epoch
        IN  /\ e # 0 /\ epochs[e].state = "open" /\ epochs[e].token = NoToken
            /\ epochs[e].ack # 0 /\ ops[epochs[e].ack].gen = sync.gen
            /\ pull[e].state # "open" => e \in unheard
=============================================================================
