-------------------------- MODULE SessionRecordsProofs --------------------------
(***************************************************************************)
(* What the records of a session say: which artifact is under review, what *)
(* the completions of its stages stand for, that an exhausted budget stops *)
(* execution, and that the claims and the repairs of its jobs add up.      *)
(***************************************************************************)
EXTENDS SessionOwnershipProofs, FiniteSetTheorems

-----------------------------------------------------------------------------
(* Reviews and completions: the inductive invariant *)

(* A published run, and only such a run (OnlyPublishedVersioned), has a     *)
(* version; only what has one is ever withdrawn.                            *)
PublishedVersioned ==
    \A r \in Runs : runs[r].status = "success" => runs[r].version > 0
WithdrawnWasPublished == \A r \in invalidated : runs[r].status = "success"

ReviewInv == /\ PublishedVersioned /\ WithdrawnWasPublished
             /\ ReviewedIsLatest /\ VersionsNameArtifacts
             /\ CompletionsAreCurrent

(* A step that decides nothing about a stage: what was completed or         *)
(* withdrawn stays, and what is under review was so before.                 *)
SameReview(s, t) == /\ SameSession(s, t)
                    /\ t.version = s.version /\ t.artifact = s.artifact
DecisionsStand ==
    /\ UNCHANGED <<completed, invalidated>>
    /\ session'.stage = session.stage
    /\ session.phase = "approved" => session'.phase = "approved"
    /\ session'.phase = "awaiting_review" =>
          /\ session.phase = "awaiting_review"
          /\ session'.version = session.version
          /\ session'.artifact = session.artifact

(* Published runs stay as they are, and no other gets a version.            *)
LEMMA PublishedRunsStand ==
    ASSUME TypeInv, ReviewInv, RunHistoryKept
    PROVE  /\ PublishedVersioned' /\ VersionsNameArtifacts' /\ PublishedKept
           /\ \A r \in Runs : runs'[r].version > 0 => runs'[r] = runs[r]
<1>1. \A r \in Runs : runs'[r].version > 0 => runs'[r] = runs[r]
  BY DEF RunHistoryKept
<1>2. PublishedVersioned'
  BY DEF RunHistoryKept, ReviewInv, PublishedVersioned
<1>3. VersionsNameArtifacts'
  <2> SUFFICES ASSUME NEW p \in Runs, NEW q \in Runs, runs'[p].version > 0,
                      runs'[p].stage = runs'[q].stage,
                      runs'[p].version = runs'[q].version
               PROVE  p = q
    BY DEF VersionsNameArtifacts
  <2>1. runs'[p] = runs[p] /\ runs'[q] = runs[q]
    BY <1>1
  <2> QED
    BY <2>1 DEF ReviewInv, VersionsNameArtifacts
<1>4. PublishedKept
  BY DEF RunHistoryKept, PublishedKept
<1> QED
  BY <1>1, <1>2, <1>3, <1>4

LEMMA StandingReview ==
    ASSUME TypeInv, ReviewInv, RunHistoryKept, DecisionsStand
    PROVE  ReviewInv'
<1>1. /\ PublishedVersioned' /\ VersionsNameArtifacts' /\ PublishedKept
      /\ \A r \in Runs : runs'[r].version > 0 => runs'[r] = runs[r]
  BY PublishedRunsStand
<1>2. invalidated \subseteq Runs /\ completed \in [Stages -> Runs \cup {None}]
  BY DEF TypeInv, TypeOK
<1>3. WithdrawnWasPublished'
  BY <1>1, <1>2 DEF ReviewInv, WithdrawnWasPublished, DecisionsStand, PublishedKept
<1>4. ReviewedIsLatest'
  <2> SUFFICES ASSUME session'.phase = "awaiting_review" PROVE ReviewedIsLatest'
    BY DEF ReviewedIsLatest
  <2> DEFINE a == session.artifact
  <2>1. /\ a \in Runs \ invalidated /\ runs[a].status = "success"
        /\ runs[a].stage = session.stage /\ runs[a].version = session.version
        /\ \A r \in Runs : runs[r].stage = session.stage =>
                                runs[r].version <= session.version
    BY DEF ReviewInv, ReviewedIsLatest, DecisionsStand
  <2>2. /\ session'.artifact = a /\ session'.stage = session.stage
        /\ session'.version = session.version /\ UNCHANGED invalidated
    BY DEF DecisionsStand
  <2>3. runs'[a] = runs[a]
    BY <1>1, <2>1 DEF PublishedKept
  <2>4. session.version \in Nat /\ \A r \in Runs : runs[r].version \in Nat
    BY DEF TypeInv, TypeOK, SessionRows, RunRows
  <2>5. \A r \in Runs : runs'[r] = runs[r] \/ runs'[r].version = 0
    BY DEF RunHistoryKept
  <2>6. \A r \in Runs : runs'[r].stage = session.stage =>
                            runs'[r].version <= session.version
    BY <2>1, <2>4, <2>5
  <2> QED
    BY <2>1, <2>2, <2>3, <2>6 DEF ReviewedIsLatest
<1>5. CompletionsAreCurrent'
  BY <1>1, <1>2 DEF ReviewInv, CompletionsAreCurrent, DecisionsStand, PublishedKept
<1> QED
  BY <1>1, <1>3, <1>4, <1>5 DEF ReviewInv

(* The budget's operators touch neither the review nor the stage.           *)
LEMMA BudgetKeepsReview ==
    ASSUME NEW s \in SessionRows
    PROVE  /\ \A t \in RefreshOutcomes(s) : SameReview(s, t)
           /\ \A code \in ExhaustionCodes : SameReview(s, Exhaust(s, code))
           /\ SameReview(s, Reserve(s))
           /\ \A repair \in BOOLEAN : SameReview(s, AfterInsert(s, repair))
<1> USE DEF SameReview, SameSession, SessionRows
<1>1. \A code : SameReview(s, Exhaust(s, code))
  BY DEF Exhaust
<1>2. \A t \in RefreshOutcomes(s) : SameReview(s, t)
  BY <1>1 DEF RefreshOutcomes
<1>3. SameReview(s, Reserve(s))
  BY <1>1 DEF Reserve
<1>4. \A repair \in BOOLEAN : SameReview(s, AfterInsert(s, repair))
  BY <1>3 DEF AfterInsert
<1> QED
  BY <1>1, <1>2, <1>3, <1>4

-----------------------------------------------------------------------------
(* Steps that decide nothing *)

LEMMA WorkerStands ==
    ASSUME TypeInv, NEW j \in Jobs, NEW n \in ClaimNumbers,
           \/ Claim(j) \/ Defer(j, n)
           \/ \E r \in Runs : Complete(j, n, r)
           \/ \E st \in Stages, v \in VersionNumbers, r \in Runs : Start(j, n, st, v, r)
           \/ \E r \in Runs \cup {None}, retry \in BOOLEAN : Fail(j, n, r, retry)
    PROVE  DecisionsStand
<1>1. session \in SessionRows
  BY DEF TypeInv, TypeOK
<1>2. CASE Claim(j) \/ Defer(j, n) \/ \E r \in Runs : Complete(j, n, r)
  BY <1>2 DEF Claim, Defer, Complete, DecisionsStand
<1>3. ASSUME NEW st \in Stages, NEW v \in VersionNumbers, NEW r \in Runs,
             Start(j, n, st, v, r)
      PROVE  DecisionsStand
  <2>1. PICK s \in RefreshOutcomes(session) :
          \/ session' = s
          \/ StartAllowed(j, n, st, v) /\ session' = [s EXCEPT !.phase = "in_progress"]
    BY <1>3 DEF Start
  <2>2. s \in SessionRows /\ SameReview(session, s)
    BY <1>1, <2>1, BudgetKeepsRow, BudgetKeepsReview
  <2> QED
    BY <1>3, <2>1, <2>2
       DEF Start, StartAllowed, SameReview, SameSession, SessionRows, DecisionsStand
<1>4. ASSUME NEW r \in Runs \cup {None}, NEW retry \in BOOLEAN, Fail(j, n, r, retry)
      PROVE  DecisionsStand
  <2>1. PICK s \in RefreshOutcomes(session) : \E after \in {s, Reserve(s)} :
          session' = IF OwnsCurrentStage(j)
                     THEN [after EXCEPT !.phase = "rejected"] ELSE after
    BY <1>4 DEF Fail
  <2>2. /\ s \in SessionRows /\ SameReview(session, s)
        /\ Reserve(s) \in SessionRows /\ SameReview(s, Reserve(s))
    BY <1>1, <2>1, BudgetKeepsRow, BudgetKeepsReview
  <2>3. \A after \in {s, Reserve(s)} : after \in SessionRows /\ SameReview(session, after)
    BY <2>2 DEF SameReview, SameSession
  <2> QED
    BY <1>4, <2>1, <2>3
       DEF Fail, OwnsCurrentStage, SameReview, SameSession, SessionRows, DecisionsStand
<1> QED
  BY <1>2, <1>3, <1>4

LEMMA ControlStands ==
    ASSUME TypeInv,
           \/ \E a \in Runs : RejectExhausted(a) \/ RejectAdopt(a)
           \/ \E a \in Runs, j \in Jobs, r \in Runs : RejectAndRepair(a, j, r)
           \/ \E j \in Jobs, r \in Runs : Enqueue(j, r)
           \/ \E x : Cancel(x)
           \/ \E done \in BOOLEAN : Archive(done)
           \/ Unarchive \/ SetRelease \/ ReadBudget \/ UNCHANGED vars
    PROVE  DecisionsStand
<1>1. session \in SessionRows
  BY DEF TypeInv, TypeOK
<1>2. ASSUME NEW a \in Runs, RejectExhausted(a)
      PROVE  DecisionsStand
  <2>1. PICK s \in RefreshOutcomes(session) :
          session' = [Exhaust(s, "repair_attempts") EXCEPT !.phase = "rejected"]
    BY <1>2 DEF RejectExhausted
  <2>2. s \in SessionRows /\ SameReview(session, s)
    BY <1>1, <2>1, BudgetKeepsRow, BudgetKeepsReview
  <2>3. /\ Exhaust(s, "repair_attempts") \in SessionRows
        /\ SameReview(s, Exhaust(s, "repair_attempts"))
    BY <2>2, BudgetKeepsRow, BudgetKeepsReview DEF ExhaustionCodes
  <2> QED
    BY <1>2, <2>1, <2>2, <2>3
       DEF RejectExhausted, ReviewOf, SameReview, SameSession, SessionRows, DecisionsStand
<1>3. ASSUME NEW a \in Runs, RejectAdopt(a) PROVE DecisionsStand
  BY <1>1, <1>3 DEF RejectAdopt, ReviewOf, SessionRows, DecisionsStand
<1>4. ASSUME NEW a \in Runs, NEW j \in Jobs, NEW r \in Runs, RejectAndRepair(a, j, r)
      PROVE  DecisionsStand
  <2>1. /\ AfterInsert(session, TRUE) \in SessionRows
        /\ SameReview(session, AfterInsert(session, TRUE))
    BY <1>1, BudgetKeepsRow, BudgetKeepsReview
  <2> QED
    BY <1>4, <2>1
       DEF RejectAndRepair, ReviewOf, SameReview, SameSession, SessionRows, DecisionsStand
<1>5. ASSUME NEW j \in Jobs, NEW r \in Runs, Enqueue(j, r) PROVE DecisionsStand
  <2>1. PICK s \in RefreshOutcomes(session) :
          session' = AfterInsert(s, TRUE) \/ session' = Reserve(s)
    BY <1>5 DEF Enqueue
  <2>2. s \in SessionRows /\ SameReview(session, s)
    BY <1>1, <2>1, BudgetKeepsRow, BudgetKeepsReview
  <2>3. SameReview(s, AfterInsert(s, TRUE)) /\ SameReview(s, Reserve(s))
    BY <2>2, BudgetKeepsReview
  <2> QED
    BY <1>5, <2>1, <2>2, <2>3 DEF Enqueue, SameReview, SameSession, DecisionsStand
<1>6. ASSUME NEW x, Cancel(x) PROVE DecisionsStand
  BY <1>1, <1>6 DEF Cancel, SessionRows, DecisionsStand
<1>7. ASSUME NEW done \in BOOLEAN, Archive(done) PROVE DecisionsStand
  BY <1>1, <1>7 DEF Archive, SessionRows, DecisionsStand
<1>8. CASE ReadBudget
  BY <1>1, <1>8, BudgetKeepsReview DEF ReadBudget, SameReview, SameSession, DecisionsStand
<1>9. CASE Unarchive \/ SetRelease \/ UNCHANGED vars
  BY <1>1, <1>9 DEF Unarchive, SetRelease, vars, SessionRows, DecisionsStand
<1> QED
  BY <1>2, <1>3, <1>4, <1>5, <1>6, <1>7, <1>8, <1>9

-----------------------------------------------------------------------------
(* Steps that decide *)

(* A publication is reviewed under a version no artifact of its stage has.  *)
LEMMA PublishReview ==
    ASSUME TypeInv, ReviewInv, NEW j \in Jobs, NEW n \in ClaimNumbers,
           NEW r \in Runs, NEW v \in VersionNumbers,
           Publish(j, n, r, v) \/ PublishDirect(j, n, r, v)
    PROVE  ReviewInv'
<1> DEFINE here == jobs[j].stage
           next == NextVersion(v, here)
<1>1. PublishAllowed(j, n, r, v) /\ RecordArtifact(j, r, v)
  BY DEF Publish, PublishDirect
<1>2. /\ session \in SessionRows /\ runs \in [Runs -> RunRows]
      /\ here \in Stages /\ v \in Nat /\ invalidated \subseteq Runs
      /\ completed \in [Stages -> Runs \cup {None}]
      /\ UNCHANGED <<completed, invalidated>>
  BY DEF TypeInv, TypeOK, JobRows, VersionNumbers, Publish, PublishDirect
<1>3. /\ session.stage = here /\ session.phase = "in_progress"
      /\ runs[r].stage = here /\ runs[r].status = "running"
  BY <1>1 DEF PublishAllowed
<1>4. next \in Nat \ {0} /\ \A q \in Runs : runs[q].stage = here =>
                                                runs[q].version < next
  BY <1>2, NextVersionIsNew
<1>5. /\ session' = [session EXCEPT !.phase = "awaiting_review",
                                    !.version = next, !.artifact = r]
      /\ runs' = [runs EXCEPT ![r].status = "success", ![r].version = next]
  BY <1>1 DEF RecordArtifact
<1> HIDE DEF next
<1>6. /\ runs'[r].version = next /\ runs'[r].stage = here
      /\ runs'[r].status = "success"
      /\ \A q \in Runs \ {r} : runs'[q] = runs[q]
  BY <1>2, <1>3, <1>5 DEF RunRows
<1>7. /\ session'.phase = "awaiting_review" /\ session'.version = next
      /\ session'.artifact = r /\ session'.stage = here
  BY <1>2, <1>3, <1>5 DEF SessionRows
<1>8. \A q \in Runs : runs[q].version \in Nat
  BY <1>2 DEF RunRows
<1>9. PublishedVersioned'
  BY <1>4, <1>6 DEF ReviewInv, PublishedVersioned
<1>10. r \notin invalidated /\ \A st \in Stages : completed[st] # None => completed[st] # r
  BY <1>3 DEF ReviewInv, WithdrawnWasPublished, CompletionsAreCurrent
<1>11. WithdrawnWasPublished'
  BY <1>2, <1>6, <1>10 DEF ReviewInv, WithdrawnWasPublished
<1>12. ReviewedIsLatest'
  BY <1>2, <1>4, <1>6, <1>7, <1>8, <1>10 DEF ReviewedIsLatest
<1>13. VersionsNameArtifacts'
  BY <1>4, <1>6, <1>8 DEF ReviewInv, VersionsNameArtifacts
<1>14. CompletionsAreCurrent'
  BY <1>2, <1>3, <1>6, <1>7, <1>10 DEF ReviewInv, CompletionsAreCurrent
<1> QED
  BY <1>9, <1>11, <1>12, <1>13, <1>14 DEF ReviewInv

(* What an approval records is under review; nothing was recorded before.   *)
LEMMA ApprovalRecorded ==
    ASSUME TypeInv, ReviewInv, NEW a \in Runs, ReviewOf(a), RecordCompletion(a)
    PROVE  /\ a \notin invalidated /\ runs[a].status = "success"
           /\ runs[a].stage = session.stage
           /\ completed[session.stage] = None
           /\ completed' = [completed EXCEPT ![session.stage] = a]
<1>1. session.phase = "awaiting_review" /\ session.artifact = a /\ session.stage \in Nat
  BY StageAssumption DEF ReviewOf, TypeInv, TypeOK, SessionRows, Stages
<1>2. session.stage \in Stages
  BY DEF TypeInv, TypeOK, SessionRows
<1>3. completed[session.stage] = None
  BY <1>1, <1>2 DEF ReviewInv, CompletionsAreCurrent
<1> QED
  BY <1>1, <1>2, <1>3 DEF ReviewInv, ReviewedIsLatest, RecordCompletion, TypeInv, TypeOK

LEMMA ApproveReview ==
    ASSUME TypeInv, ReviewInv, NEW a \in Runs, NEW j \in Jobs, NEW r \in Runs,
           ApproveAndAdvance(a, j, r)
    PROVE  ReviewInv'
<1>1. session \in SessionRows /\ RunHistoryKept
  BY ApproveTyped DEF TypeInv, TypeOK
<1>2. PICK s \in RefreshOutcomes(session) :
        \/ session' = s /\ UNCHANGED completed
        \/ /\ RecordCompletion(a)
           /\ session' = [s EXCEPT !.stage = @ + 1, !.artifact = None,
                                   !.version = StageVersion(s.stage + 1),
                                   !.phase = "in_progress"]
  BY DEF ApproveAndAdvance
<1>3. s \in SessionRows /\ SameReview(session, s)
  BY <1>1, <1>2, BudgetKeepsRow, BudgetKeepsReview
<1>4. ReviewOf(a) /\ UNCHANGED invalidated
  BY DEF ApproveAndAdvance
<1>5. CASE session' = s /\ UNCHANGED completed
  <2>1. DecisionsStand
    BY <1>3, <1>4, <1>5 DEF SameReview, SameSession, DecisionsStand
  <2> QED
    BY <1>1, <2>1, StandingReview
<1>6. CASE /\ RecordCompletion(a)
           /\ session'.stage = session.stage + 1 /\ session'.phase = "in_progress"
  <2>1. /\ a \notin invalidated /\ runs[a].status = "success"
        /\ runs[a].stage = session.stage
        /\ completed' = [completed EXCEPT ![session.stage] = a]
    BY <1>4, <1>6, ApprovalRecorded
  <2>2. /\ PublishedVersioned' /\ VersionsNameArtifacts' /\ PublishedKept
    BY <1>1, PublishedRunsStand
  <2>3. /\ invalidated \subseteq Runs /\ completed \in [Stages -> Runs \cup {None}]
        /\ session.stage \in Nat /\ \A st \in Stages : st \in Nat
    BY <1>1, StageAssumption DEF TypeInv, TypeOK, SessionRows, Stages
  <2>4. WithdrawnWasPublished' /\ ReviewedIsLatest'
    BY <1>4, <1>6, <2>2, <2>3
       DEF ReviewInv, WithdrawnWasPublished, ReviewedIsLatest, PublishedKept
  <2>5. CompletionsAreCurrent'
    <3> SUFFICES ASSUME NEW st \in Stages, completed'[st] # None
                 PROVE  /\ completed'[st] \in Runs \ invalidated'
                        /\ runs'[completed'[st]].status = "success"
                        /\ runs'[completed'[st]].stage = st
                        /\ st < session'.stage
      BY DEF CompletionsAreCurrent
    <3>1. CASE st = session.stage
      BY <1>4, <1>6, <2>1, <2>2, <2>3, <3>1 DEF PublishedKept
    <3>2. CASE st # session.stage
      <4>1. completed'[st] = completed[st]
        BY <2>1, <2>3, <3>2
      <4>2. session.phase # "approved"
        BY <1>4 DEF ReviewOf
      <4> QED
        BY <1>4, <1>6, <2>2, <2>3, <4>1, <4>2
           DEF ReviewInv, CompletionsAreCurrent, PublishedKept
    <3> QED
      BY <3>1, <3>2
  <2> QED
    BY <2>2, <2>4, <2>5 DEF ReviewInv
<1> QED
  BY <1>2, <1>3, <1>5, <1>6 DEF SameReview, SameSession, SessionRows

LEMMA DeliveryReview ==
    ASSUME TypeInv, ReviewInv, NEW a \in Runs, ApproveDelivery(a)
    PROVE  ReviewInv'
<1>1. RunHistoryKept /\ UNCHANGED <<runs, invalidated>> /\ ReviewOf(a)
  BY DEF ApproveDelivery, RunHistoryKept
<1>2. session'.phase = "approved"
  <2>1. PICK s \in RefreshOutcomes(session) :
            session' = [s EXCEPT !.phase = "approved", !.archived = ~ManualMerge]
    BY DEF ApproveDelivery
  <2>2. s \in SessionRows
    BY <2>1, BudgetKeepsRow DEF TypeInv, TypeOK
  <2> QED
    BY <2>1, <2>2 DEF SessionRows
<1>3. /\ a \notin invalidated /\ runs[a].status = "success"
      /\ runs[a].stage = session.stage
      /\ completed' = [completed EXCEPT ![session.stage] = a]
  BY <1>1, ApprovalRecorded DEF ApproveDelivery
<1>4. PublishedVersioned' /\ VersionsNameArtifacts'
  BY <1>1, PublishedRunsStand
<1>5. WithdrawnWasPublished' /\ ReviewedIsLatest'
  BY <1>1, <1>2 DEF ReviewInv, WithdrawnWasPublished, ReviewedIsLatest
<1>6. completed \in [Stages -> Runs \cup {None}]
  BY DEF TypeInv, TypeOK
<1>7. CompletionsAreCurrent'
  BY <1>1, <1>2, <1>3, <1>6 DEF ReviewInv, CompletionsAreCurrent
<1> QED
  BY <1>4, <1>5, <1>7 DEF ReviewInv

(* A reroute withdraws what was completed from its target on.               *)
LEMMA RerouteReview ==
    ASSUME TypeInv, ReviewInv, NEW t \in Stages, NEW rework \in BOOLEAN,
           NEW j \in Jobs, NEW r \in Runs, Reroute(t, rework, j, r)
    PROVE  ReviewInv'
<1>1. session \in SessionRows /\ RunHistoryKept
  BY RerouteTyped DEF TypeInv, TypeOK
<1>2. PICK s \in RefreshOutcomes(session) :
        \/ /\ session' = Exhaust(s, "repair_attempts")
           /\ UNCHANGED <<completed, invalidated>>
        \/ /\ session' = [AfterInsert(s, rework) EXCEPT
                                !.stage = t, !.artifact = None,
                                !.version = StageVersion(t),
                                !.phase = "rejected"]
           /\ completed' = CompletionsBefore(t)
           /\ invalidated' = invalidated \cup
                    {q \in Runs : runs[q].version > 0 /\ runs[q].stage >= t}
  BY DEF Reroute
<1>3. /\ s \in SessionRows /\ SameReview(session, s)
      /\ SameReview(s, Exhaust(s, "repair_attempts"))
      /\ AfterInsert(s, rework) \in SessionRows
  BY <1>1, <1>2, BudgetKeepsRow, BudgetKeepsReview DEF ExhaustionCodes
<1>4. CASE session' = Exhaust(s, "repair_attempts") /\ UNCHANGED <<completed, invalidated>>
  <2>1. DecisionsStand
    BY <1>3, <1>4 DEF SameReview, SameSession, DecisionsStand
  <2> QED
    BY <1>1, <2>1, StandingReview
<1>5. CASE /\ session'.stage = t /\ session'.phase = "rejected"
           /\ completed' = CompletionsBefore(t)
           /\ invalidated' = invalidated \cup
                    {q \in Runs : runs[q].version > 0 /\ runs[q].stage >= t}
  <2>1. PublishedVersioned' /\ VersionsNameArtifacts' /\ PublishedKept
    BY <1>1, PublishedRunsStand
  <2>2. /\ invalidated \subseteq Runs /\ runs \in [Runs -> RunRows]
        /\ \A st \in Stages : st \in Nat
    BY StageAssumption DEF TypeInv, TypeOK, Stages
  <2>3. WithdrawnWasPublished'
    <3>1. \A q \in invalidated' : q \in Runs /\ runs[q].status = "success"
      BY <1>5, <2>2 DEF ReviewInv, WithdrawnWasPublished, TypeInv, OnlyPublishedVersioned, RunRows
    <3> QED
      BY <2>1, <3>1 DEF WithdrawnWasPublished, PublishedKept
  <2>4. ReviewedIsLatest'
    BY <1>5 DEF ReviewedIsLatest
  <2>5. CompletionsAreCurrent'
    <3> SUFFICES ASSUME NEW st \in Stages, completed'[st] # None
                 PROVE  /\ completed'[st] \in Runs \ invalidated'
                        /\ runs'[completed'[st]].status = "success"
                        /\ runs'[completed'[st]].stage = st
                        /\ st < session'.stage
      BY DEF CompletionsAreCurrent
    <3>1. st < t /\ completed'[st] = completed[st]
      BY <1>5, <2>2 DEF CompletionsBefore
    <3>2. /\ completed[st] \in Runs \ invalidated
          /\ runs[completed[st]].status = "success" /\ runs[completed[st]].stage = st
      BY <3>1 DEF ReviewInv, CompletionsAreCurrent
    <3> QED
      BY <1>5, <2>1, <2>2, <3>1, <3>2 DEF PublishedKept
  <2> QED
    BY <2>1, <2>3, <2>4, <2>5 DEF ReviewInv
<1> QED
  BY <1>2, <1>3, <1>4, <1>5 DEF SessionRows

-----------------------------------------------------------------------------
LEMMA InitReview == Init => ReviewInv
<1> SUFFICES ASSUME Init PROVE ReviewInv
  OBVIOUS
<1>1. \A r \in Runs : runs[r].status # "success" /\ runs[r].version = 0
  BY DEF Init, QueuedRun, NoRun
<1> QED
  BY <1>1 DEF Init, ReviewInv, PublishedVersioned, WithdrawnWasPublished,
     ReviewedIsLatest, VersionsNameArtifacts, CompletionsAreCurrent

LEMMA StepReview == TypeInv /\ ReviewInv /\ [Next]_vars => ReviewInv'
<1> SUFFICES ASSUME TypeInv, ReviewInv, [Next]_vars PROVE ReviewInv'
  OBVIOUS
<1>1. ASSUME NEW j \in Jobs, Claim(j) PROVE ReviewInv'
  <2>1. 1 \in ClaimNumbers
    BY LimitAssumption DEF ClaimNumbers
  <2> QED
    BY <1>1, <2>1, ClaimTyped, WorkerStands, StandingReview
<1>2. CASE WorkerStep
  BY <1>1, <1>2, StartTyped, CompleteTyped, FailTyped, DeferTyped, WorkerStands,
     StandingReview, PublishReview DEF WorkerStep
<1>3. CASE ReviewStep
  BY <1>3, RejectTyped, RepairTyped, ControlStands, StandingReview,
     ApproveReview, DeliveryReview DEF ReviewStep
<1>4. CASE ControlStep
  BY <1>4, EnqueueTyped, CancelTyped, ControlTyped, ControlStands, StandingReview,
     RerouteReview DEF ControlStep
<1>5. CASE UNCHANGED vars
  BY <1>5, ControlTyped, ControlStands, StandingReview
<1> QED
  BY <1>2, <1>3, <1>4, <1>5 DEF Next

LEMMA ReviewInvariance == Spec => []ReviewInv
  BY InitReview, StepReview, TypeInvariance, PTL DEF Spec

(* A review decides on the one artifact its version names: the latest of    *)
(* the session's stage, never one a reroute withdrew, however often the     *)
(* session was routed back and published again.                             *)
THEOREM ReviewsAreCurrent == Spec => []ReviewIsCurrentArtifact
<1>1. ReviewInv => ReviewIsCurrentArtifact
  BY DEF ReviewInv, ReviewIsCurrentArtifact
<1> QED
  BY <1>1, ReviewInvariance, PTL

(* Every stage recorded as completed lies behind the session's and stands   *)
(* for an artifact of that stage which nobody withdrew.                     *)
THEOREM CompletionsStand == Spec => []CompletionsAreCurrent
<1>1. ReviewInv => CompletionsAreCurrent
  BY DEF ReviewInv
<1> QED
  BY <1>1, ReviewInvariance, PTL

(* A decision is never overwritten: it stands, or a reroute to its stage or *)
(* before it withdraws its artifact.                                        *)
LEMMA DecisionsAreKept ==
    ASSUME TypeInv, ReviewInv, [Next]_vars, NEW st \in Stages,
           completed[st] # None, completed'[st] # completed[st]
    PROVE  session'.stage <= st /\ completed[st] \in invalidated'
<1>1. completed \in [Stages -> Runs \cup {None}] /\ session \in SessionRows
  BY DEF TypeInv, TypeOK
<1>2. ASSUME NEW a \in Runs, ReviewOf(a), RecordCompletion(a) PROVE FALSE
  BY <1>1, <1>2, ApprovalRecorded
<1>3. ASSUME NEW t \in Stages, NEW rework \in BOOLEAN, NEW j \in Jobs, NEW r \in Runs,
             Reroute(t, rework, j, r)
      PROVE  session'.stage <= st /\ completed[st] \in invalidated'
  <2>1. PICK s \in RefreshOutcomes(session) :
          /\ session' = [AfterInsert(s, rework) EXCEPT
                                !.stage = t, !.artifact = None,
                                !.version = StageVersion(t),
                                !.phase = "rejected"]
          /\ completed' = CompletionsBefore(t)
          /\ invalidated' = invalidated \cup
                    {q \in Runs : runs[q].version > 0 /\ runs[q].stage >= t}
    BY <1>3 DEF Reroute
  <2>2. AfterInsert(s, rework) \in SessionRows
    BY <1>1, <2>1, BudgetKeepsRow
  <2>3. session'.stage = t
    BY <2>1, <2>2 DEF SessionRows
  <2>4. st >= t /\ st \in Nat /\ t \in Nat
    BY <2>1, StageAssumption DEF CompletionsBefore, Stages
  <2>5. /\ completed[st] \in Runs /\ runs[completed[st]].status = "success"
        /\ runs[completed[st]].stage = st
    BY DEF ReviewInv, CompletionsAreCurrent
  <2> QED
    BY <2>1, <2>3, <2>4, <2>5 DEF ReviewInv, PublishedVersioned
<1>4. CASE UNCHANGED completed
  BY <1>4
<1>5. CASE WorkerStep
  BY <1>4, <1>5 DEF WorkerStep, Claim, Start, Publish, PublishDirect, Complete, Fail, Defer
<1>6. CASE ReviewStep
  BY <1>2, <1>4, <1>6
     DEF ReviewStep, ApproveAndAdvance, ApproveDelivery, RejectExhausted, RejectAdopt,
         RejectAndRepair
<1>7. CASE ControlStep
  BY <1>3, <1>4, <1>7
     DEF ControlStep, Enqueue, Cancel, Archive, Unarchive, SetRelease, ReadBudget
<1>8. CASE UNCHANGED vars
  BY <1>4, <1>8 DEF vars
<1> QED
  BY <1>5, <1>6, <1>7, <1>8 DEF Next

(* An approval is withdrawn only by the reroute that takes the session back *)
(* to its stage or before, and then its artifact is withdrawn as well       *)
(* (apply_linear_session_transition), never by a second review.             *)
THEOREM ApprovalsStand == Spec => ApprovalsAreKept
<1> DEFINE Kept == \A st \in Stages :
                      (completed[st] # None /\ completed'[st] # completed[st])
                        => /\ session'.stage <= st
                           /\ completed[st] \in invalidated'
<1>1. TypeInv /\ ReviewInv /\ [Next]_vars => [Kept]_vars
  BY DecisionsAreKept
<1> QED
  BY <1>1, TypeInvariance, ReviewInvariance, PTL DEF Spec, ApprovalsAreKept

-----------------------------------------------------------------------------
(* Exhaustion *)

(* Once exhausted, and without a policy, the budget's operators leave the   *)
(* exhaustion of a session as it is.                                        *)
LEMMA SettledBudget ==
    ASSUME NEW s \in SessionRows, Exhausted(s) \/ ~PolicyPinned
    PROVE  /\ \A t \in RefreshOutcomes(s) : t = s
           /\ Reserve(s).exhaustion = s.exhaustion
           /\ \A repair \in BOOLEAN : AfterInsert(s, repair).exhaustion = s.exhaustion
           /\ \A code : (Exhausted(s) \/ RepairsSpent(s)) => Exhaust(s, code) = s
<1>1. \A code : Exhausted(s) => Exhaust(s, code) = s
  BY DEF Exhaust
<1>2. Reserve(s).exhaustion = s.exhaustion
  BY <1>1 DEF Reserve, RepairAdmitted, RepairsSpent, SessionRows
<1>3. \A t \in RefreshOutcomes(s) : t = s
  BY <1>1 DEF RefreshOutcomes
<1> QED
  BY <1>1, <1>2, <1>3 DEF AfterInsert, RepairsSpent

(* Exhaustion is final, and without a policy there is none. *)
LEMMA ExhaustionIsFinal ==
    ASSUME TypeInv, [Next]_vars, Exhausted(session) \/ ~PolicyPinned
    PROVE  session'.exhaustion = session.exhaustion
<1>1. session \in SessionRows /\ \A t \in RefreshOutcomes(session) : t = session
  BY SettledBudget DEF TypeInv, TypeOK
<1>2. /\ Reserve(session).exhaustion = session.exhaustion
      /\ \A repair \in BOOLEAN :
            AfterInsert(session, repair).exhaustion = session.exhaustion
      /\ \A code : (Exhausted(session) \/ RepairsSpent(session))
                        => Exhaust(session, code) = session
  BY <1>1, SettledBudget
<1>3. /\ Reserve(session) \in SessionRows
      /\ \A repair \in BOOLEAN : AfterInsert(session, repair) \in SessionRows
  BY <1>1, BudgetKeepsRow
<1>4. CASE WorkerStep
  <2>1. ASSUME NEW j \in Jobs, NEW n \in ClaimNumbers, NEW r \in Runs \cup {None},
               NEW retry \in BOOLEAN, Fail(j, n, r, retry)
        PROVE  session'.exhaustion = session.exhaustion
    <3>1. \E after \in {session, Reserve(session)} :
             session' = IF OwnsCurrentStage(j)
                        THEN [after EXCEPT !.phase = "rejected"] ELSE after
      BY <1>1, <2>1 DEF Fail
    <3> QED
      BY <1>1, <1>2, <1>3, <3>1 DEF SessionRows
  <2>2. ASSUME NEW j \in Jobs, NEW n \in ClaimNumbers, NEW st \in Stages,
               NEW v \in VersionNumbers, NEW r \in Runs, Start(j, n, st, v, r)
        PROVE  session'.exhaustion = session.exhaustion
    BY <1>1, <2>2 DEF Start, SessionRows
  <2>3. ASSUME NEW j \in Jobs, NEW n \in ClaimNumbers, NEW r \in Runs,
               NEW v \in VersionNumbers, Publish(j, n, r, v) \/ PublishDirect(j, n, r, v)
        PROVE  session'.exhaustion = session.exhaustion
    BY <1>1, <2>3 DEF Publish, PublishDirect, RecordArtifact, SessionRows
  <2>4. ASSUME NEW j \in Jobs, NEW n \in ClaimNumbers,
               Claim(j) \/ Defer(j, n) \/ \E r \in Runs : Complete(j, n, r)
        PROVE  session'.exhaustion = session.exhaustion
    BY <2>4 DEF Claim, Defer, Complete
  <2>5. 1 \in ClaimNumbers
    BY LimitAssumption DEF ClaimNumbers
  <2> QED
    BY <1>4, <2>1, <2>2, <2>3, <2>4, <2>5 DEF WorkerStep
<1>5. CASE ReviewStep
  <2>1. ASSUME NEW a \in Runs, NEW j \in Jobs, NEW r \in Runs, ApproveAndAdvance(a, j, r)
        PROVE  session'.exhaustion = session.exhaustion
    BY <1>1, <2>1 DEF ApproveAndAdvance, SessionRows
  <2>2. ASSUME NEW a \in Runs, ApproveDelivery(a) \/ RejectAdopt(a)
        PROVE  session'.exhaustion = session.exhaustion
    BY <1>1, <2>2 DEF ApproveDelivery, RejectAdopt, SessionRows
  <2>3. ASSUME NEW a \in Runs, RejectExhausted(a)
        PROVE  session'.exhaustion = session.exhaustion
    BY <1>1, <1>2, <2>3 DEF RejectExhausted, SessionRows
  <2>4. ASSUME NEW a \in Runs, NEW j \in Jobs, NEW r \in Runs, RejectAndRepair(a, j, r)
        PROVE  session'.exhaustion = session.exhaustion
    BY <1>2, <1>3, <2>4 DEF RejectAndRepair, SessionRows
  <2> QED
    BY <1>5, <2>1, <2>2, <2>3, <2>4 DEF ReviewStep
<1>6. CASE ControlStep
  <2>1. ASSUME NEW j \in Jobs, NEW r \in Runs, Enqueue(j, r)
        PROVE  session'.exhaustion = session.exhaustion
    BY <1>1, <1>2, <2>1 DEF Enqueue
  <2>2. ASSUME NEW t \in Stages, NEW rework \in BOOLEAN, NEW j \in Jobs, NEW r \in Runs,
               Reroute(t, rework, j, r)
        PROVE  session'.exhaustion = session.exhaustion
    <3>1. PICK s \in RefreshOutcomes(session) :
            \/ /\ Exhausted(s) \/ RepairsSpent(s)
               /\ session' = Exhaust(s, "repair_attempts")
            \/ session' = [AfterInsert(s, rework) EXCEPT
                                !.stage = t, !.artifact = None,
                                !.version = StageVersion(t),
                                !.phase = "rejected"]
      <4>1. PICK s \in RefreshOutcomes(session) :
              IF Exhausted(s) \/ (rework /\ RepairsSpent(s))
              THEN session' = Exhaust(s, "repair_attempts")
              ELSE session' = [AfterInsert(s, rework) EXCEPT
                                !.stage = t, !.artifact = None,
                                !.version = StageVersion(t),
                                !.phase = "rejected"]
        BY <2>2 DEF Reroute
      <4> QED
        BY <4>1
    <3>2. s = session
      BY <1>1, <3>1
    <3>3. PICK row : row = AfterInsert(session, rework)
      OBVIOUS
    <3>4. row \in SessionRows /\ row.exhaustion = session.exhaustion
      BY <1>2, <1>3, <3>3
    <3>5. CASE session' = [row EXCEPT !.stage = t, !.artifact = None,
                                      !.version = StageVersion(t),
                                      !.phase = "rejected"]
      BY <3>4, <3>5 DEF SessionRows
    <3> QED
      BY <1>2, <3>1, <3>2, <3>3, <3>5
  <2>3. ASSUME NEW x, Cancel(x) \/ \E done \in BOOLEAN : Archive(done)
        PROVE  session'.exhaustion = session.exhaustion
    BY <1>1, <2>3 DEF Cancel, Archive, SessionRows
  <2>4. CASE Unarchive \/ SetRelease \/ ReadBudget
    BY <1>1, <2>4 DEF Unarchive, SetRelease, ReadBudget, SessionRows
  <2> QED
    BY <1>6, <2>1, <2>2, <2>3, <2>4 DEF ControlStep
<1> QED
  BY <1>4, <1>5, <1>6 DEF Next, vars

ExhaustionNeedsPolicy == Exhausted(session) => PolicyPinned

LEMMA PolicyInvariance == Spec => []ExhaustionNeedsPolicy
<1>1. Init => ExhaustionNeedsPolicy
  BY DEF Init, ExhaustionNeedsPolicy, Exhausted
<1>2. TypeInv /\ ExhaustionNeedsPolicy /\ [Next]_vars => ExhaustionNeedsPolicy'
  BY ExhaustionIsFinal DEF ExhaustionNeedsPolicy, Exhausted
<1> QED
  BY <1>1, <1>2, TypeInvariance, PTL DEF Spec

(* No retry is reserved, no job inserted and no run started.                *)
NothingBegins ==
    /\ retries' = retries
    /\ \A k \in Jobs : jobs[k].status = "absent" => jobs'[k] = jobs[k]
    /\ \A q \in Runs : runs[q].status # "running" => runs'[q].status # "running"

LEMMA NothingIsExecuted ==
    ASSUME TypeInv, ExhaustionNeedsPolicy, Exhausted(session), [Next]_vars
    PROVE  NothingBegins
<1>1. /\ session \in SessionRows /\ jobs \in [Jobs -> JobRows] /\ runs \in [Runs -> RunRows]
      /\ \A t \in RefreshOutcomes(session) : t = session
      /\ PolicyPinned
  BY SettledBudget DEF TypeInv, TypeOK, ExhaustionNeedsPolicy
<1>2. /\ \A k \in Jobs : jobs[k].status = "absent" =>
            CanceledJobs[k] = jobs[k] /\ SettledJobs[k] = jobs[k]
      /\ \A q \in Runs : runs[q].status # "running" => CanceledRuns[q].status # "running"
  BY <1>1 DEF CanceledJobs, SettledJobs, CanceledRuns, Active, ActiveStatuses, RunRows
<1>3. CASE WorkerStep
  <2>1. ASSUME NEW j \in Jobs, NEW n \in ClaimNumbers,
               Claim(j) \/ Defer(j, n) \/ \E r \in Runs : Complete(j, n, r)
        PROVE  NothingBegins
    BY <1>1, <2>1 DEF Claim, Defer, OwnsClaim, Complete, NothingBegins
  <2>2. ASSUME NEW j \in Jobs, NEW n \in ClaimNumbers, NEW st \in Stages,
               NEW v \in VersionNumbers, NEW r \in Runs, Start(j, n, st, v, r)
        PROVE  NothingBegins
    BY <1>1, <2>2 DEF Start, NothingBegins
  <2>3. ASSUME NEW j \in Jobs, NEW n \in ClaimNumbers, NEW r \in Runs,
               NEW v \in VersionNumbers, Publish(j, n, r, v) \/ PublishDirect(j, n, r, v)
        PROVE  NothingBegins
    <3>1. UNCHANGED <<jobs, retries>> /\ RecordArtifact(j, r, v)
      BY <2>3 DEF Publish, PublishDirect
    <3>2. \A q \in Runs : runs'[q] = runs[q] \/ runs'[q].status = "success"
      BY <1>1, <3>1 DEF RecordArtifact, RunRows
    <3> QED
      BY <3>1, <3>2 DEF NothingBegins
  <2>4. ASSUME NEW j \in Jobs, NEW n \in ClaimNumbers, NEW r \in Runs \cup {None},
               NEW retry \in BOOLEAN, Fail(j, n, r, retry)
        PROVE  NothingBegins
    <3>1. ~RetryAllowed(j, n, r)
      BY DEF RetryAllowed
    <3>2. /\ jobs[j].status = "running" /\ \A k \in Jobs \ {j} : jobs'[k] = jobs[k]
          /\ retries' = retries
      BY <1>1, <2>4, <3>1 DEF Fail, OwnsClaim
    <3>3. \A q \in Runs : runs'[q] = runs[q] \/ runs'[q].status = "error"
      BY <1>1, <2>4 DEF Fail, FailedRuns, RunRows
    <3> QED
      BY <3>2, <3>3 DEF NothingBegins
  <2> QED
    BY <1>3, <2>1, <2>2, <2>3, <2>4, LimitAssumption DEF WorkerStep, ClaimNumbers
<1>4. CASE ReviewStep
  <2>1. ASSUME NEW a \in Runs, NEW j \in Jobs, NEW r \in Runs,
               ApproveAndAdvance(a, j, r)
        PROVE  NothingBegins
    BY <1>1, <2>1 DEF ApproveAndAdvance, NothingBegins
  <2>2. ASSUME NEW a \in Runs, ApproveDelivery(a) PROVE NothingBegins
    BY <1>2, <2>2 DEF ApproveDelivery, NothingBegins
  <2>3. ASSUME NEW a \in Runs, RejectExhausted(a) \/ RejectAdopt(a) PROVE NothingBegins
    BY <2>3 DEF RejectExhausted, RejectAdopt, NothingBegins
  <2>4. ASSUME NEW a \in Runs, NEW j \in Jobs, NEW r \in Runs, RejectAndRepair(a, j, r)
        PROVE  NothingBegins
    BY <2>4 DEF RejectAndRepair
  <2> QED
    BY <1>4, <2>1, <2>2, <2>3, <2>4 DEF ReviewStep
<1>5. CASE ControlStep
  <2>1. ASSUME NEW j \in Jobs, NEW r \in Runs, Enqueue(j, r) PROVE NothingBegins
    BY <1>1, <2>1 DEF Enqueue, InsertAdmitted, RepairAdmitted, NothingBegins
  <2>2. ASSUME NEW t \in Stages, NEW rework \in BOOLEAN, NEW j \in Jobs, NEW r \in Runs,
               Reroute(t, rework, j, r)
        PROVE  NothingBegins
    BY <1>1, <2>2 DEF Reroute, NothingBegins
  <2>3. ASSUME NEW x, Cancel(x) \/ \E done \in BOOLEAN : Archive(done)
        PROVE  NothingBegins
    BY <1>2, <2>3 DEF Cancel, Archive, NothingBegins
  <2>4. CASE Unarchive \/ SetRelease \/ ReadBudget
    BY <2>4 DEF Unarchive, SetRelease, ReadBudget, NothingBegins
  <2> QED
    BY <1>5, <2>1, <2>2, <2>3, <2>4 DEF ControlStep
<1>6. CASE UNCHANGED vars
  BY <1>6 DEF vars, NothingBegins
<1> QED
  BY <1>3, <1>4, <1>5, <1>6 DEF Next

(* An exhausted budget is never refilled, and from then on nothing is       *)
(* queued, retried or started, whichever RPC asks for it.                   *)
THEOREM ExhaustionIsKept == Spec => ExhaustionStopsExecution
<1> DEFINE Halted == Exhausted(session) =>
                        /\ session'.exhaustion = session.exhaustion
                        /\ retries' = retries
                        /\ \A j \in Jobs : jobs[j].status = "absent" => jobs'[j] = jobs[j]
                        /\ \A r \in Runs : runs[r].status # "running" =>
                                                runs'[r].status # "running"
<1>1. TypeInv /\ ExhaustionNeedsPolicy /\ [Next]_vars => [Halted]_vars
  BY ExhaustionIsFinal, NothingIsExecuted DEF NothingBegins
<1> QED
  BY <1>1, TypeInvariance, PolicyInvariance, PTL DEF Spec, ExhaustionStopsExecution
-----------------------------------------------------------------------------
(* Claims: the inductive invariant *)

(* No run is of a claim later than its job's last; one of the last claim of *)
(* a running job runs or has published.                                     *)
NewestClaims ==
    \A r \in Runs : runs[r].job \in Jobs =>
        LET j == runs[r].job
        IN  /\ runs[r].attempt <= jobs[j].attempt
            /\ (/\ jobs[j].status = "running"
                /\ runs[r].attempt > 0 /\ runs[r].attempt = jobs[j].attempt)
               => runs[r].status \in {"running", "success"}

UnusedJobs ==
    \A j \in Jobs : jobs[j].status = "absent" =>
        jobs[j].attempt = 0 /\ jobs[j].repair = FALSE /\ retries[j] = 0

(* A credit is for a claim that was made, is over and never executed.       *)
DeferralsOf(j) == {d \in deferrals : d[1] = j}
DeferredClaimsNeverRan ==
    /\ IsFiniteSet(deferrals)
    /\ \A d \in deferrals :
        /\ d[2] \in 1..jobs[d[1]].attempt
        /\ jobs[d[1]].status = "running" => d[2] < jobs[d[1]].attempt
        /\ BoundRuns(d[1], d[2]) = {}

Paid(j) == jobs[j].attempt - Cardinality(DeferralsOf(j))
ClaimsArePaid ==
    \A j \in Jobs :
        /\ Paid(j) \in {retries[j], retries[j] + 1}
        /\ jobs[j].status = "queued" => Paid(j) = retries[j]
        /\ jobs[j].status = "running" => Paid(j) = retries[j] + 1
        /\ retries[j] > 0 => retries[j] < MaxRetries

ClaimsInv == /\ NewestClaims /\ UnusedJobs
             /\ DeferredClaimsNeverRan /\ ClaimsArePaid

(* The credits of a job can be counted, and while a claim runs they are the *)
(* ones the failure path subtracts.                                         *)
LEMMA CreditsAreCounted ==
    ASSUME TypeInv, ClaimsInv, NEW j \in Jobs
    PROVE  /\ IsFiniteSet(DeferralsOf(j)) /\ Cardinality(DeferralsOf(j)) \in Nat
           /\ Paid(j) \in Int /\ retries[j] \in Nat /\ jobs[j].attempt \in Nat
           /\ DeferredClaims(j, jobs[j].attempt) = DeferralsOf(j)
           /\ jobs[j].status = "running" =>
                EffectiveAttempt(j, jobs[j].attempt) = Paid(j)
<1>1. IsFiniteSet(DeferralsOf(j))
  BY FS_Subset DEF ClaimsInv, DeferredClaimsNeverRan, DeferralsOf
<1>2. Cardinality(DeferralsOf(j)) \in Nat
  BY <1>1, FS_CardinalityType
<1>3. retries[j] \in Nat /\ jobs[j].attempt \in Nat
  BY DEF TypeInv, TypeOK, JobRows
<1>4. Paid(j) \in Int
  BY <1>2, <1>3 DEF Paid
<1>5. DeferredClaims(j, jobs[j].attempt) = DeferralsOf(j)
  <2>1. \A d \in deferrals : d[1] = j => d[2] <= jobs[j].attempt
    BY <1>3 DEF ClaimsInv, DeferredClaimsNeverRan
  <2> QED
    BY <2>1 DEF DeferredClaims, DeferralsOf
<1>6. ASSUME jobs[j].status = "running"
      PROVE  EffectiveAttempt(j, jobs[j].attempt) = Paid(j)
  <2>1. Paid(j) = retries[j] + 1
    BY <1>6 DEF ClaimsInv, ClaimsArePaid
  <2> QED
    BY <1>2, <1>3, <1>5, <2>1 DEF EffectiveAttempt, Paid
<1> QED
  BY <1>1, <1>2, <1>3, <1>4, <1>5, <1>6

(* A step that makes, fails and gives back no claim: jobs are inserted or   *)
(* end, runs are inserted, end or publish.                                  *)
ClaimsStand ==
    /\ UNCHANGED <<deferrals, retries>>
    /\ \A k \in Jobs :
        /\ jobs'[k].attempt = jobs[k].attempt
        /\ jobs'[k].status = "running" => jobs[k].status = "running"
        /\ jobs'[k].status = "queued" => jobs[k].status \in {"queued", "absent"}
        /\ jobs'[k].status = "absent" => jobs'[k] = jobs[k]
    /\ \A q \in Runs :
        \/ runs'[q].attempt = 0
        \/ runs'[q] = runs[q]
        \/ /\ runs'[q].job = runs[q].job /\ runs'[q].attempt = runs[q].attempt
           /\ \/ runs'[q].status = "success"
              \/ \A k \in Jobs : k = runs[q].job => jobs'[k].status # "running"

LEMMA StandingClaims ==
    ASSUME TypeInv, ClaimsInv, ClaimsStand
    PROVE  ClaimsInv'
<1>1. /\ runs \in [Runs -> RunRows] /\ jobs \in [Jobs -> JobRows]
      /\ deferrals \subseteq Jobs \X Nat
  BY DEF TypeInv, TypeOK
<1>2. NewestClaims'
  <2> SUFFICES ASSUME NEW q \in Runs, NEW k \in Jobs, runs'[q].job = k
               PROVE  /\ runs'[q].attempt <= jobs'[k].attempt
                      /\ (/\ jobs'[k].status = "running"
                          /\ runs'[q].attempt > 0 /\ runs'[q].attempt = jobs'[k].attempt)
                         => runs'[q].status \in {"running", "success"}
    BY DEF NewestClaims
  <2>1. jobs'[k].attempt = jobs[k].attempt /\ jobs[k].attempt \in Nat
    BY <1>1 DEF ClaimsStand, JobRows
  <2>2. CASE runs'[q].attempt = 0
    BY <2>1, <2>2
  <2>3. CASE runs'[q] = runs[q]
    BY <2>1, <2>3 DEF ClaimsStand, ClaimsInv, NewestClaims
  <2>4. CASE /\ runs'[q].job = runs[q].job /\ runs'[q].attempt = runs[q].attempt
             /\ \/ runs'[q].status = "success"
                \/ jobs'[k].status # "running"
    BY <2>1, <2>4 DEF ClaimsInv, NewestClaims
  <2> QED
    BY <2>2, <2>3, <2>4 DEF ClaimsStand
<1>3. UnusedJobs'
  BY DEF ClaimsStand, ClaimsInv, UnusedJobs
<1>4. DeferredClaimsNeverRan'
  <2>1. IsFiniteSet(deferrals')
    BY DEF ClaimsStand, ClaimsInv, DeferredClaimsNeverRan
  <2> SUFFICES ASSUME NEW d \in deferrals
               PROVE  /\ d[2] \in 1..jobs'[d[1]].attempt
                      /\ jobs'[d[1]].status = "running" => d[2] < jobs'[d[1]].attempt
                      /\ BoundRuns(d[1], d[2])' = {}
    BY <2>1 DEF ClaimsStand, DeferredClaimsNeverRan
  <2>2. d[1] \in Jobs /\ d[2] \in Nat
    BY <1>1
  <2>3. /\ d[2] \in 1..jobs[d[1]].attempt
        /\ jobs[d[1]].status = "running" => d[2] < jobs[d[1]].attempt
        /\ BoundRuns(d[1], d[2]) = {}
    BY DEF ClaimsInv, DeferredClaimsNeverRan
  <2>4. \A q \in Runs : runs'[q].job = d[1] /\ runs'[q].attempt = d[2] /\ d[2] > 0 =>
            runs[q].job = d[1] /\ runs[q].attempt = d[2]
    BY DEF ClaimsStand
  <2> QED
    BY <2>2, <2>3, <2>4 DEF ClaimsStand, BoundRuns, RunsOf
<1>5. ClaimsArePaid'
  <2> SUFFICES ASSUME NEW k \in Jobs
               PROVE  /\ Paid(k)' \in {retries[k], retries[k] + 1}
                      /\ jobs'[k].status = "queued" => Paid(k)' = retries[k]
                      /\ jobs'[k].status = "running" => Paid(k)' = retries[k] + 1
                      /\ retries[k] > 0 => retries[k] < MaxRetries
    BY DEF ClaimsStand, ClaimsArePaid
  <2>1. Paid(k)' = Paid(k)
    BY DEF ClaimsStand, Paid, DeferralsOf
  <2>2. jobs[k].status = "absent" => Paid(k) = retries[k]
    <3>1. jobs[k].status = "absent" => jobs[k].attempt = 0 /\ retries[k] = 0
      BY DEF ClaimsInv, UnusedJobs
    <3> QED
      BY <3>1, CreditsAreCounted DEF Paid, ClaimsInv, ClaimsArePaid
  <2> QED
    BY <2>1, <2>2 DEF ClaimsStand, ClaimsInv, ClaimsArePaid
<1> QED
  BY <1>2, <1>3, <1>4, <1>5 DEF ClaimsInv

(* A claim is one more, paid for unless it is given back.                   *)
LEMMA ClaimClaims ==
    ASSUME TypeInv, ClaimsInv, NEW j \in Jobs, Claim(j)
    PROVE  ClaimsInv'
<1>1. /\ runs \in [Runs -> RunRows] /\ jobs \in [Jobs -> JobRows]
      /\ deferrals \subseteq Jobs \X Nat
  BY DEF TypeInv, TypeOK
<1>2. /\ jobs[j].status = "queued"
      /\ jobs'[j].status = "running" /\ jobs'[j].attempt = jobs[j].attempt + 1
      /\ \A k \in Jobs \ {j} : jobs'[k] = jobs[k]
      /\ UNCHANGED <<runs, deferrals, retries>>
  BY <1>1 DEF Claim, JobRows
<1>3. \A k \in Jobs : jobs[k].attempt \in Nat
  BY <1>1 DEF JobRows
<1>4. \A q \in Runs : runs[q].attempt \in Nat
  BY <1>1 DEF RunRows
<1>5. NewestClaims'
  BY <1>2, <1>3, <1>4 DEF ClaimsInv, NewestClaims
<1>6. UnusedJobs'
  BY <1>2 DEF ClaimsInv, UnusedJobs
<1>7. DeferredClaimsNeverRan'
  <2> SUFFICES ASSUME NEW d \in deferrals
               PROVE  /\ d[2] \in 1..jobs'[d[1]].attempt
                      /\ jobs'[d[1]].status = "running" => d[2] < jobs'[d[1]].attempt
                      /\ BoundRuns(d[1], d[2])' = {}
    BY <1>2 DEF ClaimsInv, DeferredClaimsNeverRan
  <2>1. d[1] \in Jobs /\ d[2] \in Nat
    BY <1>1
  <2>2. /\ d[2] \in 1..jobs[d[1]].attempt
        /\ jobs[d[1]].status = "running" => d[2] < jobs[d[1]].attempt
        /\ BoundRuns(d[1], d[2]) = {}
    BY DEF ClaimsInv, DeferredClaimsNeverRan
  <2>3. BoundRuns(d[1], d[2])' = BoundRuns(d[1], d[2])
    BY <1>2 DEF BoundRuns, RunsOf
  <2> QED
    BY <1>2, <1>3, <2>1, <2>2, <2>3
<1>8. ClaimsArePaid'
  <2>1. \A k \in Jobs \ {j} : Paid(k)' = Paid(k)
    BY <1>2 DEF Paid, DeferralsOf
  <2>2. Paid(j)' = Paid(j) + 1
    <3>1. DeferralsOf(j)' = DeferralsOf(j)
      BY <1>2 DEF DeferralsOf
    <3> QED
      BY <1>2, <1>3, <3>1, CreditsAreCounted DEF Paid
  <2>3. Paid(j) = retries[j] /\ retries[j] \in Nat
    BY <1>2, CreditsAreCounted DEF ClaimsInv, ClaimsArePaid
  <2> QED
    BY <1>2, <2>1, <2>2, <2>3 DEF ClaimsInv, ClaimsArePaid
<1> QED
  BY <1>5, <1>6, <1>7, <1>8 DEF ClaimsInv

(* What starts is the last claim, which no credit was given for.            *)
LEMMA StartClaims ==
    ASSUME TypeInv, ClaimsInv, NEW j \in Jobs, NEW n \in ClaimNumbers, NEW st \in Stages,
           NEW v \in VersionNumbers, NEW r \in Runs, Start(j, n, st, v, r)
    PROVE  ClaimsInv'
<1>1. /\ runs \in [Runs -> RunRows] /\ jobs \in [Jobs -> JobRows]
      /\ deferrals \subseteq Jobs \X Nat
  BY DEF TypeInv, TypeOK
<1>2. /\ jobs[j].status = "running" /\ jobs[j].attempt = n
      /\ UNCHANGED <<jobs, deferrals, retries>>
  BY DEF Start, OwnsClaim
<1>3. n \in Nat \ {0}
  BY LimitAssumption DEF ClaimNumbers
<1>4. CASE UNCHANGED runs
  BY <1>2, <1>4, StandingClaims DEF ClaimsStand
<1>5. CASE runs' = [q \in Runs |->
                CASE q = r -> [QueuedRun(j, session.stage) EXCEPT
                                  !.status = "running", !.attempt = n]
                  [] q # r /\ runs[q].job = j /\ Live(q)
                       /\ runs[q].attempt \in 1..(n - 1) ->
                       [runs[q] EXCEPT !.status = "error"]
                  [] OTHER -> runs[q]]
  <2>1. runs'[r].job = j /\ runs'[r].attempt = n /\ runs'[r].status = "running"
    BY <1>5 DEF QueuedRun, NoRun
  <2>2. \A q \in Runs \ {r} :
            /\ runs'[q].job = runs[q].job /\ runs'[q].attempt = runs[q].attempt
            /\ runs'[q].status = runs[q].status
                 \/ (runs[q].job = j /\ runs[q].attempt \in 1..(n - 1))
    BY <1>1, <1>5 DEF RunRows
  <2>3. NewestClaims'
    <3> SUFFICES ASSUME NEW q \in Runs, NEW k \in Jobs, runs'[q].job = k
                 PROVE  /\ runs'[q].attempt <= jobs[k].attempt
                        /\ (/\ jobs[k].status = "running"
                            /\ runs'[q].attempt > 0 /\ runs'[q].attempt = jobs[k].attempt)
                           => runs'[q].status \in {"running", "success"}
      BY <1>2 DEF NewestClaims
    <3>1. CASE q = r
      BY <1>2, <1>3, <2>1, <3>1
    <3>2. CASE q # r
      BY <1>2, <1>3, <2>2, <3>2 DEF ClaimsInv, NewestClaims
    <3> QED
      BY <3>1, <3>2
  <2>4. DeferredClaimsNeverRan'
    <3> SUFFICES ASSUME NEW d \in deferrals
                 PROVE  BoundRuns(d[1], d[2])' = {}
      BY <1>2 DEF ClaimsInv, DeferredClaimsNeverRan
    <3>1. d[1] \in Jobs /\ d[2] \in Nat
      BY <1>1
    <3>2. d[1] = j => d[2] < n
      BY <1>2 DEF ClaimsInv, DeferredClaimsNeverRan
    <3>3. BoundRuns(d[1], d[2]) = {}
      BY DEF ClaimsInv, DeferredClaimsNeverRan
    <3>4. ~(runs'[r].job = d[1] /\ runs'[r].attempt = d[2])
      BY <1>3, <2>1, <3>1, <3>2
    <3> QED
      BY <2>2, <3>3, <3>4 DEF BoundRuns, RunsOf
  <2>5. UnusedJobs' /\ ClaimsArePaid'
    BY <1>2 DEF ClaimsInv, UnusedJobs, ClaimsArePaid, Paid, DeferralsOf
  <2> QED
    BY <2>3, <2>4, <2>5 DEF ClaimsInv
<1> QED
  BY <1>4, <1>5 DEF Start

(* A failure ends the claim, and a retry is paid for by it.                 *)
LEMMA FailClaims ==
    ASSUME TypeInv, ClaimsInv, NEW j \in Jobs, NEW n \in ClaimNumbers,
           NEW r \in Runs \cup {None}, NEW retry \in BOOLEAN, Fail(j, n, r, retry)
    PROVE  ClaimsInv'
<1>1. /\ runs \in [Runs -> RunRows] /\ jobs \in [Jobs -> JobRows]
      /\ deferrals \subseteq Jobs \X Nat /\ retries \in [Jobs -> Nat]
  BY DEF TypeInv, TypeOK
<1>2. /\ jobs[j].status = "running" /\ jobs[j].attempt = n
      /\ deferrals' = deferrals /\ runs' = FailedRuns(j, r)
  BY DEF Fail, OwnsClaim
<1>3. \A q \in Runs : /\ runs'[q].job = runs[q].job
                      /\ runs'[q].attempt = runs[q].attempt
                      /\ runs'[q] = runs[q] \/ runs[q].job = j
  <2>1. r # None => runs[r].job = j
    BY DEF Fail, FailsClaim
  <2> QED
    BY <1>1, <1>2, <2>1 DEF FailedRuns, Placeholders, RunsOf, RunRows
<1>4. PICK status \in {"queued", "error"} :
        /\ jobs' = [jobs EXCEPT ![j].status = status]
        /\ \/ status = "error" /\ retries' = retries
           \/ /\ status = "queued" /\ retries' = [retries EXCEPT ![j] = @ + 1]
              /\ EffectiveAttempt(j, n) < MaxRetries
  <2>1. PICK s \in RefreshOutcomes(session) :
          /\ jobs' = [jobs EXCEPT ![j].status =
                IF (retry /\ RetryAllowed(j, n, r) /\ ~Exhausted(s)) /\ RepairAdmitted(s)
                THEN "queued" ELSE "error"]
          /\ retries' = IF (retry /\ RetryAllowed(j, n, r) /\ ~Exhausted(s))
                                /\ RepairAdmitted(s)
                        THEN [retries EXCEPT ![j] = @ + 1] ELSE retries
    BY DEF Fail
  <2>2. CASE retry /\ RetryAllowed(j, n, r) /\ ~Exhausted(s) /\ RepairAdmitted(s)
    BY <2>1, <2>2 DEF RetryAllowed
  <2>3. CASE ~(retry /\ RetryAllowed(j, n, r) /\ ~Exhausted(s) /\ RepairAdmitted(s))
    BY <2>1, <2>3
  <2> QED
    BY <2>2, <2>3
<1>5. /\ jobs'[j].status = status /\ jobs'[j].attempt = jobs[j].attempt
      /\ \A k \in Jobs \ {j} : jobs'[k] = jobs[k]
  BY <1>1, <1>4 DEF JobRows
<1>6. CASE status = "error"
  BY <1>2, <1>3, <1>4, <1>5, <1>6, StandingClaims DEF ClaimsStand
<1>7. CASE status = "queued"
  <2>1. /\ retries'[j] = retries[j] + 1 /\ \A k \in Jobs \ {j} : retries'[k] = retries[k]
        /\ retries[j] + 1 < MaxRetries
    BY <1>1, <1>2, <1>4, <1>7, CreditsAreCounted DEF ClaimsInv, ClaimsArePaid
  <2>2. NewestClaims'
    BY <1>3, <1>5, <1>7 DEF ClaimsInv, NewestClaims
  <2>3. UnusedJobs'
    BY <1>5, <1>7, <2>1 DEF ClaimsInv, UnusedJobs
  <2>4. DeferredClaimsNeverRan'
    <3>1. \A d \in deferrals : d[1] \in Jobs
      BY <1>1
    <3>2. \A d \in deferrals : BoundRuns(d[1], d[2])' = BoundRuns(d[1], d[2])
      BY <1>3 DEF BoundRuns, RunsOf
    <3> QED
      BY <1>2, <1>5, <1>7, <3>1, <3>2 DEF ClaimsInv, DeferredClaimsNeverRan
  <2>5. ClaimsArePaid'
    <3>1. \A k \in Jobs : Paid(k)' = Paid(k)
      BY <1>2, <1>5 DEF Paid, DeferralsOf
    <3> QED
      BY <1>1, <1>2, <1>5, <1>7, <2>1, <3>1 DEF ClaimsInv, ClaimsArePaid
  <2> QED
    BY <2>2, <2>3, <2>4, <2>5 DEF ClaimsInv
<1> QED
  BY <1>6, <1>7

(* A claim that is given back never ran: its newest run would be running or *)
(* published.  The credit is new, for no claim that still runs has one.     *)
LEMMA DeferClaims ==
    ASSUME TypeInv, ClaimsInv, NEW j \in Jobs, NEW n \in ClaimNumbers, Defer(j, n)
    PROVE  ClaimsInv'
<1>1. /\ runs \in [Runs -> RunRows] /\ jobs \in [Jobs -> JobRows]
      /\ deferrals \subseteq Jobs \X Nat
  BY DEF TypeInv, TypeOK
<1>2. /\ jobs[j].status = "running" /\ jobs[j].attempt = n /\ n \in Nat \ {0}
      /\ jobs'[j].status = "queued" /\ jobs'[j].attempt = jobs[j].attempt
      /\ \A k \in Jobs \ {j} : jobs'[k] = jobs[k]
      /\ UNCHANGED <<runs, retries>>
      /\ deferrals' = deferrals \cup {<<j, n>>}
  BY <1>1, LimitAssumption DEF Defer, OwnsClaim, JobRows, ClaimNumbers
<1>3. BoundRuns(j, n) = {}
  <2> SUFFICES ASSUME NEW q \in Runs, runs[q].job = j, runs[q].attempt = n
               PROVE  FALSE
    BY DEF BoundRuns, RunsOf
  <2>1. runs[q].status \in {"running", "success"}
    BY <1>2 DEF ClaimsInv, NewestClaims
  <2>2. ~Live(q) /\ runs[q].status # "success"
    BY DEF Defer, NeverRan, RunsOf
  <2> QED
    BY <2>1, <2>2 DEF Live, ActiveStatuses
<1>4. <<j, n>> \notin deferrals
  BY <1>2 DEF ClaimsInv, DeferredClaimsNeverRan
<1>5. NewestClaims' /\ UnusedJobs'
  BY <1>2 DEF ClaimsInv, NewestClaims, UnusedJobs
<1>6. DeferredClaimsNeverRan'
  <2>1. IsFiniteSet(deferrals')
    BY <1>2, FS_AddElement DEF ClaimsInv, DeferredClaimsNeverRan
  <2>2. \A d \in deferrals : d[1] \in Jobs
    BY <1>1
  <2>3. \A d \in deferrals' : BoundRuns(d[1], d[2])' = BoundRuns(d[1], d[2])
    BY <1>2 DEF BoundRuns, RunsOf
  <2> QED
    BY <1>2, <1>3, <2>1, <2>2, <2>3 DEF ClaimsInv, DeferredClaimsNeverRan
<1>7. ClaimsArePaid'
  <2>1. \A k \in Jobs \ {j} : Paid(k)' = Paid(k)
    <3>1. \A k \in Jobs \ {j} : DeferralsOf(k)' = DeferralsOf(k)
      BY <1>2 DEF DeferralsOf
    <3> QED
      BY <1>2, <3>1 DEF Paid
  <2>2. Paid(j)' = Paid(j) - 1
    <3>1. DeferralsOf(j)' = DeferralsOf(j) \cup {<<j, n>>}
      BY <1>2 DEF DeferralsOf
    <3>2. Cardinality(DeferralsOf(j)') = Cardinality(DeferralsOf(j)) + 1
      BY <1>4, <3>1, CreditsAreCounted, FS_AddElement DEF DeferralsOf
    <3> QED
      BY <1>2, <3>2, CreditsAreCounted DEF Paid
  <2>3. Paid(j) = retries[j] + 1 /\ retries[j] \in Nat
    BY <1>2, CreditsAreCounted DEF ClaimsInv, ClaimsArePaid
  <2> QED
    BY <1>2, <2>1, <2>2, <2>3 DEF ClaimsInv, ClaimsArePaid
<1> QED
  BY <1>5, <1>6, <1>7 DEF ClaimsInv
(* The other steps of the worker end a job or publish its run.              *)
LEMMA WorkerClaims ==
    ASSUME TypeInv, ClaimsInv, WorkerStep
    PROVE  ClaimsInv'
<1>1. /\ runs \in [Runs -> RunRows] /\ jobs \in [Jobs -> JobRows]
  BY DEF TypeInv, TypeOK
<1>2. ASSUME NEW j \in Jobs, NEW n \in ClaimNumbers, NEW r \in Runs, NEW v \in VersionNumbers,
             Publish(j, n, r, v) \/ PublishDirect(j, n, r, v)
      PROVE  ClaimsInv'
  <2>1. /\ jobs' = jobs \/ jobs' = [jobs EXCEPT ![j].status = "success"]
        /\ jobs[j].status = "running"
        /\ UNCHANGED <<deferrals, retries>> /\ RecordArtifact(j, r, v)
    BY <1>2 DEF Publish, PublishDirect, PublishAllowed, OwnsClaim
  <2>2. \A q \in Runs : \/ runs'[q] = runs[q]
                        \/ /\ runs'[q].job = runs[q].job
                           /\ runs'[q].attempt = runs[q].attempt
                           /\ runs'[q].status = "success"
    BY <1>1, <2>1 DEF RecordArtifact, RunRows
  <2>3. \A k \in Jobs : \/ jobs'[k] = jobs[k]
                        \/ /\ jobs'[k].attempt = jobs[k].attempt
                           /\ jobs'[k].status = "success"
    BY <1>1, <2>1 DEF JobRows
  <2> QED
    BY <2>1, <2>2, <2>3, StandingClaims DEF ClaimsStand
<1>3. ASSUME NEW j \in Jobs, NEW n \in ClaimNumbers, NEW r \in Runs, Complete(j, n, r)
      PROVE  ClaimsInv'
  <2>1. /\ jobs' = [jobs EXCEPT ![j].status = "success"]
        /\ UNCHANGED <<deferrals, retries, runs>>
    BY <1>3 DEF Complete
  <2>2. \A k \in Jobs : \/ jobs'[k] = jobs[k]
                        \/ /\ jobs'[k].attempt = jobs[k].attempt
                           /\ jobs'[k].status = "success"
    BY <1>1, <2>1 DEF JobRows
  <2> QED
    BY <2>1, <2>2, StandingClaims DEF ClaimsStand
<1> QED
  BY <1>2, <1>3, ClaimClaims, StartClaims, FailClaims, DeferClaims DEF WorkerStep

(* A person's decision retires every job, or inserts one, or both.          *)
JobsRetired(f) ==
    \A k \in Jobs : \/ ~Active(k) /\ f[k] = jobs[k]
                    \/ /\ Active(k) /\ f[k].status \in FinalStatuses
                       /\ f[k].attempt = jobs[k].attempt
                       /\ f[k].repair = jobs[k].repair
RunsRetired(g) ==
    \A q \in Runs : \/ g[q] = runs[q]
                    \/ /\ g[q].job = runs[q].job /\ g[q].attempt = runs[q].attempt

LEMMA DecisionsRetire ==
    ASSUME TypeInv
    PROVE  /\ JobsRetired(CanceledJobs) /\ JobsRetired(SettledJobs)
           /\ JobsRetired([k \in Jobs |-> IF Active(k)
                    THEN [jobs[k] EXCEPT !.status = RetiredByReview(k)] ELSE jobs[k]])
           /\ ActiveJobs = {} => JobsRetired(jobs)
           /\ RunsRetired(CanceledRuns) /\ RunsRetired(runs)
           /\ RunsRetired([q \in Runs |-> IF Live(q) /\ runs[q].job \in ActiveJobs
                    THEN [runs[q] EXCEPT !.status = "canceled"] ELSE runs[q]])
<1>1. /\ runs \in [Runs -> RunRows] /\ jobs \in [Jobs -> JobRows]
  BY DEF TypeInv, TypeOK
<1>2. JobsRetired(CanceledJobs) /\ JobsRetired(SettledJobs)
  BY <1>1 DEF JobsRetired, CanceledJobs, SettledJobs, JobRows, FinalStatuses
<1>3. JobsRetired([k \in Jobs |-> IF Active(k)
                    THEN [jobs[k] EXCEPT !.status = RetiredByReview(k)] ELSE jobs[k]])
  <2>1. \A k \in Jobs : RetiredByReview(k) \in FinalStatuses
    BY DEF RetiredByReview, FinalStatuses
  <2> QED
    BY <1>1, <2>1 DEF JobsRetired, JobRows
<1>4. ActiveJobs = {} => JobsRetired(jobs)
  BY DEF JobsRetired, ActiveJobs
<1>5. RunsRetired(CanceledRuns) /\ RunsRetired(runs)
  BY <1>1 DEF RunsRetired, CanceledRuns, RunRows
<1>6. RunsRetired([q \in Runs |-> IF Live(q) /\ runs[q].job \in ActiveJobs
                    THEN [runs[q] EXCEPT !.status = "canceled"] ELSE runs[q]])
  BY <1>1 DEF RunsRetired, RunRows
<1> QED
  BY <1>2, <1>3, <1>4, <1>5, <1>6

LEMMA RetiredClaims ==
    ASSUME TypeInv, ClaimsInv, UNCHANGED <<deferrals, retries>>,
           JobsRetired(jobs'), RunsRetired(runs')
    PROVE  ClaimsInv'
<1>1. \A k \in Jobs : ~Active(k)'
  BY DEF JobsRetired, Active, ActiveStatuses, FinalStatuses
<1>2. \A k \in Jobs : /\ jobs'[k].attempt = jobs[k].attempt
                      /\ jobs'[k].status \notin ActiveStatuses
                      /\ jobs'[k].status = "absent" => jobs'[k] = jobs[k]
  BY <1>1 DEF JobsRetired, Active, FinalStatuses
<1> QED
  BY <1>2, StandingClaims DEF ClaimsStand, RunsRetired, ActiveStatuses

LEMMA InsertedClaims ==
    ASSUME TypeInv, ClaimsInv, UNCHANGED <<deferrals, retries>>,
           NEW f, NEW g, JobsRetired(f), RunsRetired(g),
           f \in [Jobs -> JobRows], g \in [Runs -> RunRows],
           NEW j \in Jobs, NEW r \in Runs, Unused(j, r),
           NEW t \in Stages, NEW repair \in BOOLEAN,
           jobs' = [f EXCEPT ![j] = QueuedJob(t, repair)],
           runs' = [g EXCEPT ![r] = QueuedRun(j, t)]
    PROVE  ClaimsInv'
<1>1. /\ jobs'[j].status = "queued" /\ jobs'[j].attempt = 0
      /\ \A k \in Jobs \ {j} : jobs'[k] = f[k]
  BY DEF QueuedJob, NoJob
<1>2. /\ runs'[r].attempt = 0 /\ \A q \in Runs \ {r} : runs'[q] = g[q]
  BY DEF QueuedRun, NoRun
<1>3. jobs[j].status = "absent" /\ jobs[j].attempt = 0
  BY DEF Unused, ClaimsInv, UnusedJobs
<1>4. \A k \in Jobs : /\ jobs'[k].attempt = jobs[k].attempt
                      /\ jobs'[k].status # "running"
                      /\ jobs'[k].status = "queued" => jobs[k].status = "absent"
                      /\ jobs'[k].status = "absent" => jobs'[k] = jobs[k]
  BY <1>1, <1>3 DEF JobsRetired, Active, ActiveStatuses, FinalStatuses
<1>5. \A q \in Runs : \/ runs'[q].attempt = 0
                      \/ runs'[q] = runs[q]
                      \/ runs'[q].job = runs[q].job /\ runs'[q].attempt = runs[q].attempt
  BY <1>2 DEF RunsRetired
<1> QED
  BY <1>4, <1>5, StandingClaims DEF ClaimsStand

LEMMA ReviewClaims ==
    ASSUME TypeInv, ClaimsInv, ReviewStep
    PROVE  ClaimsInv'
<1>1. /\ session \in SessionRows /\ runs \in [Runs -> RunRows] /\ jobs \in [Jobs -> JobRows]
  BY DEF TypeInv, TypeOK
<1>2. ASSUME NEW a \in Runs, NEW j \in Jobs, NEW r \in Runs, ApproveAndAdvance(a, j, r)
      PROVE  ClaimsInv'
  <2>1. PICK s \in RefreshOutcomes(session) :
          \/ UNCHANGED <<jobs, runs>>
          \/ /\ Unused(j, r)
             /\ jobs' = [SettledJobs EXCEPT ![j] = QueuedJob(s.stage + 1, FALSE)]
             /\ runs' = [runs EXCEPT ![r] = QueuedRun(j, s.stage + 1)]
    BY <1>2 DEF ApproveAndAdvance
  <2>2. s.stage + 1 \in Stages
    BY <1>1, <1>2, BudgetKeepsRow, StageAssumption
       DEF ApproveAndAdvance, HasLaterStage, Stages, SessionRows
  <2>3. UNCHANGED <<deferrals, retries>>
    BY <1>2 DEF ApproveAndAdvance
  <2>4. CASE UNCHANGED <<jobs, runs>>
    BY <2>3, <2>4, StandingClaims DEF ClaimsStand
  <2> QED
    BY <1>1, <2>1, <2>2, <2>3, <2>4, DecisionsRetire, RetiredRows, InsertedClaims
<1>3. ASSUME NEW a \in Runs, ApproveDelivery(a) PROVE ClaimsInv'
  BY <1>3, DecisionsRetire, RetiredClaims DEF ApproveDelivery
<1>4. ASSUME NEW a \in Runs, RejectExhausted(a) \/ RejectAdopt(a) PROVE ClaimsInv'
  BY <1>4, StandingClaims DEF RejectExhausted, RejectAdopt, ClaimsStand
<1>5. ASSUME NEW a \in Runs, NEW j \in Jobs, NEW r \in Runs, RejectAndRepair(a, j, r)
      PROVE  ClaimsInv'
  <2> DEFINE f == [k \in Jobs |-> IF Active(k)
                    THEN [jobs[k] EXCEPT !.status = RetiredByReview(k)] ELSE jobs[k]]
             g == [q \in Runs |-> IF Live(q) /\ runs[q].job \in ActiveJobs
                    THEN [runs[q] EXCEPT !.status = "canceled"] ELSE runs[q]]
  <2>1. f \in [Jobs -> JobRows]
    <3>1. \A k \in Jobs : RetiredByReview(k) \in FinalStatuses
      BY DEF RetiredByReview, FinalStatuses
    <3> QED
      BY <1>1, <3>1 DEF JobRows
  <2>2. g \in [Runs -> RunRows]
    BY <1>1 DEF RunRows, FinalStatuses
  <2>3. /\ Unused(j, r) /\ UNCHANGED <<deferrals, retries>>
        /\ jobs' = [f EXCEPT ![j] = QueuedJob(session.stage, TRUE)]
        /\ runs' = [g EXCEPT ![r] = QueuedRun(j, session.stage)]
    BY <1>5 DEF RejectAndRepair
  <2>4. JobsRetired(f) /\ RunsRetired(g)
    BY DecisionsRetire
  <2>5. session.stage \in Stages
    BY <1>1 DEF SessionRows
  <2> HIDE DEF f, g
  <2> QED
    BY <2>1, <2>2, <2>3, <2>4, <2>5, InsertedClaims
<1> QED
  BY <1>2, <1>3, <1>4, <1>5 DEF ReviewStep

LEMMA ControlClaims ==
    ASSUME TypeInv, ClaimsInv, ControlStep
    PROVE  ClaimsInv'
<1>1. /\ session \in SessionRows /\ runs \in [Runs -> RunRows] /\ jobs \in [Jobs -> JobRows]
  BY DEF TypeInv, TypeOK
<1>2. ASSUME NEW j \in Jobs, NEW r \in Runs, Enqueue(j, r) PROVE ClaimsInv'
  <2>1. PICK s \in RefreshOutcomes(session) :
          \/ UNCHANGED <<jobs, runs>>
          \/ /\ jobs' = [jobs EXCEPT ![j] = QueuedJob(s.stage, TRUE)]
             /\ runs' = [runs EXCEPT ![r] = QueuedRun(j, s.stage)]
    BY <1>2 DEF Enqueue
  <2>2. s.stage \in Stages
    BY <1>1, BudgetKeepsRow DEF SessionRows
  <2>3. /\ UNCHANGED <<deferrals, retries>> /\ ActiveJobs = {} /\ Unused(j, r)
    BY <1>2 DEF Enqueue
  <2>4. CASE UNCHANGED <<jobs, runs>>
    BY <2>3, <2>4, StandingClaims DEF ClaimsStand
  <2>5. CASE /\ jobs' = [jobs EXCEPT ![j] = QueuedJob(s.stage, TRUE)]
             /\ runs' = [runs EXCEPT ![r] = QueuedRun(j, s.stage)]
    <3>1. JobsRetired(jobs) /\ RunsRetired(runs)
      BY <2>3, DecisionsRetire
    <3> QED
      BY <1>1, <2>2, <2>3, <2>5, <3>1, InsertedClaims, Zenon
  <2> QED
    BY <2>1, <2>4, <2>5
<1>3. ASSUME NEW t \in Stages, NEW rework \in BOOLEAN, NEW j \in Jobs, NEW r \in Runs,
             Reroute(t, rework, j, r)
      PROVE  ClaimsInv'
  <2>1. \/ UNCHANGED <<jobs, runs>>
        \/ /\ Unused(j, r)
           /\ jobs' = [CanceledJobs EXCEPT ![j] = QueuedJob(t, rework)]
           /\ runs' = [CanceledRuns EXCEPT ![r] = QueuedRun(j, t)]
    BY <1>3 DEF Reroute
  <2>2. UNCHANGED <<deferrals, retries>>
    BY <1>3 DEF Reroute
  <2>3. CASE UNCHANGED <<jobs, runs>>
    BY <2>2, <2>3, StandingClaims DEF ClaimsStand
  <2>4. CASE /\ Unused(j, r)
             /\ jobs' = [CanceledJobs EXCEPT ![j] = QueuedJob(t, rework)]
             /\ runs' = [CanceledRuns EXCEPT ![r] = QueuedRun(j, t)]
    <3>1. /\ JobsRetired(CanceledJobs) /\ RunsRetired(CanceledRuns)
          /\ CanceledJobs \in [Jobs -> JobRows] /\ CanceledRuns \in [Runs -> RunRows]
      BY DecisionsRetire, RetiredRows
    <3> QED
      BY <2>2, <2>4, <3>1, InsertedClaims, Zenon
  <2> QED
    BY <2>1, <2>3, <2>4
<1>4. ASSUME NEW x, Cancel(x) \/ \E done \in BOOLEAN : Archive(done)
      PROVE  ClaimsInv'
  BY <1>4, DecisionsRetire, RetiredClaims DEF Cancel, Archive
<1>5. CASE Unarchive \/ SetRelease \/ ReadBudget
  BY <1>5, StandingClaims DEF Unarchive, SetRelease, ReadBudget, ClaimsStand
<1> QED
  BY <1>2, <1>3, <1>4, <1>5 DEF ControlStep

LEMMA InitClaims == Init => ClaimsInv
<1> SUFFICES ASSUME Init PROVE ClaimsInv
  OBVIOUS
<1>1. PICK j \in Jobs, r \in Runs :
        /\ jobs = [k \in Jobs |-> IF k = j THEN QueuedJob(1, FALSE) ELSE NoJob]
        /\ runs = [q \in Runs |-> IF q = r THEN QueuedRun(j, 1) ELSE NoRun]
  BY DEF Init
<1>2. \A k \in Jobs : /\ jobs[k].attempt = 0 /\ jobs[k].status \in {"absent", "queued"}
                      /\ jobs[k].status = "absent" => jobs[k].repair = FALSE
  BY <1>1 DEF QueuedJob, NoJob
<1>3. \A q \in Runs : runs[q].attempt = 0
  BY <1>1 DEF QueuedRun, NoRun
<1>4. deferrals = {} /\ \A k \in Jobs : retries[k] = 0
  BY DEF Init
<1>5. \A k \in Jobs : Paid(k) = 0
  <2>1. \A k \in Jobs : DeferralsOf(k) = {}
    BY <1>4 DEF DeferralsOf
  <2> QED
    BY <1>2, <2>1, FS_EmptySet DEF Paid
<1>6. NewestClaims /\ UnusedJobs
  BY <1>2, <1>3, <1>4 DEF NewestClaims, UnusedJobs
<1>7. DeferredClaimsNeverRan
  BY <1>4, FS_EmptySet DEF DeferredClaimsNeverRan
<1>8. ClaimsArePaid
  BY <1>2, <1>4, <1>5 DEF ClaimsArePaid
<1> QED
  BY <1>6, <1>7, <1>8 DEF ClaimsInv

LEMMA StepClaims == TypeInv /\ ClaimsInv /\ [Next]_vars => ClaimsInv'
<1>1. ASSUME TypeInv, ClaimsInv, UNCHANGED vars PROVE ClaimsInv'
  BY <1>1, StandingClaims DEF vars, ClaimsStand
<1> QED
  BY <1>1, WorkerClaims, ReviewClaims, ControlClaims DEF Next

LEMMA ClaimsInvariance == Spec => []ClaimsInv
<1> QED
  BY InitClaims, StepClaims, TypeInvariance, PTL DEF Spec

(* The claims of every job add up: a claim was given back once, without     *)
(* having executed anything, or it failed and was retried, or it is the     *)
(* last.  The limit is compared with the claims that were not given back.   *)
THEOREM ClaimsAddUp == Spec => []ClaimsAccounted
<1>1. TypeInv /\ ClaimsInv => ClaimsAccounted
  <2> SUFFICES ASSUME TypeInv, ClaimsInv PROVE ClaimsAccounted
    OBVIOUS
  <2>1. \A j \in Jobs : DeferralsOf(j) = {d \in deferrals : d[1] = j}
    BY DEF DeferralsOf
  <2>2. \A j \in Jobs : jobs[j].status = "running" =>
            EffectiveAttempt(j, jobs[j].attempt) = Paid(j)
    BY CreditsAreCounted
  <2> QED
    BY <2>1, <2>2 DEF ClaimsAccounted, ClaimsInv, ClaimsArePaid, DeferredClaimsNeverRan, Paid
<1> QED
  BY <1>1, TypeInvariance, ClaimsInvariance, PTL
-----------------------------------------------------------------------------
(* Repairs: the inductive invariant *)

RepairJobs == {j \in Jobs : jobs[j].repair}
RetrySlots == {p \in Jobs \X (1..MaxRetries) : p[2] <= retries[p[1]]}

(* The slots taken are those of the repair jobs and of the retries; both    *)
(* can be counted, however many jobs there may be.                          *)
RepairsInv ==
    /\ IsFiniteSet(RepairJobs) /\ IsFiniteSet(RetrySlots)
    /\ PolicyPinned =>
        /\ session.repairs <= MaxRepairs
        /\ session.repairs = Cardinality(RepairJobs) + Cardinality(RetrySlots)

(* The budget's operators: only a reservation takes a slot, and only while  *)
(* one is left.                                                             *)
LEMMA BudgetKeepsSlots ==
    ASSUME NEW s \in SessionRows
    PROVE  /\ \A t \in RefreshOutcomes(s) : t.repairs = s.repairs
           /\ \A code : Exhaust(s, code).repairs = s.repairs
           /\ RepairAdmitted(s) => Reserve(s).repairs = s.repairs + 1
           /\ ~RepairAdmitted(s) => Reserve(s).repairs = s.repairs
           /\ (PolicyPinned /\ RepairAdmitted(s)) => s.repairs < MaxRepairs
           /\ AfterInsert(s, FALSE) = s
           /\ PolicyPinned => AfterInsert(s, TRUE) = Reserve(s)
<1>1. \A code : Exhaust(s, code).repairs = s.repairs
  BY DEF Exhaust, SessionRows
<1>2. \A t \in RefreshOutcomes(s) : t.repairs = s.repairs
  BY <1>1 DEF RefreshOutcomes
<1>3. RepairAdmitted(s) => Reserve(s).repairs = s.repairs + 1
  BY DEF Reserve, SessionRows
<1>4. ~RepairAdmitted(s) => Reserve(s).repairs = s.repairs
  BY <1>1 DEF Reserve
<1>5. (PolicyPinned /\ RepairAdmitted(s)) => s.repairs < MaxRepairs
  BY LimitAssumption DEF RepairAdmitted, RepairsSpent, SessionRows
<1>6. AfterInsert(s, FALSE) = s /\ (PolicyPinned => AfterInsert(s, TRUE) = Reserve(s))
  BY DEF AfterInsert
<1> QED
  BY <1>1, <1>2, <1>3, <1>4, <1>5, <1>6

(* No repair is begun. *)
RepairsStand == /\ \A k \in Jobs : jobs'[k].repair = jobs[k].repair
                /\ retries' = retries
                /\ session'.repairs = session.repairs

LEMMA StandingRepairs == RepairsInv /\ RepairsStand => RepairsInv'
<1> SUFFICES ASSUME RepairsInv, RepairsStand PROVE RepairsInv'
  OBVIOUS
<1>1. RepairJobs' = RepairJobs
  BY DEF RepairsStand, RepairJobs
<1>2. RetrySlots' = RetrySlots
  BY DEF RepairsStand, RetrySlots
<1> QED
  BY <1>1, <1>2 DEF RepairsInv, RepairsStand

(* A repair job takes a slot when it is inserted... *)
LEMMA RepairInserted ==
    ASSUME TypeInv, ClaimsInv, RepairsInv, NEW j \in Jobs, jobs[j].status = "absent",
           jobs'[j].repair = TRUE, \A k \in Jobs \ {j} : jobs'[k].repair = jobs[k].repair,
           retries' = retries,
           PolicyPinned => /\ session.repairs < MaxRepairs
                           /\ session'.repairs = session.repairs + 1
    PROVE  RepairsInv'
<1>1. RepairJobs' = RepairJobs \cup {j}
  BY DEF RepairJobs
<1>2. j \notin RepairJobs
  BY DEF ClaimsInv, UnusedJobs, RepairJobs
<1>3. RetrySlots' = RetrySlots
  BY DEF RetrySlots
<1>4. /\ IsFiniteSet(RepairJobs')
      /\ Cardinality(RepairJobs') = Cardinality(RepairJobs) + 1
  BY <1>1, <1>2, FS_AddElement DEF RepairsInv
<1>5. /\ Cardinality(RepairJobs) \in Nat /\ Cardinality(RetrySlots) \in Nat
      /\ session.repairs \in Nat
  BY FS_CardinalityType DEF RepairsInv, TypeInv, TypeOK, SessionRows
<1> QED
  BY <1>3, <1>4, <1>5, LimitAssumption DEF RepairsInv

(* ... and a retry when it is queued. *)
LEMMA RetryQueued ==
    ASSUME TypeInv, ClaimsInv', RepairsInv, NEW j \in Jobs,
           \A k \in Jobs : jobs'[k].repair = jobs[k].repair,
           retries' = [retries EXCEPT ![j] = @ + 1],
           PolicyPinned => /\ session.repairs < MaxRepairs
                           /\ session'.repairs = session.repairs + 1
    PROVE  RepairsInv'
<1> DEFINE slot == <<j, retries[j] + 1>>
<1>1. RepairJobs' = RepairJobs
  BY DEF RepairJobs
<1>2. /\ retries \in [Jobs -> Nat] /\ retries'[j] = retries[j] + 1
      /\ \A k \in Jobs \ {j} : retries'[k] = retries[k]
  BY DEF TypeInv, TypeOK
<1>3. retries[j] + 1 \in 1..MaxRetries
  BY <1>2, LimitAssumption DEF ClaimsInv, ClaimsArePaid
<1>4. RetrySlots' = RetrySlots \cup {slot} /\ slot \notin RetrySlots
  <2>1. ASSUME NEW k \in Jobs, NEW i \in 1..MaxRetries
        PROVE  i <= retries'[k] <=> (i <= retries[k] \/ <<k, i>> = slot)
    BY <1>2, LimitAssumption
  <2>2. slot \in Jobs \X (1..MaxRetries) /\ slot[1] = j /\ slot[2] = retries[j] + 1
    BY <1>3
  <2>3. \A p \in Jobs \X (1..MaxRetries) : p[2] <= retries'[p[1]] <=>
            (p[2] <= retries[p[1]] \/ p = slot)
    BY <2>1
  <2>4. slot \notin RetrySlots
    BY <1>2, <2>2 DEF RetrySlots
  <2>5. RetrySlots' = {p \in Jobs \X (1..MaxRetries) : p[2] <= retries'[p[1]]}
    BY DEF RetrySlots
  <2> HIDE DEF slot
  <2> QED
    BY <2>2, <2>3, <2>4, <2>5 DEF RetrySlots
<1>5. /\ IsFiniteSet(RetrySlots')
      /\ Cardinality(RetrySlots') = Cardinality(RetrySlots) + 1
  BY <1>4, FS_AddElement DEF RepairsInv
<1>6. /\ Cardinality(RepairJobs) \in Nat /\ Cardinality(RetrySlots) \in Nat
      /\ session.repairs \in Nat
  BY FS_CardinalityType DEF RepairsInv, TypeInv, TypeOK, SessionRows
<1> QED
  BY <1>1, <1>5, <1>6, LimitAssumption DEF RepairsInv

LEMMA WorkerRepairs ==
    ASSUME TypeInv, ClaimsInv, ClaimsInv', RepairsInv, WorkerStep
    PROVE  RepairsInv'
<1>1. /\ session \in SessionRows /\ jobs \in [Jobs -> JobRows]
      /\ \A s \in RefreshOutcomes(session) : s \in SessionRows /\ s.repairs = session.repairs
  BY BudgetKeepsRow, BudgetKeepsSlots DEF TypeInv, TypeOK
<1>2. ASSUME NEW j \in Jobs, NEW n \in ClaimNumbers,
             Claim(j) \/ Defer(j, n) \/ \E r \in Runs : Complete(j, n, r)
      PROVE  RepairsInv'
  BY <1>1, <1>2, StandingRepairs DEF Claim, Defer, Complete, RepairsStand, JobRows
<1>3. ASSUME NEW j \in Jobs, NEW n \in ClaimNumbers, NEW st \in Stages,
             NEW v \in VersionNumbers, NEW r \in Runs, Start(j, n, st, v, r)
      PROVE  RepairsInv'
  BY <1>1, <1>3, StandingRepairs DEF Start, RepairsStand, SessionRows
<1>4. ASSUME NEW j \in Jobs, NEW n \in ClaimNumbers, NEW r \in Runs,
             NEW v \in VersionNumbers, Publish(j, n, r, v) \/ PublishDirect(j, n, r, v)
      PROVE  RepairsInv'
  <2>1. /\ jobs' = jobs \/ jobs' = [jobs EXCEPT ![j].status = "success"]
        /\ retries' = retries /\ RecordArtifact(j, r, v)
    BY <1>4 DEF Publish, PublishDirect
  <2>2. \A k \in Jobs : jobs'[k].repair = jobs[k].repair
    BY <1>1, <2>1 DEF JobRows
  <2>3. session'.repairs = session.repairs
    BY <1>1, <2>1 DEF RecordArtifact, SessionRows
  <2> QED
    BY <2>1, <2>2, <2>3, StandingRepairs DEF RepairsStand
<1>5. ASSUME NEW j \in Jobs, NEW n \in ClaimNumbers, NEW r \in Runs \cup {None},
             NEW retry \in BOOLEAN, Fail(j, n, r, retry)
      PROVE  RepairsInv'
  <2>1. PICK s \in RefreshOutcomes(session), wanted \in BOOLEAN :
          LET retrying == wanted /\ RepairAdmitted(s)
              after    == IF wanted THEN Reserve(s) ELSE s
          IN  /\ jobs' = [jobs EXCEPT ![j].status =
                            IF retrying THEN "queued" ELSE "error"]
              /\ retries' = IF retrying THEN [retries EXCEPT ![j] = @ + 1] ELSE retries
              /\ session' = IF OwnsCurrentStage(j)
                            THEN [after EXCEPT !.phase = "rejected"] ELSE after
    BY <1>5 DEF Fail
  <2>2. \A k \in Jobs : jobs'[k].repair = jobs[k].repair
    BY <1>1, <2>1 DEF JobRows
  <2>3. \A t \in SessionRows : [t EXCEPT !.phase = "rejected"].repairs = t.repairs
    BY DEF SessionRows
  <2>4. s \in SessionRows /\ Reserve(s) \in SessionRows /\ s.repairs = session.repairs
    BY <1>1, BudgetKeepsRow
  <2>5. session'.repairs = (IF wanted THEN Reserve(s) ELSE s).repairs
    BY <2>1, <2>3, <2>4
  <2>6. CASE wanted /\ RepairAdmitted(s)
    <3>1. PolicyPinned => /\ session.repairs < MaxRepairs
                          /\ session'.repairs = session.repairs + 1
      BY <2>4, <2>5, <2>6, BudgetKeepsSlots
    <3>2. retries' = [retries EXCEPT ![j] = @ + 1]
      BY <2>1, <2>6
    <3> QED
      BY <2>2, <3>1, <3>2, RetryQueued
  <2>7. CASE ~(wanted /\ RepairAdmitted(s))
    <3>1. session'.repairs = session.repairs
      BY <2>4, <2>5, <2>7, BudgetKeepsSlots
    <3>2. retries' = retries
      BY <2>1, <2>7
    <3> QED
      BY <2>2, <3>1, <3>2, StandingRepairs DEF RepairsStand
  <2> QED
    BY <2>6, <2>7
<1> QED
  BY <1>2, <1>3, <1>4, <1>5, LimitAssumption DEF WorkerStep, ClaimNumbers

LEMMA ReviewRepairs ==
    ASSUME TypeInv, ClaimsInv, RepairsInv, ReviewStep
    PROVE  RepairsInv'
<1>1. /\ session \in SessionRows /\ jobs \in [Jobs -> JobRows]
      /\ \A s \in RefreshOutcomes(session) : s \in SessionRows /\ s.repairs = session.repairs
  BY BudgetKeepsRow, BudgetKeepsSlots DEF TypeInv, TypeOK
<1>2. \A k \in Jobs : SettledJobs[k].repair = jobs[k].repair
  BY <1>1, DecisionsRetire DEF JobsRetired
<1>3. ASSUME NEW a \in Runs, NEW j \in Jobs, NEW r \in Runs, ApproveAndAdvance(a, j, r)
      PROVE  RepairsInv'
  <2>1. PICK s \in RefreshOutcomes(session) :
          \/ UNCHANGED jobs /\ session' = s
          \/ /\ Unused(j, r)
             /\ jobs' = [SettledJobs EXCEPT ![j] = QueuedJob(s.stage + 1, FALSE)]
             /\ session' = [s EXCEPT !.stage = @ + 1, !.artifact = None,
                                     !.version = StageVersion(s.stage + 1),
                                     !.phase = "in_progress"]
    BY <1>3 DEF ApproveAndAdvance
  <2>2. session'.repairs = session.repairs
    BY <1>1, <2>1 DEF SessionRows
  <2>3. Unused(j, r) => jobs[j].repair = FALSE
    BY DEF Unused, ClaimsInv, UnusedJobs
  <2>4. \A k \in Jobs : jobs'[k].repair = jobs[k].repair
    BY <1>2, <2>1, <2>3 DEF SettledJobs, QueuedJob, NoJob
  <2>5. retries' = retries
    BY <1>3 DEF ApproveAndAdvance
  <2> QED
    BY <2>2, <2>4, <2>5, StandingRepairs DEF RepairsStand
<1>4. ASSUME NEW a \in Runs, ApproveDelivery(a) PROVE RepairsInv'
  BY <1>1, <1>2, <1>4, StandingRepairs DEF ApproveDelivery, RepairsStand, SessionRows
<1>5. ASSUME NEW a \in Runs, RejectExhausted(a) PROVE RepairsInv'
  <2>1. PICK s \in RefreshOutcomes(session) :
          session' = [Exhaust(s, "repair_attempts") EXCEPT !.phase = "rejected"]
    BY <1>5 DEF RejectExhausted
  <2>2. /\ Exhaust(s, "repair_attempts") \in SessionRows
        /\ Exhaust(s, "repair_attempts").repairs = session.repairs
    BY <1>1, BudgetKeepsRow, BudgetKeepsSlots DEF ExhaustionCodes
  <2>3. session'.repairs = session.repairs
    BY <2>1, <2>2 DEF SessionRows
  <2> QED
    BY <1>5, <2>3, StandingRepairs DEF RejectExhausted, RepairsStand
<1>6. ASSUME NEW a \in Runs, RejectAdopt(a) PROVE RepairsInv'
  BY <1>1, <1>6, StandingRepairs DEF RejectAdopt, RepairsStand, SessionRows
<1>7. ASSUME NEW a \in Runs, NEW j \in Jobs, NEW r \in Runs, RejectAndRepair(a, j, r)
      PROVE  RepairsInv'
  <2> DEFINE f == [k \in Jobs |-> IF Active(k)
                    THEN [jobs[k] EXCEPT !.status = RetiredByReview(k)] ELSE jobs[k]]
  <2>1. /\ jobs[j].status = "absent" /\ retries' = retries
        /\ PolicyPinned => RepairAdmitted(session)
        /\ jobs' = [f EXCEPT ![j] = QueuedJob(session.stage, TRUE)]
        /\ session' = [AfterInsert(session, TRUE) EXCEPT !.phase = "rejected"]
    BY <1>7 DEF RejectAndRepair, Unused, InsertAdmitted
  <2>2. /\ jobs'[j].repair = TRUE
        /\ \A k \in Jobs \ {j} : jobs'[k].repair = jobs[k].repair
    <3>1. \A k \in Jobs : f[k].repair = jobs[k].repair
      BY DecisionsRetire DEF JobsRetired
    <3> QED
      BY <2>1, <3>1 DEF QueuedJob, NoJob
  <2>3. AfterInsert(session, TRUE) \in SessionRows
    BY <1>1, BudgetKeepsRow
  <2>4. session'.repairs = AfterInsert(session, TRUE).repairs
    BY <2>1, <2>3 DEF SessionRows
  <2>5. PolicyPinned => /\ session.repairs < MaxRepairs
                        /\ session'.repairs = session.repairs + 1
    BY <1>1, <2>1, <2>4, BudgetKeepsSlots
  <2> QED
    BY <2>1, <2>2, <2>5, RepairInserted
<1> QED
  BY <1>3, <1>4, <1>5, <1>6, <1>7 DEF ReviewStep

LEMMA ControlRepairs ==
    ASSUME TypeInv, ClaimsInv, RepairsInv, ControlStep
    PROVE  RepairsInv'
<1>1. /\ session \in SessionRows /\ jobs \in [Jobs -> JobRows]
      /\ \A s \in RefreshOutcomes(session) : s \in SessionRows /\ s.repairs = session.repairs
  BY BudgetKeepsRow, BudgetKeepsSlots DEF TypeInv, TypeOK
<1>2. \A k \in Jobs : CanceledJobs[k].repair = jobs[k].repair
  BY <1>1, DecisionsRetire DEF JobsRetired
<1>3. ASSUME NEW j \in Jobs, NEW r \in Runs, Enqueue(j, r) PROVE RepairsInv'
  <2>1. PICK s \in RefreshOutcomes(session) :
          IF InsertAdmitted(s, TRUE)
          THEN /\ session' = AfterInsert(s, TRUE)
               /\ jobs' = [jobs EXCEPT ![j] = QueuedJob(s.stage, TRUE)]
          ELSE session' = Reserve(s) /\ UNCHANGED jobs
    BY <1>3 DEF Enqueue
  <2>2. jobs[j].status = "absent" /\ retries' = retries
    BY <1>3 DEF Enqueue, Unused
  <2>3. CASE InsertAdmitted(s, TRUE)
    <3>1. /\ jobs'[j].repair = TRUE
          /\ \A k \in Jobs \ {j} : jobs'[k].repair = jobs[k].repair
      BY <1>1, <2>1, <2>3 DEF QueuedJob, NoJob
    <3>2. PolicyPinned => /\ session.repairs < MaxRepairs
                          /\ session'.repairs = session.repairs + 1
      <4>1. PolicyPinned => RepairAdmitted(s)
        BY <2>3 DEF InsertAdmitted
      <4>2. session' = AfterInsert(s, TRUE) /\ s \in SessionRows
        BY <1>1, <2>1, <2>3
      <4> QED
        BY <1>1, <4>1, <4>2, BudgetKeepsSlots
    <3> QED
      BY <2>2, <3>1, <3>2, RepairInserted
  <2>4. CASE ~InsertAdmitted(s, TRUE)
    <3>1. ~RepairAdmitted(s)
      BY <2>4 DEF InsertAdmitted
    <3>2. session'.repairs = session.repairs /\ jobs' = jobs
      BY <1>1, <2>1, <2>4, <3>1, BudgetKeepsSlots
    <3> QED
      BY <2>2, <3>2, StandingRepairs DEF RepairsStand
  <2> QED
    BY <2>3, <2>4
<1>4. ASSUME NEW t \in Stages, NEW rework \in BOOLEAN, NEW j \in Jobs, NEW r \in Runs,
             Reroute(t, rework, j, r)
      PROVE  RepairsInv'
  <2>1. PICK s \in RefreshOutcomes(session) :
          IF Exhausted(s) \/ (rework /\ RepairsSpent(s))
          THEN session' = Exhaust(s, "repair_attempts") /\ UNCHANGED jobs
          ELSE /\ Unused(j, r)
               /\ session' = [AfterInsert(s, rework) EXCEPT
                                !.stage = t, !.artifact = None,
                                !.version = StageVersion(t),
                                !.phase = "rejected"]
               /\ jobs' = [CanceledJobs EXCEPT ![j] = QueuedJob(t, rework)]
    BY <1>4 DEF Reroute
  <2>2. retries' = retries
    BY <1>4 DEF Reroute
  <2>3. CASE Exhausted(s) \/ (rework /\ RepairsSpent(s))
    <3>1. session' = Exhaust(s, "repair_attempts") /\ jobs' = jobs
      BY <2>1, <2>3
    <3>2. Exhaust(s, "repair_attempts").repairs = session.repairs
      BY <1>1, BudgetKeepsSlots
    <3> QED
      BY <2>2, <3>1, <3>2, StandingRepairs DEF RepairsStand
  <2>4. CASE ~(Exhausted(s) \/ (rework /\ RepairsSpent(s)))
    <3>1. PICK row : row = AfterInsert(s, rework)
      OBVIOUS
    <3>2. /\ jobs[j].status = "absent"
          /\ session' = [row EXCEPT !.stage = t, !.artifact = None,
                                    !.version = StageVersion(t),
                                    !.phase = "rejected"]
          /\ jobs' = [CanceledJobs EXCEPT ![j] = QueuedJob(t, rework)]
      BY <2>1, <2>4, <3>1 DEF Unused
    <3>3. row \in SessionRows
      BY <1>1, <3>1, BudgetKeepsRow
    <3>4. session'.repairs = row.repairs
      BY <3>2, <3>3 DEF SessionRows
    <3>5. /\ jobs'[j].repair = rework
          /\ \A k \in Jobs \ {j} : jobs'[k].repair = jobs[k].repair
      BY <1>2, <3>2 DEF CanceledJobs, QueuedJob, NoJob
    <3>6. CASE rework = TRUE
      <4>1. RepairAdmitted(s)
        BY <2>4, <3>6 DEF RepairAdmitted
      <4>2. PolicyPinned => /\ session.repairs < MaxRepairs
                            /\ session'.repairs = session.repairs + 1
        BY <1>1, <3>1, <3>4, <3>6, <4>1, BudgetKeepsSlots
      <4> QED
        BY <2>2, <3>2, <3>5, <3>6, <4>2, RepairInserted
    <3>7. CASE rework = FALSE
      <4>1. row = s
        BY <1>1, <3>1, <3>7, BudgetKeepsSlots
      <4>2. jobs[j].repair = FALSE
        BY <3>2 DEF ClaimsInv, UnusedJobs
      <4> QED
        BY <1>1, <2>2, <3>4, <3>5, <3>7, <4>1, <4>2, StandingRepairs DEF RepairsStand
    <3> QED
      BY <3>6, <3>7
  <2> QED
    BY <2>3, <2>4
<1>5. ASSUME NEW x, Cancel(x) \/ \E done \in BOOLEAN : Archive(done)
      PROVE  RepairsInv'
  BY <1>1, <1>2, <1>5, StandingRepairs DEF Cancel, Archive, RepairsStand, SessionRows
<1>6. CASE Unarchive \/ SetRelease \/ ReadBudget
  BY <1>1, <1>6, StandingRepairs
     DEF Unarchive, SetRelease, ReadBudget, RepairsStand, SessionRows
<1> QED
  BY <1>3, <1>4, <1>5, <1>6 DEF ControlStep

LEMMA InitRepairs == Init => RepairsInv
<1> SUFFICES ASSUME Init PROVE RepairsInv
  OBVIOUS
<1>1. PICK j \in Jobs : jobs = [k \in Jobs |-> IF k = j THEN QueuedJob(1, FALSE) ELSE NoJob]
  BY DEF Init
<1>2. RepairJobs = {}
  BY <1>1 DEF RepairJobs, QueuedJob, NoJob
<1>3. RetrySlots = {}
  BY LimitAssumption DEF Init, RetrySlots
<1>4. session.repairs = 0
  BY DEF Init
<1> QED
  BY <1>2, <1>3, <1>4, FS_EmptySet, LimitAssumption DEF RepairsInv

LEMMA StepRepairs ==
    TypeInv /\ ClaimsInv /\ ClaimsInv' /\ RepairsInv /\ [Next]_vars => RepairsInv'
<1>1. ASSUME RepairsInv, UNCHANGED vars PROVE RepairsInv'
  BY <1>1, StandingRepairs DEF vars, RepairsStand
<1> QED
  BY <1>1, WorkerRepairs, ReviewRepairs, ControlRepairs DEF Next

(* With a pinned policy every repair, asked for or automatic, has taken one *)
(* slot, and never more of them than the policy allows.                     *)
THEOREM RepairsAddUp == Spec => []RepairsAccounted
<1>1. RepairsInv => RepairsAccounted
  BY DEF RepairsInv, RepairsAccounted, RepairJobs, RetrySlots
<1> QED
  BY <1>1, InitRepairs, StepRepairs, TypeInvariance, ClaimsInvariance, PTL DEF Spec
=============================================================================
