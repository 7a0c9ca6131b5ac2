--------------------------- MODULE AuthoringProofs ---------------------------
(* Theorems about AssetAuthoring for any attempts, assets, handlers, families, *)
(* caps and bounds, with and without a Cloud Tasks queue.                      *)
EXTENDS AssetAuthoring, FiniteSetTheorems, WellFoundedInduction, TLAPS

-----------------------------------------------------------------------------
(* The inductive invariant.                                                  *)

\* The rows.
JobRow == [status : {"none", "pending", "claimed", "completed", "cancelled"},
           asset : Assets \cup {NoAsset}, live : BOOLEAN, fence : Nat]

OutboxRow == [status : {"none", "pending", "dispatched", "completed"}, gen : Deliveries]

WorkerRow == [at : Stages, attempt : Attempts \cup {NoAttempt}, gen : Deliveries, fence : Nat]

AttemptRow == [status : Statuses, asset : Assets \cup {NoAsset},
               kind : {"create", "revision", "upgrade"}, expected : Nat,
               candidate : Nat, overdue : BOOLEAN]

AssetRow == [preset : BOOLEAN, current : Nat, named : Nat,
             compat : {"none", "unsupported", "upgrading", "upgrade_failed", "ready"},
             active : Attempts \cup {NoAttempt}]

\* A handler past its admission is at an attempt, and past its claim at one with a job.
HandlerOK(w) ==
    /\ \/ worker[w].at \in {"idle", "recovering", "claiming"} /\ ~QueueConfigured
       \/ worker[w].at = "idle"
       \/ worker[w].attempt \in Attempts
    /\ worker[w].at \in RunStages =>
          worker[w].attempt \in Attempts /\ job[worker[w].attempt].status # "none"

HandlersOK == \A w \in Workers : HandlerOK(w)

\* An attempt that has begun, or is about to, is about an asset; the begun ones have a
\* job, and only they have a candidate or are being confirmed or discarded.
AttemptOK(a) ==
    /\ attempts[a].status # "none" \/ a \in beginning => attempts[a].asset \in Assets
    /\ attempts[a].status = "none" <=> job[a].status = "none"
    /\ attempts[a].status = "none" =>
          /\ attempts[a].candidate = 0
          /\ a \notin confirming /\ a \notin discarding

AttemptsOK == \A a \in Attempts : AttemptOK(a)

\* The current generation of an asset is its newest.
CurrentIsNewest == \A s \in Assets : assets[s].current = Len(generations[s])

\* The attempt an asset names is one of its own, engaged it, and has not ended.
ActiveOK ==
    \A s \in Assets :
        LET a == assets[s].active
        IN  a # NoAttempt => /\ attempts[a].status \in InFlight
                             /\ attempts[a].asset = s
                             /\ attempts[a].kind # "create"

AuthoringInv ==
    /\ TypeOK /\ HandlersOK /\ AttemptsOK
    /\ ClaimsWithinCap
    /\ CurrentIsNewest /\ NoLostRevision
    /\ ActiveOK

-----------------------------------------------------------------------------
(* What the transactions do to the job rows.                                 *)

USE DEF Statuses, InFlight, Working

JobRowsOK == job \in [Attempts -> JobRow] /\ outbox \in [Attempts -> OutboxRow]

\* No job is claimed, inserted or deleted: the rows keep their asset and their fence.
JobsKept ==
    /\ JobRowsOK'
    /\ \A a \in Attempts : /\ job'[a].asset = job[a].asset
                           /\ job'[a].fence = job[a].fence
                           /\ job'[a].status = "none" <=> job[a].status = "none"
                           /\ job'[a].status = "claimed" => job[a].status = "claimed"

LEMMA AttemptNumbers == Attempts \subseteq Nat /\ NoAttempt \notin Attempts
BY JobsAssumption, FS_CardinalityType DEF NoAttempt

LEMMA JobTypes ==
    ASSUME TypeOK
    PROVE  JobRowsOK /\ (UNCHANGED <<job, outbox>> => JobsKept)
BY DEF TypeOK, JobsTypeOK, JobRowsOK, JobRow, OutboxRow, JobsKept

LEMMA FinishKeeps ==
    ASSUME TypeOK, NEW a \in Attempts, NEW x \in {"completed", "cancelled"},
           FinishFamilyAuthoringJob(a, x)
    PROVE  JobsKept
<1>1. JobRowsOK
    BY JobTypes
<1>2. outbox' \in [Attempts -> OutboxRow]
    BY <1>1 DEF JobRowsOK, OutboxRow, FinishFamilyAuthoringJob
<1>3. CASE ~Open(a)
    BY <1>1, <1>2, <1>3 DEF JobRowsOK, JobsKept, FinishFamilyAuthoringJob
<1>4. CASE Open(a)
    <2>1. job' = [job EXCEPT ![a] = [job[a] EXCEPT !.status = x, !.live = FALSE]]
        BY <1>4 DEF FinishFamilyAuthoringJob
    <2>2. [job[a] EXCEPT !.status = x, !.live = FALSE] \in JobRow
        BY <1>1 DEF JobRowsOK, JobRow
    <2>3. job' \in [Attempts -> JobRow]
        BY <1>1, <2>1, <2>2 DEF JobRowsOK
    <2>4. ASSUME NEW b \in Attempts
          PROVE  /\ job'[b].asset = job[b].asset
                 /\ job'[b].fence = job[b].fence
                 /\ job'[b].status = "none" <=> job[b].status = "none"
                 /\ job'[b].status = "claimed" => job[b].status = "claimed"
        BY <1>1, <1>4, <2>1 DEF JobRowsOK, JobRow, Open
    <2> QED
        BY <1>2, <2>3, <2>4 DEF JobRowsOK, JobsKept
<1> QED
    BY <1>3, <1>4

LEMMA ReopenKeeps ==
    ASSUME TypeOK, NEW a \in Attempts, job[a].status # "none", ReopenFamilyAuthoringJob(a)
    PROVE  JobsKept
<1>1. JobRowsOK
    BY JobTypes
<1>2. outbox' \in [Attempts -> OutboxRow]
    <2>1. outbox[a].gen + 1 \in Deliveries
        BY <1>1, JobsAssumption DEF JobRowsOK, OutboxRow, Deliveries, ReopenFamilyAuthoringJob
    <2> QED
        BY <1>1, <2>1 DEF JobRowsOK, OutboxRow, ReopenFamilyAuthoringJob
<1>3. CASE Open(a)
    BY <1>1, <1>2, <1>3 DEF JobRowsOK, JobsKept, ReopenFamilyAuthoringJob
<1>4. CASE ~Open(a)
    <2>1. job' = [job EXCEPT ![a] = [job[a] EXCEPT !.status = "pending", !.live = FALSE]]
        BY <1>4 DEF ReopenFamilyAuthoringJob
    <2>2. [job[a] EXCEPT !.status = "pending", !.live = FALSE] \in JobRow
        BY <1>1 DEF JobRowsOK, JobRow
    <2>3. job' \in [Attempts -> JobRow]
        BY <1>1, <2>1, <2>2 DEF JobRowsOK
    <2>4. ASSUME NEW b \in Attempts
          PROVE  /\ job'[b].asset = job[b].asset
                 /\ job'[b].fence = job[b].fence
                 /\ job'[b].status = "none" <=> job[b].status = "none"
                 /\ job'[b].status = "claimed" => job[b].status = "claimed"
        BY <1>1, <1>4, <2>1 DEF JobRowsOK, JobRow, Open
    <2> QED
        BY <1>2, <2>3, <2>4 DEF JobRowsOK, JobsKept
<1> QED
    BY <1>3, <1>4

LEMMA InsertEffect ==
    ASSUME TypeOK, NEW a \in Attempts, NEW s \in Assets, InsertFamilyAuthoringJob(a, s)
    PROVE  /\ JobRowsOK'
           /\ job'[a].status = "pending"
           /\ \A b \in Attempts : b # a => job'[b] = job[b]
<1>1. JobRowsOK
    BY JobTypes
<1>2. 0 \in Deliveries
    BY JobsAssumption DEF Deliveries
<1> QED
    BY <1>1, <1>2 DEF JobRowsOK, JobRow, OutboxRow, InsertFamilyAuthoringJob, NoJob

\* A claim that the cap and its siblings admit.
Admitted(w, a) ==
    /\ job[a].status = "pending" /\ Cardinality(Claimed) < Cap /\ ~SiblingClaimed(a)
    /\ TakeClaim(w, a)
    /\ UNCHANGED <<outbox, tasks, posted, faults, authoringVars>>

LEMMA ClaimEffect ==
    ASSUME TypeOK, NEW w \in Workers, NEW a \in Attempts, Admitted(w, a)
    PROVE  /\ JobRowsOK'
           /\ job'[a].status = "claimed" /\ job'[a].asset = job[a].asset
           /\ \A b \in Attempts : b # a => job'[b] = job[b]
<1>1. JobRowsOK
    BY JobTypes
<1>2. job' = [job EXCEPT ![a] = [job[a] EXCEPT !.status = "claimed", !.live = TRUE,
                                               !.fence = job[a].fence + 1]]
    BY DEF Admitted, TakeClaim
<1>3. [job[a] EXCEPT !.status = "claimed", !.live = TRUE, !.fence = job[a].fence + 1] \in JobRow
    <2>1. PICK row \in JobRow : row = job[a]
        BY <1>1 DEF JobRowsOK
    <2>2. row.fence + 1 \in Nat
        BY DEF JobRow
    <2> QED
        BY <2>1, <2>2 DEF JobRow
<1>4. job' \in [Attempts -> JobRow] /\ outbox' = outbox
    BY <1>1, <1>2, <1>3 DEF JobRowsOK, Admitted
<1> QED
    BY <1>1, <1>2, <1>4 DEF JobRowsOK, JobRow

\* A handler past its admission is at an attempt.
LEMMA AtAttempt ==
    ASSUME HandlersOK, NEW w \in Workers,
           \/ worker[w].at \in {"arrived", "closing", "deferring", "answering"} \cup RunStages
           \/ worker[w].at \in {"recovering", "claiming"} /\ QueueConfigured
    PROVE  worker[w].attempt \in Attempts
BY DEF HandlersOK, HandlerOK, RunStages

\* Among some attempts one is the oldest.
LEMMA OldestFirst ==
    ASSUME NEW S \in SUBSET Nat, S # {}
    PROVE  \E a \in S : \A b \in S : a <= b
<1> DEFINE less == OpToRel(<, Nat)
<1>1. \E a \in S : \A b \in S : <<b, a>> \notin less
    <2>1. IsWellFoundedOn(less, Nat)
        BY NatLessThanWellFounded
    <2> HIDE DEF less
    <2> QED
        BY <2>1, WFMin
<1>2. PICK a \in S : \A b \in S : <<b, a>> \notin less
    BY <1>1
<1>3. ASSUME NEW b \in S PROVE a <= b
    <2>1. <<b, a>> \in Nat \X Nat /\ <<b, a>> \notin less
        BY <1>2
    <2>2. ~(b < a)
        BY <2>1 DEF OpToRel
    <2> QED
        BY <2>2
<1> QED
    BY <1>3

\* A woken handler claims the oldest free job, or has nothing to do.
LEMMA NextIsAdmitted ==
    ASSUME NEW w \in Workers, ClaimNextFamilyAuthoringJob(w), UNCHANGED authoringVars
    PROVE  \/ worker' = [worker EXCEPT ![w] = IdleWorker] /\ UNCHANGED job
           \/ \E a \in Attempts : Admitted(w, a)
<1> DEFINE free == {a \in Attempts : job[a].status = "pending" /\ ~SiblingClaimed(a)}
           first == CHOOSE a \in free : \A b \in free : a <= b
<1>1. CASE free = {} \/ Cardinality(Claimed) >= Cap
    BY <1>1 DEF ClaimNextFamilyAuthoringJob
<1>2. CASE ~(free = {} \/ Cardinality(Claimed) >= Cap)
    <2>1. first \in free
        <3>1. free # {} /\ free \subseteq Nat
            BY <1>2, AttemptNumbers
        <3>2. \E a \in free : \A b \in free : a <= b
            <4> HIDE DEF free
            <4> QED
                BY <3>1, OldestFirst
        <3> QED
            BY <3>2
    <2>2. Cardinality(Claimed) < Cap
        <3>1. IsFiniteSet(Claimed)
            BY JobsAssumption, FS_Subset DEF Claimed
        <3> QED
            BY <1>2, <3>1, JobsAssumption, FS_CardinalityType
    <2>3. TakeClaim(w, first) /\ UNCHANGED <<outbox, tasks, posted, faults>>
        BY <1>2 DEF ClaimNextFamilyAuthoringJob
    <2> QED
        BY <2>1, <2>2, <2>3 DEF Admitted
<1> QED
    BY <1>1, <1>2

\* Who writes the job rows.
LEMMA QueueWrites ==
    ASSUME TypeOK, HandlersOK, JobsNext, UNCHANGED authoringVars
    PROVE  JobsKept \/ \E w \in Workers, a \in Attempts : Admitted(w, a)
<1>r. JobRowsOK
    BY JobTypes
<1>0. ASSUME UNCHANGED <<job, outbox>> PROVE JobsKept
    BY <1>0, JobTypes
\* The outbox row of one attempt.
<1>o. ASSUME NEW a \in Attempts, NEW row \in OutboxRow,
             job' = job, outbox' = [outbox EXCEPT ![a] = row]
      PROVE  JobsKept
    BY <1>r, <1>o DEF JobRowsOK, JobsKept
<1>1. ASSUME NEW a \in Attempts, EnqueueAuthoringTask(a) \/ DispatcherDies(a) PROVE JobsKept
    BY <1>0, <1>1 DEF EnqueueAuthoringTask, DispatcherDies
<1>2. ASSUME NEW a \in Attempts, MarkDispatched(a) PROVE JobsKept
    <2>1. [outbox[a] EXCEPT !.status = "dispatched"] \in OutboxRow
        BY <1>r DEF JobRowsOK, OutboxRow
    <2> QED
        BY <1>0, <1>2, <1>o, <2>1 DEF MarkDispatched
<1>3. ASSUME NEW a \in Attempts, RecoverStaleAuthoringOutbox(a) PROVE JobsKept
    <2>1. outbox[a].gen + 1 \in Deliveries
        BY <1>3, <1>r, JobsAssumption
        DEF JobRowsOK, OutboxRow, Deliveries, RecoverStaleAuthoringOutbox
    <2>2. [status |-> "pending", gen |-> outbox[a].gen + 1] \in OutboxRow
        BY <2>1 DEF OutboxRow
    <2> QED
        BY <1>3, <1>o, <2>2 DEF RecoverStaleAuthoringOutbox
<1>4. ASSUME NEW a \in Attempts, LeaseLapses(a) PROVE JobsKept
    <2>1. [job[a] EXCEPT !.live = FALSE] \in JobRow
        BY <1>r DEF JobRowsOK, JobRow
    <2>2. job' = [job EXCEPT ![a] = [job[a] EXCEPT !.live = FALSE]] /\ outbox' = outbox
        BY <1>4 DEF LeaseLapses
    <2> QED
        BY <1>r, <2>1, <2>2 DEF JobRowsOK, JobRow, JobsKept
<1>5. ASSUME \/ \E a \in Attempts, g \in Deliveries : DropTask(a, g)
             \/ \E w \in Workers, a \in Attempts, g \in Deliveries : Deliver(w, a, g)
      PROVE  JobsKept
    BY <1>0, <1>5 DEF DropTask, Deliver
<1>6. ASSUME NEW w \in Workers,
             InspectOutbox(w) \/ WakeAuthoringJobs(w) \/ WorkerDies(w) \/ Answer(w)
      PROVE  JobsKept
    BY <1>0, <1>6 DEF InspectOutbox, WakeAuthoringJobs, WorkerDies, Answer
<1>7. ASSUME NEW w \in Workers, RecoverExpiredFamilyAuthoringJobs(w) PROVE JobsKept
    <2>1. /\ job' = [a \in Attempts |-> IF Lapsed(a) THEN [job[a] EXCEPT !.status = "pending"]
                                       ELSE job[a]]
          /\ outbox' = outbox
        BY <1>7 DEF RecoverExpiredFamilyAuthoringJobs
    <2>2. ASSUME NEW a \in Attempts
          PROVE  /\ job'[a] \in JobRow
                 /\ job'[a].asset = job[a].asset
                 /\ job'[a].fence = job[a].fence
                 /\ job'[a].status = "none" <=> job[a].status = "none"
                 /\ job'[a].status = "claimed" => job[a].status = "claimed"
        <3>1. PICK row \in JobRow : row = job[a]
            BY <1>r DEF JobRowsOK
        <3> QED
            BY <2>1, <3>1 DEF JobRow, Lapsed
    <2> QED
        BY <1>r, <2>1, <2>2 DEF JobRowsOK, JobsKept
<1>8. ASSUME NEW w \in Workers, ClaimFamilyAuthoringJob(w)
      PROVE  JobsKept \/ \E a \in Attempts : Admitted(w, a)
    <2>1. worker[w].attempt \in Attempts
        BY <1>8, AtAttempt DEF ClaimFamilyAuthoringJob
    <2>2. UNCHANGED job \/ Admitted(w, worker[w].attempt)
        BY <1>8 DEF ClaimFamilyAuthoringJob, Admitted
    <2> QED
        BY <1>0, <1>8, <2>1, <2>2 DEF ClaimFamilyAuthoringJob
<1>9. ASSUME NEW w \in Workers, ClaimNextFamilyAuthoringJob(w)
      PROVE  JobsKept \/ \E a \in Attempts : Admitted(w, a)
    BY <1>0, <1>9, NextIsAdmitted DEF ClaimNextFamilyAuthoringJob
<1>10. ASSUME NEW w \in Workers,
              CompleteAuthoringOutboxDelivery(w) \/ DeferAuthoringOutboxDelivery(w)
       PROVE  JobsKept
    <2>1. worker[w].attempt \in Attempts
        BY <1>10, AtAttempt DEF CompleteAuthoringOutboxDelivery, DeferAuthoringOutboxDelivery
    <2>2. \/ UNCHANGED outbox
          \/ \E x \in {"completed", "pending"} :
                outbox' = [outbox EXCEPT ![worker[w].attempt] =
                              [outbox[worker[w].attempt] EXCEPT !.status = x]]
        BY <1>10 DEF CompleteAuthoringOutboxDelivery, DeferAuthoringOutboxDelivery
    <2>3. \A x \in {"completed", "pending"} :
             [outbox[worker[w].attempt] EXCEPT !.status = x] \in OutboxRow
        BY <1>r, <2>1 DEF JobRowsOK, OutboxRow
    <2> QED
        BY <1>0, <1>10, <1>o, <2>1, <2>2, <2>3
        DEF CompleteAuthoringOutboxDelivery, DeferAuthoringOutboxDelivery
<1>11. ASSUME NEW a \in Attempts, Dispatch(a) \/ DispatcherDies(a) \/ LeaseLapses(a)
       PROVE  JobsKept
    BY <1>1, <1>2, <1>3, <1>4, <1>11 DEF Dispatch
<1>12. ASSUME NEW w \in Workers, Admit(w) \/ WakeAuthoringJobs(w) \/ WorkerDies(w)
       PROVE  JobsKept \/ \E a \in Attempts : Admitted(w, a)
    BY <1>6, <1>7, <1>8, <1>9, <1>10, <1>12 DEF Admit
<1> QED
    BY <1>5, <1>11, <1>12 DEF JobsNext

LEMMA JobWrites ==
    ASSUME AuthoringInv, [Next]_vars
    PROVE  \/ JobsKept
           \/ \E w \in Workers, a \in Attempts : Admitted(w, a)
           \/ \E a \in Attempts : BeginInserts(a)
<1> USE DEF AuthoringInv
<1>0. ASSUME UNCHANGED <<job, outbox>> PROVE JobsKept
    BY <1>0, JobTypes
<1>1. CASE JobsNext /\ UNCHANGED authoringVars
    BY <1>1, QueueWrites
<1>2. ASSUME NEW a \in Attempts, OwnerStep(a) PROVE JobsKept \/ BeginInserts(a)
    <2>1. CASE AdjustCandidate(a)
        <3>1. job[a].status # "none" /\ ReopenFamilyAuthoringJob(a)
            BY <2>1 DEF AdjustCandidate, AttemptsOK, AttemptOK
        <3> QED
            BY <3>1, ReopenKeeps
    <2>2. CASE DiscardCommits(a)
        BY <1>0, <2>2, FinishKeeps DEF DiscardCommits
    <2>3. CASE \/ \E s \in Assets, kind \in {"create", "revision", "upgrade"} : BeginReads(a, s, kind)
               \/ ConfirmReads(a) \/ ConfirmCommits(a) \/ ConfirmDrifts(a) \/ ConfirmExpires(a)
               \/ AttemptOverdue(a) \/ DiscardReads(a)
        BY <1>0, <2>3
        DEF BeginReads, ConfirmReads, ConfirmCommits, ConfirmDrifts, ConfirmExpires,
            AttemptOverdue, DiscardReads, jobVars
    <2> QED
        BY <1>2, <2>1, <2>2, <2>3 DEF OwnerStep
<1>3. ASSUME NEW w \in Workers, Run(w) \/ FinishErrs(w) PROVE JobsKept
    <2>1. CASE FinishJob(w)
        <3>1. worker[w].attempt \in Attempts
            BY <2>1, AtAttempt DEF FinishJob, RunStages
        <3>2. UNCHANGED <<job, outbox>> \/ \E x \in {"completed", "cancelled"} :
                 FinishFamilyAuthoringJob(worker[w].attempt, x)
            BY <2>1 DEF FinishJob
        <3> QED
            BY <1>0, <3>1, <3>2, FinishKeeps
    <2>2. CASE FailAttempt(w)
        <3>1. worker[w].attempt \in Attempts
            BY <2>2, AtAttempt DEF FailAttempt, RunStages
        <3>2. \/ UNCHANGED <<job, outbox>>
              \/ FinishFamilyAuthoringJob(worker[w].attempt, "cancelled")
            BY <2>2 DEF FailAttempt
        <3> QED
            BY <1>0, <3>1, <3>2, FinishKeeps
    <2>3. CASE \/ ReadAttempt(w) \/ MarkGenerating(w) \/ GenerationFails(w) \/ SaveCandidate(w)
               \/ FinishErrs(w)
        BY <1>0, <2>3 DEF ReadAttempt, MarkGenerating, GenerationFails, SaveCandidate, FinishErrs
    <2> QED
        BY <1>3, <2>1, <2>2, <2>3 DEF Run
<1>4. ASSUME NEW s \in Assets, ImageRequested(s) \/ ActivateImageRevision(s) PROVE JobsKept
    BY <1>0, <1>4 DEF ImageRequested, ActivateImageRevision, jobVars
<1>5. CASE UNCHANGED vars
    BY <1>0, <1>5 DEF vars, jobVars
<1> QED
    BY <1>1, <1>2, <1>3, <1>4, <1>5 DEF Next

\* An attempt that is inserted now is about an asset, and had no job.
LEMMA InsertedJob ==
    ASSUME AuthoringInv, NEW a \in Attempts, BeginInserts(a)
    PROVE  /\ AssetOf(a) \in Assets
           /\ JobRowsOK'
           /\ job'[a].status = "pending"
           /\ \A b \in Attempts : b # a => job'[b] = job[b]
<1>1. AssetOf(a) \in Assets
    BY DEF AuthoringInv, AttemptsOK, AttemptOK, BeginInserts, AssetOf
<1> QED
    BY <1>1, InsertEffect DEF AuthoringInv, BeginInserts

-----------------------------------------------------------------------------
(* The cap, and one claim per asset.                                         *)

LEMMA OneMore ==
    ASSUME NEW S, IsFiniteSet(S), NEW a, NEW T \in SUBSET (S \cup {a}), Cardinality(S) < Cap
    PROVE  Cardinality(T) <= Cap
<1>1. Cardinality(S) \in Nat /\ Cap \in Nat
    BY FS_CardinalityType, JobsAssumption
<1>2. /\ IsFiniteSet(S \cup {a})
      /\ \/ Cardinality(S \cup {a}) = Cardinality(S)
         \/ Cardinality(S \cup {a}) = Cardinality(S) + 1
    BY FS_AddElement
<1>3. IsFiniteSet(T) /\ Cardinality(T) <= Cardinality(S \cup {a})
    BY <1>2, FS_Subset
<1>4. Cardinality(T) \in Nat
    BY <1>3, FS_CardinalityType
<1> QED
    BY <1>1, <1>2, <1>3, <1>4

LEMMA ClaimsStep ==
    ASSUME AuthoringInv, [Next]_vars
    PROVE  ClaimsWithinCap'
<1> USE DEF AuthoringInv
<1>f. IsFiniteSet(Claimed) /\ Cardinality(Claimed) \in Nat /\ Cap \in Nat
    <2>1. IsFiniteSet(Claimed)
        BY JobsAssumption, FS_Subset DEF Claimed
    <2> QED
        BY <2>1, FS_CardinalityType, JobsAssumption
\* A step that claims nothing.
<1>1. ASSUME \A a \in Attempts :
                job'[a].status = "claimed" =>
                   job[a].status = "claimed" /\ job'[a].asset = job[a].asset
      PROVE  ClaimsWithinCap'
    <2>1. Claimed' \subseteq Claimed /\ \A a \in Claimed' : job'[a].asset = job[a].asset
        BY <1>1 DEF Claimed
    <2>2. Cardinality(Claimed') <= Cardinality(Claimed) /\ Cardinality(Claimed') \in Nat
        BY <1>f, <2>1, FS_Subset, FS_CardinalityType
    <2> QED
        BY <1>f, <2>1, <2>2 DEF ClaimsWithinCap
<1>2. CASE JobsKept
    BY <1>1, <1>2 DEF JobsKept
<1>3. ASSUME NEW a \in Attempts, BeginInserts(a) PROVE ClaimsWithinCap'
    BY <1>1, <1>3, InsertedJob
<1>4. ASSUME NEW w \in Workers, NEW a \in Attempts, Admitted(w, a) PROVE ClaimsWithinCap'
    <2>1. /\ job'[a].asset = job[a].asset
          /\ \A b \in Attempts : b # a => job'[b] = job[b]
        BY <1>4, ClaimEffect
    <2>2. Claimed' \subseteq Claimed \cup {a}
        BY <2>1 DEF Claimed
    <2>3. Cardinality(Claimed') <= Cap
        BY <1>4, <1>f, <2>2, OneMore DEF Admitted
    <2>4. \A b \in Claimed : job[b].asset # job[a].asset
        BY <1>4 DEF Admitted, SiblingClaimed
    <2>5. ASSUME NEW b \in Claimed', NEW c \in Claimed', job'[b].asset = job'[c].asset
          PROVE  b = c
        <3>1. b \in Attempts /\ c \in Attempts
            BY DEF Claimed
        <3> QED
            BY <2>1, <2>2, <2>4, <2>5, <3>1 DEF ClaimsWithinCap
    <2> QED
        BY <2>3, <2>5 DEF ClaimsWithinCap
<1> QED
    BY <1>2, <1>3, <1>4, JobWrites

-----------------------------------------------------------------------------
(* The rows of the attempts.                                                 *)

AttemptRowsOK == /\ attempts \in [Attempts -> AttemptRow]
                 /\ latest \in [Assets -> Attempts \cup {NoAttempt}]

LEMMA AttemptTypes ==
    ASSUME TypeOK
    PROVE  AttemptRowsOK /\ (UNCHANGED <<attempts, latest>> => AttemptRowsOK')
BY DEF TypeOK, AttemptRowsOK, AttemptRow

\* An attempt that has begun, or begins now, gets a new row; what it is about stays.
Rewrites(a, row) ==
    /\ attempts[a].status # "none" \/ BeginInserts(a)
    /\ row \in AttemptRow
    /\ row.status # "none"
    /\ row.asset = attempts[a].asset /\ row.kind = attempts[a].kind
    /\ row.candidate = attempts[a].candidate \/ row.candidate = job[a].fence
    /\ attempts' = [attempts EXCEPT ![a] = row]
    /\ latest' = latest \/ latest' = [latest EXCEPT ![AssetOf(a)] = a]

\* A begun attempt gets a new status and keeps all else.
LEMMA StatusRewrites ==
    ASSUME TypeOK, NEW a \in Attempts, NEW x \in Statuses, x # "none",
           attempts[a].status # "none" \/ BeginInserts(a),
           SetAttempt(a, [attempts[a] EXCEPT !.status = x])
    PROVE  Rewrites(a, [attempts[a] EXCEPT !.status = x])
<1>1. attempts[a] \in AttemptRow
    BY AttemptTypes DEF AttemptRowsOK
<1> QED
    BY <1>1 DEF AttemptRow, Rewrites, SetAttempt

\* The attempt of a handler that holds a claim has begun.
LEMMA RunAttempt ==
    ASSUME HandlersOK, AttemptsOK, NEW w \in Workers, worker[w].at \in RunStages
    PROVE  worker[w].attempt \in Attempts /\ attempts[worker[w].attempt].status # "none"
BY DEF HandlersOK, HandlerOK, AttemptsOK, AttemptOK

LEMMA AttemptWrites ==
    ASSUME AuthoringInv, [Next]_vars
    PROVE  \/ UNCHANGED <<attempts, latest>>
           \/ \E a \in Attempts, s \in Assets, kind \in {"create", "revision", "upgrade"} :
                 BeginReads(a, s, kind)
           \/ \E a \in Attempts, row \in AttemptRow : Rewrites(a, row)
<1> USE DEF AuthoringInv
<1>r. AttemptRowsOK
    BY AttemptTypes
<1>1. ASSUME NEW a \in Attempts, BeginInserts(a) PROVE \E row \in AttemptRow : Rewrites(a, row)
    <2>1. Rewrites(a, [attempts[a] EXCEPT !.status = "pending_structure"])
        BY <1>1, StatusRewrites DEF BeginInserts
    <2> QED
        BY <2>1 DEF Rewrites
<1>2. ASSUME NEW a \in Attempts,
             AdjustCandidate(a) \/ ConfirmCommits(a) \/ ConfirmExpires(a) \/ DiscardCommits(a)
      PROVE  UNCHANGED <<attempts, latest>> \/ \E row \in AttemptRow : Rewrites(a, row)
    <2>1. attempts[a].status # "none"
        BY <1>2
        DEF AdjustCandidate, ConfirmCommits, ConfirmExpires, DiscardCommits, AttemptsOK, AttemptOK
    <2>2. \/ UNCHANGED <<attempts, latest>>
          \/ \E x \in {"pending_structure", "succeeded", "expired", "discarded"} :
                SetAttempt(a, [attempts[a] EXCEPT !.status = x])
        BY <1>2
        DEF AdjustCandidate, ConfirmCommits, ConfirmExpires, DiscardCommits, AttemptUnchanged
    <2>3. ASSUME NEW x \in {"pending_structure", "succeeded", "expired", "discarded"},
                 SetAttempt(a, [attempts[a] EXCEPT !.status = x])
          PROVE  \E row \in AttemptRow : Rewrites(a, row)
        <3>1. Rewrites(a, [attempts[a] EXCEPT !.status = x])
            BY <2>1, <2>3, StatusRewrites
        <3> QED
            BY <3>1 DEF Rewrites
    <2> QED
        BY <2>2, <2>3
<1>3. ASSUME NEW a \in Attempts, AttemptOverdue(a) PROVE \E row \in AttemptRow : Rewrites(a, row)
    <2> DEFINE row == [attempts[a] EXCEPT !.overdue = TRUE]
    <2>1. attempts[a] \in AttemptRow
        BY <1>r DEF AttemptRowsOK
    <2>2. row \in AttemptRow /\ row.status # "none" /\ attempts[a].status # "none"
        BY <1>3, <2>1 DEF AttemptOverdue, AttemptRow
    <2>3. attempts' = [attempts EXCEPT ![a] = row] /\ latest' = latest
        BY <1>3 DEF AttemptOverdue
    <2>4. Rewrites(a, row)
        BY <2>1, <2>2, <2>3 DEF Rewrites, AttemptRow
    <2> QED
        BY <2>2, <2>4
<1>4. ASSUME NEW w \in Workers, MarkGenerating(w) \/ FailAttempt(w)
      PROVE  \/ UNCHANGED <<attempts, latest>>
             \/ \E row \in AttemptRow : Rewrites(worker[w].attempt, row)
    <2>1. /\ worker[w].attempt \in Attempts
          /\ attempts[worker[w].attempt].status # "none"
        BY <1>4, RunAttempt DEF MarkGenerating, FailAttempt, RunStages
    <2>2. \/ UNCHANGED <<attempts, latest>>
          \/ \E x \in {"generating_structure", "failed"} :
                SetAttempt(worker[w].attempt, [attempts[worker[w].attempt] EXCEPT !.status = x])
        BY <1>4 DEF MarkGenerating, FailAttempt, AttemptUnchanged
    <2>3. ASSUME NEW x \in {"generating_structure", "failed"},
                 SetAttempt(worker[w].attempt, [attempts[worker[w].attempt] EXCEPT !.status = x])
          PROVE  \E row \in AttemptRow : Rewrites(worker[w].attempt, row)
        <3>1. Rewrites(worker[w].attempt, [attempts[worker[w].attempt] EXCEPT !.status = x])
            BY <2>1, <2>3, StatusRewrites
        <3> QED
            BY <3>1 DEF Rewrites
    <2> QED
        BY <2>2, <2>3
<1>5. ASSUME NEW w \in Workers, SaveCandidate(w)
      PROVE  \/ UNCHANGED <<attempts, latest>>
             \/ \E row \in AttemptRow : Rewrites(worker[w].attempt, row)
    <2> DEFINE a == worker[w].attempt
               row == [attempts[a] EXCEPT !.status = "awaiting_owner_acceptance",
                                          !.candidate = worker[w].fence]
    <2>1. a \in Attempts /\ attempts[a].status # "none"
        BY <1>5, RunAttempt DEF SaveCandidate, RunStages
    <2>2. \/ UNCHANGED <<attempts, latest>>
          \/ Holds(w) /\ SetAttempt(a, row)
        BY <1>5 DEF SaveCandidate, AttemptUnchanged
    <2>3. ASSUME Holds(w), SetAttempt(a, row) PROVE Rewrites(a, row) /\ row \in AttemptRow
        <3>1. attempts[a] \in AttemptRow /\ job[a].fence = worker[w].fence /\ job[a] \in JobRow
            BY <1>r, <2>1, <2>3, JobTypes DEF AttemptRowsOK, JobRowsOK, Holds
        <3>2. row \in AttemptRow
            BY <3>1 DEF AttemptRow, JobRow
        <3> QED
            BY <2>1, <2>3, <3>1, <3>2 DEF Rewrites, AttemptRow, SetAttempt
    <2> QED
        BY <2>1, <2>2, <2>3
<1>6. ASSUME NEW a \in Attempts, OwnerStep(a)
      PROVE  \/ UNCHANGED <<attempts, latest>>
             \/ \E s \in Assets, kind \in {"create", "revision", "upgrade"} : BeginReads(a, s, kind)
             \/ \E row \in AttemptRow : Rewrites(a, row)
    <2>1. CASE ConfirmReads(a) \/ ConfirmDrifts(a) \/ DiscardReads(a)
        BY <2>1 DEF ConfirmReads, ConfirmDrifts, DiscardReads
    <2> QED
        BY <1>1, <1>2, <1>3, <1>6, <2>1 DEF OwnerStep
<1>7. ASSUME NEW w \in Workers, Run(w) \/ FinishErrs(w)
      PROVE  \/ UNCHANGED <<attempts, latest>>
             \/ \E a \in Attempts, row \in AttemptRow : Rewrites(a, row)
    <2>1. CASE ReadAttempt(w) \/ GenerationFails(w) \/ FinishJob(w) \/ FinishErrs(w)
        BY <2>1 DEF ReadAttempt, GenerationFails, FinishJob, FinishErrs, rowVars
    <2>2. CASE MarkGenerating(w) \/ FailAttempt(w) \/ SaveCandidate(w)
        <3>1. worker[w].attempt \in Attempts
            BY <2>2, RunAttempt DEF MarkGenerating, FailAttempt, SaveCandidate, RunStages
        <3> QED
            BY <1>4, <1>5, <2>2, <3>1
    <2> QED
        BY <1>7, <2>1, <2>2 DEF Run
<1>8. ASSUME NEW s \in Assets, ImageRequested(s) \/ ActivateImageRevision(s)
      PROVE  UNCHANGED <<attempts, latest>>
    BY <1>8 DEF ImageRequested, ActivateImageRevision
<1>9. CASE (JobsNext /\ UNCHANGED authoringVars) \/ UNCHANGED vars
    BY <1>9 DEF authoringVars, vars
<1> QED
    BY <1>6, <1>7, <1>8, <1>9 DEF Next

\* What a BeginReads writes.
LEMMA BeginEffect ==
    ASSUME TypeOK, NEW a \in Attempts, NEW s \in Assets,
           NEW kind \in {"create", "revision", "upgrade"}, BeginReads(a, s, kind)
    PROVE  /\ AttemptRowsOK'
           /\ attempts[a].status = "none" /\ attempts'[a].status = "none"
           /\ attempts'[a].asset \in Assets /\ attempts'[a].candidate = 0
           /\ \A b \in Attempts : b # a => attempts'[b] = attempts[b]
<1> DEFINE row == [NewAttempt EXCEPT !.asset = s, !.kind = kind, !.expected = assets[s].current]
<1>1. attempts' = [attempts EXCEPT ![a] = row] /\ latest' = latest /\ attempts[a].status = "none"
    BY DEF BeginReads
<1>2. assets[s].current \in Nat
    BY DEF TypeOK
<1>3. row \in AttemptRow /\ row.status = "none" /\ row.asset = s /\ row.candidate = 0
    BY <1>2 DEF NewAttempt, AttemptRow
<1> HIDE DEF row
<1> QED
    BY <1>1, <1>3, AttemptTypes DEF AttemptRowsOK

\* What a new row of an attempt leaves alone.
LEMMA RewriteEffect ==
    ASSUME TypeOK, NEW a \in Attempts, NEW row \in AttemptRow, Rewrites(a, row)
    PROVE  /\ AttemptRowsOK'
           /\ attempts'[a] = row
           /\ \A b \in Attempts : b # a => attempts'[b] = attempts[b]
           /\ \A b \in Attempts : /\ attempts'[b].asset = attempts[b].asset
                                  /\ attempts'[b].kind = attempts[b].kind
BY AttemptTypes DEF Rewrites, AttemptRowsOK

OwnerOK ==
    /\ notices \subseteq Attempts \X {"ready", "failed"}
    /\ beginning \subseteq Attempts /\ confirming \subseteq Attempts /\ discarding \subseteq Attempts
    /\ drawing \in [Assets -> Nat]
    /\ acts \in 0..MaxActs

\* What the owner is in the middle of.
LEMMA OwnerSteps ==
    ASSUME AuthoringInv, [Next]_vars
    PROVE  /\ OwnerOK'
           /\ \A b \in beginning' : \/ b \in beginning
                                    \/ \E s \in Assets, kind \in {"create", "revision", "upgrade"} :
                                          BeginReads(b, s, kind)
           /\ \A b \in confirming' \cup discarding' :
                 b \in confirming \cup discarding \/ attempts[b].status # "none"
<1> DEFINE Goal ==
        /\ OwnerOK'
        /\ \A b \in beginning' : \/ b \in beginning
                                 \/ \E s \in Assets, kind \in {"create", "revision", "upgrade"} :
                                       BeginReads(b, s, kind)
        /\ \A b \in confirming' \cup discarding' :
              b \in confirming \cup discarding \/ attempts[b].status # "none"
<1> USE DEF AuthoringInv
<1>r. OwnerOK
    BY DEF TypeOK, OwnerOK
<1>1. CASE UNCHANGED <<notices, ownerVars>>
    BY <1>1, <1>r DEF ownerVars, OwnerOK
<1>a. ASSUME NEW kind, Act(kind) PROVE acts' \in 0..MaxActs
    BY <1>a, <1>r, AuthoringAssumption DEF Act, OwnerOK
<1>2. ASSUME NEW a \in Attempts, NEW s \in Assets, NEW kind \in {"create", "revision", "upgrade"},
             BeginReads(a, s, kind)
      PROVE  Goal
    <2>1. /\ beginning' = beginning \cup {a}
          /\ UNCHANGED <<notices, confirming, discarding, drawing, acts>>
        BY <1>2 DEF BeginReads
    <2> QED
        BY <1>2, <1>r, <2>1 DEF OwnerOK
<1>3. ASSUME NEW a \in Attempts, BeginInserts(a) PROVE Goal
    BY <1>3, <1>r DEF BeginInserts, OwnerOK
<1>4. ASSUME NEW a \in Attempts, AdjustCandidate(a) \/ ConfirmExpires(a) \/ AttemptOverdue(a)
      PROVE  Goal
    <2>1. acts' \in 0..MaxActs
        BY <1>4, <1>a DEF AdjustCandidate, ConfirmExpires, AttemptOverdue
    <2> QED
        BY <1>4, <1>r, <2>1 DEF AdjustCandidate, ConfirmExpires, AttemptOverdue, OwnerOK
<1>5. ASSUME NEW a \in Attempts, ConfirmReads(a) \/ DiscardReads(a) PROVE Goal
    <2>1. acts' \in 0..MaxActs
        BY <1>5, <1>a DEF ConfirmReads, DiscardReads
    <2> QED
        BY <1>5, <1>r, <2>1 DEF ConfirmReads, DiscardReads, OwnerOK
<1>6. ASSUME NEW a \in Attempts, ConfirmCommits(a) \/ ConfirmDrifts(a) \/ DiscardCommits(a)
      PROVE  Goal
    BY <1>6, <1>r DEF ConfirmCommits, ConfirmDrifts, DiscardCommits, OwnerOK
<1>7. ASSUME NEW s \in Assets, ImageRequested(s) PROVE Goal
    <2>1. acts' \in 0..MaxActs
        BY <1>7, <1>a DEF ImageRequested
    <2>2. assets[s].current \in Nat
        BY DEF TypeOK
    <2> QED
        BY <1>7, <1>r, <2>1, <2>2 DEF ImageRequested, OwnerOK
<1>8. ASSUME NEW s \in Assets, ActivateImageRevision(s) PROVE Goal
    BY <1>8, <1>r DEF ActivateImageRevision, OwnerOK
<1>9. ASSUME NEW w \in Workers, Run(w) \/ FinishErrs(w) PROVE Goal
    <2>1. UNCHANGED ownerVars
        BY <1>9 DEF Run, ReadAttempt, MarkGenerating, GenerationFails, SaveCandidate, FinishJob,
                    FailAttempt, FinishErrs, rowVars
    <2>2. notices' \subseteq Attempts \X {"ready", "failed"}
        <3>1. CASE UNCHANGED notices
            BY <1>r, <3>1 DEF OwnerOK
        <3>2. CASE SaveCandidate(w) \/ FailAttempt(w)
            <4>1. worker[w].attempt \in Attempts
                BY <3>2, RunAttempt DEF SaveCandidate, FailAttempt, RunStages
            <4>2. \/ notices' = notices
                  \/ notices' = notices \cup {<<worker[w].attempt, "ready">>}
                  \/ notices' = notices \cup {<<worker[w].attempt, "failed">>}
                BY <3>2 DEF SaveCandidate, FailAttempt
            <4> QED
                BY <1>r, <4>1, <4>2 DEF OwnerOK
        <3> QED
            BY <1>9, <3>1, <3>2 DEF Run, ReadAttempt, MarkGenerating, GenerationFails,
                                    FinishJob, FinishErrs, rowVars
    <2> QED
        BY <1>r, <2>1, <2>2 DEF ownerVars, OwnerOK
<1>10. CASE (JobsNext /\ UNCHANGED authoringVars) \/ UNCHANGED vars
    BY <1>1, <1>10 DEF vars, authoringVars, ownerVars
<1> QED
    BY <1>2, <1>3, <1>4, <1>5, <1>6, <1>7, <1>8, <1>9, <1>10 DEF Next, OwnerStep

LEMMA AttemptStep ==
    ASSUME AuthoringInv, [Next]_vars
    PROVE  AttemptRowsOK' /\ AttemptsOK'
<1> USE DEF AuthoringInv
<1>1. AttemptRowsOK'
    BY AttemptWrites, AttemptTypes, BeginEffect, RewriteEffect
<1> SUFFICES ASSUME NEW b \in Attempts PROVE AttemptOK(b)'
    BY <1>1 DEF AttemptsOK
<1>0. AttemptOK(b)
    BY DEF AttemptsOK
\* Only the insertion of an attempt gives it a status and a job.
<1>2. /\ ~BeginInserts(b) => (job'[b].status = "none" <=> job[b].status = "none")
      /\ BeginInserts(b) => job'[b].status # "none"
    <2>1. ASSUME NEW a \in Attempts, BeginInserts(a)
          PROVE  /\ a # b => job'[b] = job[b]
                 /\ a = b => job'[b].status # "none"
        BY <2>1, InsertedJob
    <2>2. ASSUME NEW w \in Workers, NEW a \in Attempts, Admitted(w, a)
          PROVE  job'[b].status = "none" <=> job[b].status = "none"
        BY <2>2, ClaimEffect DEF Admitted
    <2> QED
        BY <2>1, <2>2, JobWrites DEF JobsKept
<1>3. /\ attempts'[b].status = "none" <=> attempts[b].status = "none" /\ ~BeginInserts(b)
      /\ attempts'[b].status = "none" => attempts'[b].candidate = 0
      /\ attempts'[b].asset = attempts[b].asset \/ attempts'[b].asset \in Assets
    <2>1. BeginInserts(b) => attempts'[b].status # "none"
        <3>1. DOMAIN attempts = Attempts
            BY AttemptTypes DEF AttemptRowsOK
        <3>2. BeginInserts(b) => attempts' = [attempts EXCEPT ![b] =
                                                [attempts[b] EXCEPT !.status = "pending_structure"]]
            BY DEF BeginInserts, SetAttempt
        <3>3. attempts[b] \in AttemptRow
            BY AttemptTypes DEF AttemptRowsOK
        <3> QED
            BY <3>1, <3>2, <3>3 DEF AttemptRow
    <2>2. CASE UNCHANGED <<attempts, latest>>
        BY <1>0, <2>1, <2>2 DEF AttemptOK
    <2>3. ASSUME NEW a \in Attempts, NEW s \in Assets,
                 NEW kind \in {"create", "revision", "upgrade"}, BeginReads(a, s, kind)
          PROVE  /\ attempts'[b].status = "none" <=> attempts[b].status = "none"
                 /\ attempts'[b].status = "none" => attempts'[b].candidate = 0
                 /\ attempts'[b].asset = attempts[b].asset \/ attempts'[b].asset \in Assets
        BY <1>0, <2>3, BeginEffect DEF AttemptOK
    <2>4. ASSUME NEW a \in Attempts, NEW row \in AttemptRow, Rewrites(a, row)
          PROVE  /\ attempts'[b].status = "none" => attempts[b].status = "none"
                 /\ attempts[b].status = "none" /\ ~BeginInserts(b) => attempts'[b].status = "none"
                 /\ attempts'[b].status = "none" => attempts'[b].candidate = 0
                 /\ attempts'[b].asset = attempts[b].asset
        <3>1. /\ attempts'[a] = row /\ row.status # "none" /\ row.asset = attempts[a].asset
              /\ attempts[a].status # "none" \/ BeginInserts(a)
            BY <2>4, RewriteEffect DEF Rewrites
        <3>2. b # a => attempts'[b] = attempts[b]
            BY <2>4, RewriteEffect
        <3> QED
            BY <1>0, <3>1, <3>2 DEF AttemptOK
    <2> QED
        BY <2>1, <2>2, <2>3, <2>4, AttemptWrites
<1>4. attempts'[b].status # "none" \/ b \in beginning' => attempts'[b].asset \in Assets
    <2>1. ASSUME NEW s \in Assets, NEW kind \in {"create", "revision", "upgrade"},
                 BeginReads(b, s, kind)
          PROVE  attempts'[b].asset \in Assets
        BY <2>1, BeginEffect
    <2>2. BeginInserts(b) => b \in beginning
        BY DEF BeginInserts
    <2> QED
        BY <1>0, <1>3, <2>1, <2>2, OwnerSteps DEF AttemptOK
<1>5. attempts'[b].status = "none" => b \notin confirming' /\ b \notin discarding'
    BY <1>0, <1>3, OwnerSteps DEF AttemptOK
<1> QED
    BY <1>0, <1>2, <1>3, <1>4, <1>5 DEF AttemptOK

-----------------------------------------------------------------------------
(* The rows of the assets and their generations.                             *)

AssetRowsOK == /\ assets \in [Assets -> AssetRow]
               /\ generations \in [Assets -> Seq([base : Nat])]

LEMMA AssetTypes ==
    ASSUME TypeOK
    PROVE  AssetRowsOK
BY DEF TypeOK, AssetRowsOK, AssetRow

\* The row of an asset changes, its generations do not.
Touches(s, row) ==
    /\ s \in Assets /\ row \in AssetRow
    /\ row.current = assets[s].current
    /\ assets' = [assets EXCEPT ![s] = row]

\* A generation is appended to those of an asset and becomes its current one.
Moves(s, row) ==
    /\ s \in Assets /\ row \in AssetRow
    /\ row.current = NextGeneration(s)
    /\ assets' = [assets EXCEPT ![s] = row]
    /\ generations' = [generations EXCEPT ![s] =
                          Append(generations[s], [base |-> assets[s].current])]

LEMMA BegunAsset ==
    ASSUME AttemptsOK, NEW a \in Attempts, attempts[a].status # "none"
    PROVE  AssetOf(a) \in Assets
BY DEF AttemptsOK, AttemptOK, AssetOf

\* An ended attempt is no longer the one its asset names.
LEMMA ReleaseEffect ==
    ASSUME TypeOK, ActiveOK, NEW a \in Attempts, AssetOf(a) \in Assets,
           NEW x \in {"unsupported", "upgrade_failed"}, Release(a, x)
    PROVE  /\ Touches(AssetOf(a), Released(a, x))
           /\ \A s \in Assets : /\ assets'[s].active # a
                                /\ assets'[s].active \in {assets[s].active, NoAttempt}
<1> DEFINE s0 == AssetOf(a)
<1>1. assets \in [Assets -> AssetRow] /\ a # NoAttempt
    BY AssetTypes, AttemptNumbers DEF AssetRowsOK
<1>2. assets[s0] \in AssetRow
    BY <1>1
<1>3. /\ Released(a, x) \in AssetRow /\ Released(a, x).current = assets[s0].current
      /\ Released(a, x).active \in {assets[s0].active, NoAttempt}
    BY <1>2 DEF Released, AssetRow
<1>4. Released(a, x).active # a
    <2>1. assets[s0].active = a => attempts[a].kind \in {"upgrade", "revision"}
        <3>1. attempts[a] \in AttemptRow
            BY AttemptTypes DEF AttemptRowsOK
        <3> QED
            BY <1>1, <3>1 DEF ActiveOK, AttemptRow
    <2> QED
        BY <1>1, <1>2, <2>1 DEF Released, AssetRow
<1>5. assets' = [assets EXCEPT ![s0] = Released(a, x)]
    BY DEF Release
<1>6. ASSUME NEW s \in Assets
      PROVE  assets'[s].active # a /\ assets'[s].active \in {assets[s].active, NoAttempt}
    <2>1. CASE s = s0
        BY <1>1, <1>3, <1>4, <1>5, <2>1
    <2>2. CASE s # s0
        BY <1>1, <1>5, <2>2 DEF ActiveOK, AssetOf
    <2> QED
        BY <2>1, <2>2
<1> QED
    BY <1>3, <1>5, <1>6 DEF Touches

\* An asset engaged by an attempt that begins.
LEMMA EngageEffect ==
    ASSUME TypeOK, NEW a \in Attempts, AssetOf(a) \in Assets
    PROVE  /\ Engaged(a) \in AssetRow
           /\ Engaged(a).current = assets[AssetOf(a)].current
           /\ \/ Engaged(a).active = assets[AssetOf(a)].active
              \/ Engaged(a).active = a /\ attempts[a].kind # "create"
<1>1. assets[AssetOf(a)] \in AssetRow
    BY AssetTypes DEF AssetRowsOK
<1>2. attempts[a].expected \in Nat /\ attempts[a].kind \in {"create", "revision", "upgrade"}
    <2>1. attempts[a] \in AttemptRow
        BY AttemptTypes DEF AttemptRowsOK
    <2> QED
        BY <2>1 DEF AttemptRow
<1> QED
    BY <1>1, <1>2 DEF Engaged, AssetRow

\* A confirmation and an image revision append after the generation they read.
LEMMA MoveEffect ==
    ASSUME TypeOK,
           \/ \E a \in Attempts : AssetOf(a) \in Assets /\ ConfirmCommits(a)
           \/ \E s \in Assets : ActivateImageRevision(s) /\ ~UNCHANGED <<assets, generations>>
    PROVE  \E s \in Assets, row \in AssetRow :
              /\ Moves(s, row)
              /\ row.active \in {assets[s].active, NoAttempt}
<1>r. AssetRowsOK
    BY AssetTypes
<1>n. \A s \in Assets : NextGeneration(s) \in Nat
    BY <1>r DEF AssetRowsOK, NextGeneration
<1>1. ASSUME NEW a \in Attempts, AssetOf(a) \in Assets, ConfirmCommits(a)
      PROVE  \E row \in AssetRow : Moves(AssetOf(a), row) /\ row.active = NoAttempt
    <2> DEFINE row == [preset |-> TRUE, current |-> NextGeneration(AssetOf(a)),
                       compat |-> "ready", named |-> NextGeneration(AssetOf(a)),
                       active |-> NoAttempt]
    <2>1. row \in AssetRow /\ row.current = NextGeneration(AssetOf(a)) /\ row.active = NoAttempt
        BY <1>1, <1>n DEF AssetRow
    <2>2. assets' = [assets EXCEPT ![AssetOf(a)] = row]
        BY <1>1 DEF ConfirmCommits
    <2>3. generations' = [generations EXCEPT ![AssetOf(a)] =
                             Append(generations[AssetOf(a)], [base |-> assets[AssetOf(a)].current])]
        BY <1>1 DEF ConfirmCommits, MoveCurrentGeneration
    <2> HIDE DEF row
    <2> QED
        BY <1>1, <2>1, <2>2, <2>3 DEF Moves
<1>2. ASSUME NEW s \in Assets, ActivateImageRevision(s), ~UNCHANGED <<assets, generations>>
      PROVE  \E row \in AssetRow : Moves(s, row) /\ row.active = assets[s].active
    <2> DEFINE row == [assets[s] EXCEPT !.current = NextGeneration(s),
                                        !.named = NextGeneration(s), !.compat = "ready"]
    <2>1. assets[s] \in AssetRow
        BY <1>r DEF AssetRowsOK
    <2>2. row \in AssetRow /\ row.current = NextGeneration(s) /\ row.active = assets[s].active
        BY <1>n, <2>1 DEF AssetRow
    <2>3. MoveCurrentGeneration(s, drawing[s]) /\ assets' = [assets EXCEPT ![s] = row]
        BY <1>2, <1>r, <2>1 DEF ActivateImageRevision, AssetRowsOK, AssetRow
    <2>4. generations' = [generations EXCEPT ![s] = Append(generations[s], [base |-> assets[s].current])]
        BY <2>3 DEF MoveCurrentGeneration
    <2> HIDE DEF row
    <2> QED
        BY <2>2, <2>3, <2>4 DEF Moves
<1> QED
    BY <1>1, <1>2

\* The attempts that end, and the asset they let go.
Releases(a) ==
    /\ attempts[a].status # "none"
    /\ \E x \in {"unsupported", "upgrade_failed"} : Release(a, x)
    /\ generations' = generations

\* Who writes the asset rows and the generations.
LEMMA AssetWrites ==
    ASSUME AuthoringInv, [Next]_vars
    PROVE  \/ UNCHANGED <<assets, generations>>
           \/ \E s \in Assets, row \in AssetRow : Moves(s, row)
           \/ \E s \in Assets, row \in AssetRow : Touches(s, row) /\ generations' = generations
<1> DEFINE Goal ==
        \/ UNCHANGED <<assets, generations>>
        \/ \E s \in Assets, row \in AssetRow : Moves(s, row)
        \/ \E s \in Assets, row \in AssetRow : Touches(s, row) /\ generations' = generations
<1> USE DEF AuthoringInv
<1>r. AssetRowsOK
    BY AssetTypes
<1>1. ASSUME NEW a \in Attempts, BeginInserts(a) PROVE Goal
    <2>1. AssetOf(a) \in Assets
        BY <1>1, InsertedJob
    <2>2. assets' = [assets EXCEPT ![AssetOf(a)] = Engaged(a)] /\ generations' = generations
        BY <1>1 DEF BeginInserts
    <2> QED
        BY <2>1, <2>2, EngageEffect DEF Touches
<1>2. ASSUME NEW a \in Attempts, Releases(a) PROVE Goal
    <2>1. AssetOf(a) \in Assets
        BY <1>2, BegunAsset DEF Releases
    <2> QED
        BY <1>2, <2>1, ReleaseEffect DEF Releases, Touches
<1>3. ASSUME NEW a \in Attempts, ConfirmCommits(a) PROVE Goal
    <2>1. AssetOf(a) \in Assets
        BY <1>3, BegunAsset DEF ConfirmCommits, AttemptsOK, AttemptOK
    <2> QED
        BY <1>3, <2>1, MoveEffect
<1>4. ASSUME NEW a \in Attempts, OwnerStep(a) PROVE Goal
    <2>1. CASE ConfirmExpires(a) \/ DiscardCommits(a)
        <3>1. UNCHANGED <<assets, generations>> \/ Releases(a)
            BY <2>1 DEF ConfirmExpires, DiscardCommits, Releases, AttemptsOK, AttemptOK
        <3> QED
            BY <1>2, <3>1
    <2>2. CASE \/ \E s \in Assets, kind \in {"create", "revision", "upgrade"} : BeginReads(a, s, kind)
               \/ AdjustCandidate(a) \/ ConfirmReads(a) \/ ConfirmDrifts(a) \/ AttemptOverdue(a)
               \/ DiscardReads(a)
        BY <2>2 DEF BeginReads, AdjustCandidate, ConfirmReads, ConfirmDrifts, AttemptOverdue,
                    DiscardReads
    <2> QED
        BY <1>1, <1>3, <1>4, <2>1, <2>2 DEF OwnerStep
<1>5. ASSUME NEW w \in Workers, Run(w) \/ FinishErrs(w) PROVE Goal
    <2>1. CASE FailAttempt(w)
        <3>1. UNCHANGED <<assets, generations>> \/ Releases(worker[w].attempt)
            BY <2>1, RunAttempt DEF FailAttempt, Releases, RunStages, ownerVars
        <3>2. worker[w].attempt \in Attempts
            BY <2>1, RunAttempt DEF FailAttempt, RunStages
        <3> QED
            BY <1>2, <3>1, <3>2
    <2>2. CASE SaveCandidate(w)
        <3> DEFINE s == AssetOf(worker[w].attempt)
                   row == [assets[s] EXCEPT !.compat = "upgrading", !.active = worker[w].attempt]
        <3>1. worker[w].attempt \in Attempts /\ s \in Assets
            BY <2>2, RunAttempt, BegunAsset DEF SaveCandidate, RunStages
        <3>2. assets[s] \in AssetRow
            BY <1>r, <3>1 DEF AssetRowsOK
        <3>3. row \in AssetRow /\ row.current = assets[s].current
            BY <3>1, <3>2 DEF AssetRow
        <3>4. /\ generations' = generations
              /\ assets' = assets \/ assets' = [assets EXCEPT ![s] = row]
            BY <1>r, <2>2, <3>1, <3>2 DEF SaveCandidate, AssetRowsOK, AssetRow
        <3> HIDE DEF row, s
        <3> QED
            BY <3>1, <3>3, <3>4 DEF Touches
    <2>3. CASE \/ ReadAttempt(w) \/ MarkGenerating(w) \/ GenerationFails(w) \/ FinishJob(w)
               \/ FinishErrs(w)
        BY <2>3 DEF ReadAttempt, MarkGenerating, GenerationFails, FinishJob, FinishErrs, rowVars
    <2> QED
        BY <1>5, <2>1, <2>2, <2>3 DEF Run
<1>6. ASSUME NEW s \in Assets, ImageRequested(s) \/ ActivateImageRevision(s) PROVE Goal
    <2>1. CASE ImageRequested(s)
        BY <2>1 DEF ImageRequested
    <2>2. CASE ActivateImageRevision(s)
        BY <2>2, MoveEffect
    <2> QED
        BY <1>6, <2>1, <2>2
<1>7. CASE (JobsNext /\ UNCHANGED authoringVars) \/ UNCHANGED vars
    BY <1>7 DEF authoringVars, vars
<1> QED
    BY <1>4, <1>5, <1>6, <1>7 DEF Next

LEMMA GenerationStep ==
    ASSUME AuthoringInv, [Next]_vars
    PROVE  AssetRowsOK' /\ CurrentIsNewest' /\ NoLostRevision'
<1> USE DEF AuthoringInv
<1>r. AssetRowsOK
    BY AssetTypes
<1>1. CASE UNCHANGED <<assets, generations>>
    BY <1>1, <1>r DEF AssetRowsOK, CurrentIsNewest, NoLostRevision
<1>2. ASSUME NEW s \in Assets, NEW row \in AssetRow, Touches(s, row), generations' = generations
      PROVE  AssetRowsOK' /\ CurrentIsNewest' /\ NoLostRevision'
    <2>1. assets' \in [Assets -> AssetRow]
        BY <1>2, <1>r DEF AssetRowsOK, Touches
    <2>2. \A e \in Assets : assets'[e].current = assets[e].current
        BY <1>2, <1>r DEF AssetRowsOK, Touches
    <2> QED
        BY <1>2, <1>r, <2>1, <2>2 DEF AssetRowsOK, CurrentIsNewest, NoLostRevision
<1>3. ASSUME NEW s \in Assets, NEW row \in AssetRow, Moves(s, row)
      PROVE  AssetRowsOK' /\ CurrentIsNewest' /\ NoLostRevision'
    <2> DEFINE n == Len(generations[s])
    <2>1. /\ generations[s] \in Seq([base : Nat]) /\ n \in Nat /\ assets[s].current = n
        BY <1>r DEF AssetRowsOK, CurrentIsNewest
    <2>2. PICK g \in [base : Nat] : g.base = n /\ g = [base |-> assets[s].current]
        BY <2>1
    <2>3. /\ assets' = [assets EXCEPT ![s] = row] /\ row.current = n + 1
          /\ generations' = [generations EXCEPT ![s] = Append(generations[s], g)]
        BY <1>3, <2>2 DEF Moves, NextGeneration
    <2>4. /\ Append(generations[s], g) \in Seq([base : Nat])
          /\ Len(Append(generations[s], g)) = n + 1
          /\ \A i \in 1..n + 1 :
                Append(generations[s], g)[i] = IF i = n + 1 THEN g ELSE generations[s][i]
        BY <2>1, <2>2
    <2>5. AssetRowsOK'
        BY <1>r, <2>3, <2>4 DEF AssetRowsOK
    <2>6. CurrentIsNewest'
        BY <1>r, <2>3, <2>4 DEF AssetRowsOK, CurrentIsNewest
    <2>7. NoLostRevision'
        <3> SUFFICES ASSUME NEW e \in Assets, NEW i \in DOMAIN generations'[e]
                     PROVE  generations'[e][i].base = i - 1
            BY DEF NoLostRevision
        <3>1. CASE e # s
            BY <1>r, <2>3, <3>1 DEF AssetRowsOK, NoLostRevision
        <3>2. CASE e = s
            <4>1. generations'[e] = Append(generations[s], g)
                BY <1>r, <2>3, <3>2 DEF AssetRowsOK
            <4>2. i \in 1..n + 1
                BY <2>4, <4>1
            <4>3. CASE i = n + 1
                BY <2>1, <2>2, <2>4, <4>1, <4>2, <4>3
            <4>4. CASE i # n + 1
                <5>1. i \in 1..n /\ i \in DOMAIN generations[s]
                    BY <2>1, <4>2, <4>4
                <5> QED
                    BY <2>4, <4>1, <4>2, <4>4, <5>1 DEF NoLostRevision
            <4> QED
                BY <4>3, <4>4
        <3> QED
            BY <3>1, <3>2
    <2> QED
        BY <2>5, <2>6, <2>7
<1> QED
    BY <1>1, <1>2, <1>3, AssetWrites

LEMMA ActiveStep ==
    ASSUME AuthoringInv, [Next]_vars
    PROVE  ActiveOK'
<1> USE DEF AuthoringInv
<1> DEFINE NoNewActive == \A s \in Assets : assets'[s].active \in {assets[s].active, NoAttempt}
<1>r. AssetRowsOK /\ AttemptRowsOK
    BY AssetTypes, AttemptTypes
<1>0. \A s \in Assets : assets[s].active \in Attempts \cup {NoAttempt}
    BY <1>r DEF AssetRowsOK, AssetRow
<1>u. ASSUME attempts' = attempts, NoNewActive PROVE ActiveOK'
    BY <1>u DEF ActiveOK
\* An attempt whose asset lets go of it, or never named it.
<1>e. ASSUME NEW a \in Attempts, \A b \in Attempts : b # a => attempts'[b] = attempts[b],
             NoNewActive, \A s \in Assets : assets'[s].active # a
      PROVE  ActiveOK'
    <2> SUFFICES ASSUME NEW s \in Assets, assets'[s].active # NoAttempt
                 PROVE  /\ attempts'[assets'[s].active].status \in InFlight
                        /\ attempts'[assets'[s].active].asset = s
                        /\ attempts'[assets'[s].active].kind # "create"
        BY DEF ActiveOK
    <2>1. assets'[s].active = assets[s].active /\ assets'[s].active \in Attempts
        BY <1>0, <1>e
    <2>2. attempts'[assets'[s].active] = attempts[assets[s].active]
        BY <1>e, <2>1
    <2> QED
        BY <2>1, <2>2 DEF ActiveOK
\* An attempt that has not ended may engage its own asset.
<1>g. ASSUME NEW a \in Attempts, \A b \in Attempts : b # a => attempts'[b] = attempts[b],
             attempts'[a].status \in InFlight,
             attempts'[a].asset = attempts[a].asset, attempts'[a].kind = attempts[a].kind,
             \A s \in Assets :
                \/ assets'[s].active \in {assets[s].active, NoAttempt}
                \/ assets'[s].active = a /\ s = AssetOf(a) /\ attempts[a].kind # "create"
      PROVE  ActiveOK'
    <2> SUFFICES ASSUME NEW s \in Assets, assets'[s].active # NoAttempt
                 PROVE  /\ attempts'[assets'[s].active].status \in InFlight
                        /\ attempts'[assets'[s].active].asset = s
                        /\ attempts'[assets'[s].active].kind # "create"
        BY DEF ActiveOK
    <2>1. CASE assets'[s].active = a /\ s = AssetOf(a) /\ attempts[a].kind # "create"
        BY <1>g, <2>1 DEF AssetOf
    <2>2. CASE assets'[s].active = assets[s].active
        BY <1>0, <1>g, <2>2 DEF ActiveOK
    <2> QED
        BY <1>g, <2>1, <2>2
<1>1. ASSUME NEW a \in Attempts, NEW s \in Assets,
             NEW kind \in {"create", "revision", "upgrade"}, BeginReads(a, s, kind)
      PROVE  ActiveOK'
    <2>1. /\ attempts[a].status = "none" /\ assets' = assets
          /\ \A b \in Attempts : b # a => attempts'[b] = attempts[b]
        BY <1>1, BeginEffect DEF BeginReads
    <2>2. \A e \in Assets : assets[e].active # a
        BY <2>1, AttemptNumbers DEF ActiveOK
    <2> QED
        BY <1>e, <2>1, <2>2
<1>2. ASSUME NEW a \in Attempts, BeginInserts(a) PROVE ActiveOK'
    <2>1. AssetOf(a) \in Assets
        BY <1>2, InsertedJob
    <2>2. /\ attempts' = [attempts EXCEPT ![a] = [attempts[a] EXCEPT !.status = "pending_structure"]]
          /\ assets' = [assets EXCEPT ![AssetOf(a)] = Engaged(a)]
        BY <1>2 DEF BeginInserts, SetAttempt
    <2>3. attempts[a] \in AttemptRow
        BY <1>r DEF AttemptRowsOK
    <2>4. \A s \in Assets :
             \/ assets'[s].active \in {assets[s].active, NoAttempt}
             \/ assets'[s].active = a /\ s = AssetOf(a) /\ attempts[a].kind # "create"
        BY <1>r, <2>1, <2>2, EngageEffect DEF AssetRowsOK
    <2> QED
        BY <1>g, <1>r, <2>2, <2>3, <2>4 DEF AttemptRowsOK, AttemptRow
<1>3. ASSUME NEW a \in Attempts, assets' = assets,
             NEW row \in AttemptRow, row.status \in InFlight,
             row.asset = attempts[a].asset, row.kind = attempts[a].kind,
             attempts' = [attempts EXCEPT ![a] = row]
      PROVE  ActiveOK'
    BY <1>3, <1>g, <1>r DEF AttemptRowsOK
<1>4. ASSUME NEW a \in Attempts, ConfirmCommits(a) PROVE ActiveOK'
    <2>1. AssetOf(a) \in Assets
        BY <1>4, BegunAsset DEF ConfirmCommits, AttemptsOK, AttemptOK
    <2>2. /\ \A b \in Attempts : b # a => attempts'[b] = attempts[b]
          /\ \E row : row.active = NoAttempt /\ assets' = [assets EXCEPT ![AssetOf(a)] = row]
        BY <1>4, <1>r DEF ConfirmCommits, SetAttempt, AttemptRowsOK
    <2>3. \A s \in Assets : assets'[s].active \in {assets[s].active, NoAttempt} /\ assets'[s].active # a
        BY <1>r, <2>1, <2>2, AttemptNumbers DEF ActiveOK, AssetOf, AssetRowsOK
    <2> QED
        BY <1>e, <2>2, <2>3
<1>5. ASSUME NEW a \in Attempts, Releases(a), \A b \in Attempts : b # a => attempts'[b] = attempts[b]
      PROVE  ActiveOK'
    <2>1. \A s \in Assets : /\ assets'[s].active # a
                            /\ assets'[s].active \in {assets[s].active, NoAttempt}
        BY <1>5, BegunAsset, ReleaseEffect DEF Releases
    <2> QED
        BY <1>e, <1>5, <2>1
<1>6. ASSUME NEW a \in Attempts, OwnerStep(a) PROVE ActiveOK'
    <2>1. CASE ConfirmExpires(a) \/ DiscardCommits(a)
        <3>1. \A b \in Attempts : b # a => attempts'[b] = attempts[b]
            BY <1>r, <2>1
            DEF ConfirmExpires, DiscardCommits, SetAttempt, AttemptUnchanged, AttemptRowsOK
        <3>2. CASE Releases(a)
            BY <1>5, <3>1, <3>2
        <3>3. CASE UNCHANGED <<attempts, assets>>
            BY <1>u, <3>3
        <3>4. CASE ConfirmExpires(a) /\ assets[AssetOf(a)].active # a /\ assets' = assets
            <4>1. AssetOf(a) \in Assets
                BY <3>4, BegunAsset DEF ConfirmExpires
            <4>2. \A s \in Assets : assets[s].active # a
                BY <3>4, <4>1, AttemptNumbers DEF ActiveOK, AssetOf
            <4> QED
                BY <1>e, <3>1, <3>4, <4>2
        <3> QED
            BY <2>1, <3>2, <3>3, <3>4
            DEF ConfirmExpires, DiscardCommits, Releases, AttemptUnchanged, AttemptsOK, AttemptOK
    <2>2. CASE AdjustCandidate(a)
        <3> DEFINE row == [attempts[a] EXCEPT !.status = "pending_structure"]
        <3>1. attempts[a] \in AttemptRow /\ attempts' = [attempts EXCEPT ![a] = row] /\ assets' = assets
            BY <1>r, <2>2 DEF AttemptRowsOK, AdjustCandidate, SetAttempt
        <3>2. /\ row \in AttemptRow /\ row.status \in InFlight
              /\ row.asset = attempts[a].asset /\ row.kind = attempts[a].kind
            BY <3>1 DEF AttemptRow
        <3> QED
            BY <1>3, <3>1, <3>2
    <2>3. CASE AttemptOverdue(a)
        <3> DEFINE row == [attempts[a] EXCEPT !.overdue = TRUE]
        <3>1. attempts[a] \in AttemptRow /\ attempts' = [attempts EXCEPT ![a] = row] /\ assets' = assets
            BY <1>r, <2>3 DEF AttemptRowsOK, AttemptOverdue
        <3>2. /\ row \in AttemptRow /\ row.status \in InFlight
              /\ row.asset = attempts[a].asset /\ row.kind = attempts[a].kind
            BY <2>3, <3>1 DEF AttemptRow, AttemptOverdue
        <3> QED
            BY <1>3, <3>1, <3>2
    <2>4. CASE ConfirmReads(a) \/ ConfirmDrifts(a) \/ DiscardReads(a)
        BY <1>u, <2>4 DEF ConfirmReads, ConfirmDrifts, DiscardReads
    <2> QED
        BY <1>1, <1>2, <1>4, <1>6, <2>1, <2>2, <2>3, <2>4 DEF OwnerStep
<1>7. ASSUME NEW w \in Workers, Run(w) \/ FinishErrs(w) PROVE ActiveOK'
    <2> DEFINE a == worker[w].attempt
    <2>1. CASE FailAttempt(w)
        <3>1. a \in Attempts /\ attempts[a].status # "none"
            BY <2>1, RunAttempt DEF FailAttempt, RunStages
        <3>2. /\ \A b \in Attempts : b # a => attempts'[b] = attempts[b]
              /\ UNCHANGED <<attempts, assets>> \/ Releases(a)
            BY <1>r, <2>1, <3>1
            DEF FailAttempt, SetAttempt, AttemptUnchanged, AttemptRowsOK, Releases
        <3> QED
            BY <1>5, <1>u, <3>1, <3>2
    <2>2. CASE MarkGenerating(w)
        <3> DEFINE row == [attempts[a] EXCEPT !.status = "generating_structure"]
        <3>1. a \in Attempts /\ assets' = assets
            BY <2>2, RunAttempt DEF MarkGenerating, RunStages
        <3>2. attempts[a] \in AttemptRow
            BY <1>r, <3>1 DEF AttemptRowsOK
        <3>3. /\ row \in AttemptRow /\ row.status \in InFlight
              /\ row.asset = attempts[a].asset /\ row.kind = attempts[a].kind
            BY <3>2 DEF AttemptRow
        <3>4. attempts' = attempts \/ attempts' = [attempts EXCEPT ![a] = row]
            BY <2>2 DEF MarkGenerating, SetAttempt, AttemptUnchanged
        <3> QED
            BY <1>3, <1>u, <3>1, <3>3, <3>4
    <2>3. CASE SaveCandidate(w)
        <3> DEFINE row == [attempts[a] EXCEPT !.status = "awaiting_owner_acceptance",
                                              !.candidate = worker[w].fence]
        <3>1. a \in Attempts /\ AssetOf(a) \in Assets
            BY <2>3, RunAttempt, BegunAsset DEF SaveCandidate, RunStages
        <3>2. attempts[a] \in AttemptRow
            BY <1>r, <3>1 DEF AttemptRowsOK
        <3>3. /\ row.status \in InFlight
              /\ row.asset = attempts[a].asset /\ row.kind = attempts[a].kind
            BY <3>2 DEF AttemptRow
        <3>4. \/ UNCHANGED <<attempts, assets>>
              \/ /\ attempts' = [attempts EXCEPT ![a] = row]
                 /\ \/ assets' = assets
                    \/ /\ attempts[a].kind = "upgrade"
                       /\ assets' = [assets EXCEPT ![AssetOf(a)].compat = "upgrading",
                                                   ![AssetOf(a)].active = a]
            BY <2>3 DEF SaveCandidate, SetAttempt, AttemptUnchanged
        <3>5. assets[AssetOf(a)] \in AssetRow
            BY <1>r, <3>1 DEF AssetRowsOK
        <3>6. CASE UNCHANGED <<attempts, assets>>
            BY <1>u, <3>6
        <3>7. ASSUME attempts' = [attempts EXCEPT ![a] = row],
                     \/ assets' = assets
                     \/ /\ attempts[a].kind = "upgrade"
                        /\ assets' = [assets EXCEPT ![AssetOf(a)].compat = "upgrading",
                                                    ![AssetOf(a)].active = a]
              PROVE  ActiveOK'
            <4>1. \A s \in Assets :
                     \/ assets'[s].active \in {assets[s].active, NoAttempt}
                     \/ assets'[s].active = a /\ s = AssetOf(a) /\ attempts[a].kind # "create"
                BY <1>r, <3>1, <3>5, <3>7 DEF AssetRowsOK, AssetRow
            <4>2. attempts'[a] = row /\ \A b \in Attempts : b # a => attempts'[b] = attempts[b]
                BY <1>r, <3>1, <3>7 DEF AttemptRowsOK
            <4>3. /\ a \in Attempts /\ attempts'[a].status \in InFlight
                  /\ attempts'[a].asset = attempts[a].asset /\ attempts'[a].kind = attempts[a].kind
                <5> HIDE DEF row, a
                <5> QED
                    BY <3>1, <3>3, <4>2
            <4> HIDE DEF row, a
            <4> QED
                BY <1>g, <4>1, <4>2, <4>3
        <3> QED
            BY <3>4, <3>6, <3>7
    <2>4. CASE ReadAttempt(w) \/ GenerationFails(w) \/ FinishJob(w) \/ FinishErrs(w)
        BY <1>u, <2>4 DEF ReadAttempt, GenerationFails, FinishJob, FinishErrs, rowVars
    <2> QED
        BY <1>7, <2>1, <2>2, <2>3, <2>4 DEF Run
<1>8. ASSUME NEW s \in Assets, ImageRequested(s) \/ ActivateImageRevision(s) PROVE ActiveOK'
    <2>1. NoNewActive
        <3> DEFINE row == [assets[s] EXCEPT !.current = NextGeneration(s),
                                            !.named = NextGeneration(s), !.compat = "ready"]
        <3>1. assets[s] \in AssetRow
            BY <1>r DEF AssetRowsOK
        <3>2. row.active = assets[s].active
            BY <3>1 DEF AssetRow
        <3>3. assets' = assets \/ assets' = [assets EXCEPT ![s] = row]
            BY <1>8, <1>r, <3>1 DEF ImageRequested, ActivateImageRevision, AssetRowsOK, AssetRow
        <3> HIDE DEF row
        <3> QED
            BY <1>r, <3>2, <3>3 DEF AssetRowsOK
    <2> QED
        BY <1>8, <1>u, <2>1 DEF ImageRequested, ActivateImageRevision
<1>9. CASE (JobsNext /\ UNCHANGED authoringVars) \/ UNCHANGED vars
    BY <1>9, <1>u DEF authoringVars, vars
<1> QED
    BY <1>6, <1>7, <1>8, <1>9 DEF Next

-----------------------------------------------------------------------------
(* The handlers, the tasks and the faults.                                   *)

WorkerRowsOK == worker \in [Workers -> WorkerRow]

LEMMA WorkerTypes == TypeOK => WorkerRowsOK
BY DEF TypeOK, JobsTypeOK, WorkerRowsOK, WorkerRow

\* No step deletes a job.
LEMMA JobsStay ==
    ASSUME AuthoringInv, [Next]_vars, NEW a \in Attempts, job[a].status # "none"
    PROVE  job'[a].status # "none"
<1>1. ASSUME NEW b \in Attempts, BeginInserts(b) PROVE job'[a].status # "none"
    BY <1>1, InsertedJob
<1>2. ASSUME NEW w \in Workers, NEW b \in Attempts, Admitted(w, b) PROVE job'[a].status # "none"
    BY <1>2, ClaimEffect DEF AuthoringInv
<1> QED
    BY <1>1, <1>2, JobWrites DEF JobsKept

\* One handler moves on.
LEMMA HandlerMoves ==
    ASSUME AuthoringInv, [Next]_vars, NEW w \in Workers, NEW row \in WorkerRow,
           worker' = [worker EXCEPT ![w] = row],
           \/ row.at = "idle"
           \/ row.at \in {"recovering", "claiming"} /\ ~QueueConfigured
           \/ row.attempt \in Attempts,
           row.at \in RunStages => row.attempt \in Attempts /\ job'[row.attempt].status # "none"
    PROVE  WorkerRowsOK' /\ HandlersOK'
<1>1. worker \in [Workers -> WorkerRow]
    BY WorkerTypes DEF AuthoringInv, WorkerRowsOK
<1>2. WorkerRowsOK'
    BY <1>1 DEF WorkerRowsOK
<1>3. ASSUME NEW v \in Workers PROVE HandlerOK(v)'
    <2>1. CASE v = w
        BY <1>1, <2>1 DEF HandlerOK
    <2>2. CASE v # w
        <3>1. worker'[v] = worker[v] /\ HandlerOK(v)
            BY <1>1, <2>2 DEF AuthoringInv, HandlersOK
        <3> QED
            BY <3>1, JobsStay DEF HandlerOK
    <2> QED
        BY <2>1, <2>2
<1> QED
    BY <1>2, <1>3 DEF HandlersOK

LEMMA HandlersStay ==
    ASSUME AuthoringInv, [Next]_vars, worker' = worker
    PROVE  WorkerRowsOK' /\ HandlersOK'
<1>1. WorkerRowsOK'
    BY WorkerTypes DEF AuthoringInv, WorkerRowsOK
<1>2. ASSUME NEW v \in Workers PROVE HandlerOK(v)'
    BY JobsStay DEF HandlerOK, AuthoringInv, HandlersOK
<1> QED
    BY <1>1, <1>2 DEF HandlersOK

LEMMA HandlerIdles ==
    ASSUME AuthoringInv, [Next]_vars, NEW w \in Workers,
           worker' = [worker EXCEPT ![w] = IdleWorker]
    PROVE  WorkerRowsOK' /\ HandlersOK'
<1>1. IdleWorker \in WorkerRow /\ IdleWorker.at = "idle" /\ IdleWorker.at \notin RunStages
    BY JobsAssumption DEF IdleWorker, WorkerRow, Stages, RunStages, Deliveries
<1> QED
    BY <1>1, HandlerMoves

\* A handler that goes to another stage with the attempt it has.
LEMMA HandlerGoes ==
    ASSUME AuthoringInv, [Next]_vars, NEW w \in Workers, NEW x \in Stages, Goto(w, x),
           \/ x \in {"recovering", "claiming"} /\ ~QueueConfigured
           \/ worker[w].attempt \in Attempts,
           x \in RunStages => worker[w].at \in RunStages
    PROVE  WorkerRowsOK' /\ HandlersOK'
<1> DEFINE row == [worker[w] EXCEPT !.at = x]
<1>1. worker[w] \in WorkerRow
    BY WorkerTypes DEF AuthoringInv, WorkerRowsOK
<1>2. row \in WorkerRow /\ row.at = x /\ row.attempt = worker[w].attempt
    BY <1>1 DEF WorkerRow
<1>3. worker' = [worker EXCEPT ![w] = row]
    BY DEF Goto
<1>4. x \in RunStages => /\ worker[w].attempt \in Attempts
                         /\ job'[worker[w].attempt].status # "none"
    BY JobsStay DEF AuthoringInv, HandlersOK, HandlerOK
<1> HIDE DEF row
<1> QED
    BY <1>2, <1>3, <1>4, HandlerMoves

\* A handler whose fence is stale gives up.
LEMMA HandlerStale ==
    ASSUME AuthoringInv, [Next]_vars, NEW w \in Workers, worker[w].at \in RunStages, StaleFence(w)
    PROVE  WorkerRowsOK' /\ HandlersOK'
<1>1. CASE ~QueueConfigured
    BY <1>1, HandlerIdles DEF StaleFence
<1>2. CASE QueueConfigured
    <2>1. Goto(w, "deferring") /\ "deferring" \in Stages /\ "deferring" \notin RunStages
        BY <1>2 DEF StaleFence, Goto, Stages, RunStages
    <2>2. worker[w].attempt \in Attempts
        BY RunAttempt DEF AuthoringInv
    <2> QED
        BY <2>1, <2>2, HandlerGoes
<1> QED
    BY <1>1, <1>2

LEMMA HandlerStep ==
    ASSUME AuthoringInv, [Next]_vars
    PROVE  WorkerRowsOK' /\ HandlersOK'
<1> USE DEF AuthoringInv
<1>s. /\ Stages = {"idle", "arrived", "recovering", "claiming", "closing", "deferring",
                   "answering"} \cup RunStages
      /\ RunStages = {"claimed", "starting", "generating", "saved", "failing", "cancelling"}
    BY DEF Stages, RunStages
<1>1. ASSUME NEW w \in Workers, NEW a \in Attempts, NEW g \in Deliveries, Deliver(w, a, g)
      PROVE  WorkerRowsOK' /\ HandlersOK'
    <2> DEFINE row == [at |-> "arrived", attempt |-> a, gen |-> g, fence |-> 0]
    <2>1. row \in WorkerRow /\ row.attempt = a /\ row.at \notin RunStages
        BY <1>s DEF WorkerRow
    <2>2. worker' = [worker EXCEPT ![w] = row]
        BY <1>1 DEF Deliver
    <2> HIDE DEF row
    <2> QED
        BY <2>1, <2>2, HandlerMoves
<1>2. ASSUME NEW w \in Workers, InspectOutbox(w) PROVE WorkerRowsOK' /\ HandlersOK'
    <2>1. /\ worker[w].attempt \in Attempts
          /\ Goto(w, "answering") \/ Goto(w, "recovering")
        BY <1>2, AtAttempt DEF InspectOutbox
    <2> QED
        BY <1>s, <2>1, HandlerGoes
<1>3. ASSUME NEW w \in Workers, WakeAuthoringJobs(w) PROVE WorkerRowsOK' /\ HandlersOK'
    BY <1>3, <1>s, HandlerGoes DEF WakeAuthoringJobs
<1>4. ASSUME NEW w \in Workers, RecoverExpiredFamilyAuthoringJobs(w)
      PROVE  WorkerRowsOK' /\ HandlersOK'
    <2>1. Goto(w, "claiming") /\ (QueueConfigured => worker[w].attempt \in Attempts)
        BY <1>4, AtAttempt DEF RecoverExpiredFamilyAuthoringJobs
    <2> QED
        BY <1>s, <2>1, HandlerGoes
<1>5. ASSUME NEW w \in Workers, NEW a \in Attempts, TakeClaim(w, a)
      PROVE  WorkerRowsOK' /\ HandlersOK'
    <2> DEFINE row == [worker[w] EXCEPT !.at = "claimed", !.attempt = a, !.fence = job[a].fence + 1]
    <2>1. worker[w] \in WorkerRow /\ job[a] \in JobRow /\ job \in [Attempts -> JobRow]
        BY WorkerTypes, JobTypes DEF WorkerRowsOK, JobRowsOK
    <2>2. row \in WorkerRow /\ row.attempt = a
        <3>1. job[a].fence + 1 \in Nat
            BY <2>1 DEF JobRow
        <3> QED
            BY <1>s, <2>1, <3>1 DEF WorkerRow
    <2>3. worker' = [worker EXCEPT ![w] = row]
        BY <1>5 DEF TakeClaim
    <2>4. job'[a].status # "none"
        BY <1>5, <2>1 DEF TakeClaim, JobRow
    <2> HIDE DEF row
    <2> QED
        BY <2>2, <2>3, <2>4, HandlerMoves
<1>6. ASSUME NEW w \in Workers, ClaimFamilyAuthoringJob(w) PROVE WorkerRowsOK' /\ HandlersOK'
    <2>1. /\ worker[w].attempt \in Attempts
          /\ Goto(w, "closing") \/ Goto(w, "deferring") \/ TakeClaim(w, worker[w].attempt)
        BY <1>6, AtAttempt DEF ClaimFamilyAuthoringJob
    <2> QED
        BY <1>5, <1>s, <2>1, HandlerGoes
<1>7. ASSUME NEW w \in Workers, NEW a \in Attempts, Admitted(w, a) PROVE WorkerRowsOK' /\ HandlersOK'
    BY <1>5, <1>7 DEF Admitted
<1>8. ASSUME NEW w \in Workers,
             DeferAuthoringOutboxDelivery(w) \/ Answer(w) \/ WorkerDies(w)
      PROVE  WorkerRowsOK' /\ HandlersOK'
    BY <1>8, HandlerIdles DEF DeferAuthoringOutboxDelivery, Answer, WorkerDies
<1>9. ASSUME NEW w \in Workers, CompleteAuthoringOutboxDelivery(w)
      PROVE  WorkerRowsOK' /\ HandlersOK'
    <2>1. worker[w].attempt \in Attempts /\ Goto(w, "answering")
        BY <1>9, AtAttempt DEF CompleteAuthoringOutboxDelivery
    <2> QED
        BY <1>s, <2>1, HandlerGoes
<1>10. ASSUME NEW w \in Workers, Run(w) \/ FinishErrs(w) PROVE WorkerRowsOK' /\ HandlersOK'
    <2>1. worker[w].at \in RunStages
        BY <1>10, <1>s
        DEF Run, ReadAttempt, MarkGenerating, GenerationFails, SaveCandidate, FinishJob,
            FailAttempt, FinishErrs
    <2>2. worker[w].attempt \in Attempts
        BY <2>1, RunAttempt
    <2>3. StaleFence(w) \/ \E x \in {"cancelling", "starting", "generating", "failing", "saved",
                                     "answering"} : Goto(w, x)
        BY <1>10
        DEF Run, ReadAttempt, MarkGenerating, GenerationFails, SaveCandidate, FinishJob,
            FailAttempt, FinishErrs
    <2> QED
        BY <1>s, <2>1, <2>2, <2>3, HandlerGoes, HandlerStale
<1>11. CASE UNCHANGED worker
    BY <1>11, HandlersStay
<1>12. ASSUME NEW w \in Workers, ClaimNextFamilyAuthoringJob(w), UNCHANGED authoringVars, JobsNext
       PROVE  WorkerRowsOK' /\ HandlersOK'
    <2>1. CASE worker' = [worker EXCEPT ![w] = IdleWorker]
        BY <2>1, HandlerIdles
    <2>2. CASE ~(worker' = [worker EXCEPT ![w] = IdleWorker])
        <3>1. \E a \in Attempts : Admitted(w, a)
            BY <1>12, <2>2, NextIsAdmitted
        <3> QED
            BY <1>7, <3>1
    <2> QED
        BY <2>1, <2>2
<1>13. CASE JobsNext /\ UNCHANGED authoringVars
    <2>1. ASSUME NEW a \in Attempts, Dispatch(a) \/ DispatcherDies(a) \/ LeaseLapses(a)
          PROVE  UNCHANGED worker
        BY <2>1 DEF Dispatch, EnqueueAuthoringTask, MarkDispatched, RecoverStaleAuthoringOutbox,
                    DispatcherDies, LeaseLapses
    <2>2. ASSUME NEW a \in Attempts, NEW g \in Deliveries, DropTask(a, g)
          PROVE  UNCHANGED worker
        BY <2>2 DEF DropTask
    <2>3. ASSUME NEW w \in Workers, Admit(w) \/ WakeAuthoringJobs(w) \/ WorkerDies(w)
          PROVE  WorkerRowsOK' /\ HandlersOK'
        BY <1>2, <1>3, <1>4, <1>6, <1>8, <1>9, <1>12, <1>13, <2>3 DEF Admit
    <2> QED
        BY <1>1, <1>11, <1>13, <2>1, <2>2, <2>3 DEF JobsNext
<1>14. ASSUME NEW a \in Attempts, OwnerStep(a) PROVE UNCHANGED worker
    BY <1>14
    DEF OwnerStep, BeginReads, BeginInserts, AdjustCandidate, ConfirmReads, ConfirmCommits,
        ConfirmDrifts, ConfirmExpires, AttemptOverdue, DiscardReads, DiscardCommits, jobVars
<1>15. ASSUME NEW s \in Assets, ImageRequested(s) \/ ActivateImageRevision(s) PROVE UNCHANGED worker
    BY <1>15 DEF ImageRequested, ActivateImageRevision, jobVars
<1>16. CASE UNCHANGED vars
    BY <1>11, <1>16 DEF vars, jobVars
<1> QED
    BY <1>10, <1>11, <1>13, <1>14, <1>15, <1>16 DEF Next

TasksOK == /\ tasks \in [Attempts -> [Deliveries -> {"unnamed", "queued", "gone"}]]
           /\ posted \subseteq Attempts
           /\ faults \in 0..MaxFaults

\* One name of the queue changes.
LEMMA TaskChange ==
    ASSUME TasksOK, NEW a \in Attempts, NEW g \in Deliveries, NEW x \in {"unnamed", "queued", "gone"},
           tasks' = [tasks EXCEPT ![a][g] = x]
    PROVE  tasks' \in [Attempts -> [Deliveries -> {"unnamed", "queued", "gone"}]]
<1> DEFINE R == {"unnamed", "queued", "gone"}
           row == [tasks[a] EXCEPT ![g] = x]
<1>1. tasks \in [Attempts -> [Deliveries -> R]] /\ x \in R
    BY DEF TasksOK
<1>2. tasks[a] \in [Deliveries -> R]
    BY <1>1
<1>3. row \in [Deliveries -> R]
    BY <1>1, <1>2
<1>4. tasks' = [tasks EXCEPT ![a] = row]
    OBVIOUS
<1> HIDE DEF row, R
<1>5. tasks' \in [Attempts -> [Deliveries -> R]]
    BY <1>1, <1>3, <1>4
<1> QED
    BY <1>5 DEF R

LEMMA TasksStep ==
    ASSUME AuthoringInv, [Next]_vars
    PROVE  TasksOK'
<1>r. TasksOK
    BY DEF AuthoringInv, TypeOK, JobsTypeOK, TasksOK
<1>f. Fault => faults' \in 0..MaxFaults
    BY <1>r, JobsAssumption DEF Fault, TasksOK
<1>1. CASE UNCHANGED <<tasks, posted>> /\ (Fault \/ UNCHANGED faults)
    BY <1>r, <1>f, <1>1 DEF TasksOK
<1>2. ASSUME NEW a \in Attempts, Dispatch(a) \/ DispatcherDies(a) \/ LeaseLapses(a) PROVE TasksOK'
    <2>1. CASE EnqueueAuthoringTask(a)
        <3>1. outbox[a].gen \in Deliveries
            BY JobTypes DEF AuthoringInv, JobRowsOK, OutboxRow
        <3>2. tasks[a] \in [Deliveries -> {"unnamed", "queued", "gone"}]
            BY <1>r DEF TasksOK
        <3>3. PICK g \in Deliveries : g = outbox[a].gen
            BY <3>1
        <3>4. tasks[a][g] \in {"unnamed", "queued", "gone"}
            BY <3>2
        <3>5. PICK x \in {"unnamed", "queued", "gone"} :
                 x = IF tasks[a][g] = "unnamed" THEN "queued" ELSE tasks[a][g]
            BY <3>4
        <3>6. tasks' = [tasks EXCEPT ![a][g] = x]
            BY <2>1, <3>3, <3>5 DEF EnqueueAuthoringTask
        <3>7. tasks' \in [Attempts -> [Deliveries -> {"unnamed", "queued", "gone"}]]
            BY <1>r, <3>6, TaskChange
        <3> QED
            BY <1>r, <2>1, <3>7 DEF EnqueueAuthoringTask, TasksOK
    <2>2. CASE MarkDispatched(a) \/ DispatcherDies(a)
        BY <1>r, <1>f, <2>2 DEF MarkDispatched, DispatcherDies, TasksOK
    <2>3. CASE RecoverStaleAuthoringOutbox(a) \/ LeaseLapses(a)
        BY <1>1, <2>3 DEF RecoverStaleAuthoringOutbox, LeaseLapses
    <2> QED
        BY <1>2, <2>1, <2>2, <2>3 DEF Dispatch
<1>3. ASSUME NEW a \in Attempts, NEW g \in Deliveries, DropTask(a, g) PROVE TasksOK'
    <2>1. tasks' \in [Attempts -> [Deliveries -> {"unnamed", "queued", "gone"}]]
        BY <1>r, <1>3, TaskChange DEF DropTask
    <2> QED
        BY <1>r, <1>f, <1>3, <2>1 DEF DropTask, TasksOK
<1>4. ASSUME NEW w \in Workers, NEW a \in Attempts, NEW g \in Deliveries, Deliver(w, a, g)
      PROVE  TasksOK'
    BY <1>1, <1>4 DEF Deliver
<1>5. ASSUME NEW w \in Workers, Answer(w) PROVE TasksOK'
    <2>1. worker[w].attempt \in Attempts
        BY <1>5, AtAttempt DEF Answer, AuthoringInv
    <2>2. worker[w].gen \in Deliveries
        BY WorkerTypes DEF AuthoringInv, WorkerRowsOK, WorkerRow
    <2>3. PICK a \in Attempts, g \in Deliveries : a = worker[w].attempt /\ g = worker[w].gen
        BY <2>1, <2>2
    <2>4. tasks' = tasks \/ tasks' = [tasks EXCEPT ![a][g] = "gone"]
        BY <1>5, <2>3 DEF Answer
    <2>5. tasks' \in [Attempts -> [Deliveries -> {"unnamed", "queued", "gone"}]]
        BY <1>r, <2>4, TaskChange DEF TasksOK
    <2> QED
        BY <1>r, <1>5, <2>5 DEF Answer, TasksOK
<1>6. ASSUME NEW w \in Workers, Admit(w) \/ WakeAuthoringJobs(w) \/ WorkerDies(w) PROVE TasksOK'
    <2>1. CASE WakeAuthoringJobs(w) \/ WorkerDies(w)
        BY <1>1, <2>1 DEF WakeAuthoringJobs, WorkerDies
    <2>2. CASE ClaimFamilyAuthoringJob(w) \/ ClaimNextFamilyAuthoringJob(w)
        BY <1>1, <2>2 DEF ClaimFamilyAuthoringJob, ClaimNextFamilyAuthoringJob
    <2>3. CASE \/ InspectOutbox(w) \/ RecoverExpiredFamilyAuthoringJobs(w)
               \/ CompleteAuthoringOutboxDelivery(w) \/ DeferAuthoringOutboxDelivery(w)
        BY <1>1, <2>3
        DEF InspectOutbox, RecoverExpiredFamilyAuthoringJobs, CompleteAuthoringOutboxDelivery,
            DeferAuthoringOutboxDelivery
    <2> QED
        BY <1>5, <1>6, <2>1, <2>2, <2>3 DEF Admit
<1>7. ASSUME NEW a \in Attempts, OwnerStep(a) PROVE TasksOK'
    BY <1>1, <1>7
    DEF OwnerStep, BeginReads, BeginInserts, AdjustCandidate, ConfirmReads, ConfirmCommits,
        ConfirmDrifts, ConfirmExpires, AttemptOverdue, DiscardReads, DiscardCommits, jobVars
<1>8. ASSUME NEW w \in Workers, Run(w) \/ FinishErrs(w) PROVE TasksOK'
    BY <1>1, <1>8
    DEF Run, ReadAttempt, MarkGenerating, GenerationFails, SaveCandidate, FinishJob,
        FailAttempt, FinishErrs
<1>9. ASSUME NEW s \in Assets, ImageRequested(s) \/ ActivateImageRevision(s) PROVE TasksOK'
    BY <1>1, <1>9 DEF ImageRequested, ActivateImageRevision, jobVars
<1>10. CASE UNCHANGED vars
    BY <1>1, <1>10 DEF vars, jobVars
<1> QED
    BY <1>2, <1>3, <1>4, <1>6, <1>7, <1>8, <1>9, <1>10 DEF Next, JobsNext

-----------------------------------------------------------------------------
(* The invariant.                                                            *)

LEMMA TypeParts ==
    TypeOK <=> /\ JobRowsOK /\ TasksOK /\ WorkerRowsOK
               /\ AttemptRowsOK /\ AssetRowsOK /\ OwnerOK
BY DEF TypeOK, JobsTypeOK, JobRowsOK, JobRow, OutboxRow, TasksOK, WorkerRowsOK, WorkerRow,
       AttemptRowsOK, AttemptRow, AssetRowsOK, AssetRow, OwnerOK

LEMMA AuthoringStep ==
    ASSUME AuthoringInv, [Next]_vars
    PROVE  AuthoringInv'
<1>1. JobRowsOK'
    <2>1. ASSUME NEW w \in Workers, NEW a \in Attempts, Admitted(w, a) PROVE JobRowsOK'
        BY <2>1, ClaimEffect DEF AuthoringInv
    <2>2. ASSUME NEW a \in Attempts, BeginInserts(a) PROVE JobRowsOK'
        BY <2>2, InsertedJob
    <2> QED
        BY <2>1, <2>2, JobWrites DEF JobsKept
<1>2. TypeOK'
    <2>1. /\ JobRowsOK' /\ TasksOK' /\ WorkerRowsOK'
          /\ AttemptRowsOK' /\ AssetRowsOK' /\ OwnerOK'
        BY <1>1, TasksStep, HandlerStep, AttemptStep, GenerationStep, OwnerSteps
    <2> QED
        BY <2>1
        DEF TypeOK, JobsTypeOK, JobRowsOK, JobRow, OutboxRow, TasksOK, WorkerRowsOK, WorkerRow,
            AttemptRowsOK, AttemptRow, AssetRowsOK, AssetRow, OwnerOK
<1> QED
    BY <1>2, HandlerStep, AttemptStep, ClaimsStep, GenerationStep, ActiveStep DEF AuthoringInv

LEMMA AuthoringInit ==
    ASSUME Init
    PROVE  AuthoringInv
<1>1. PICK origin \in [Assets -> Origins] :
         /\ assets = [s \in Assets |-> Originally(origin[s])]
         /\ generations = [s \in Assets |-> IF origin[s] = "ready" THEN <<[base |-> 0]>> ELSE <<>>]
    BY DEF Init
<1>d. 0 \in Deliveries /\ 0 \in 0..MaxFaults /\ 0 \in 0..MaxActs /\ NoAttempt \notin Attempts
    BY JobsAssumption, AuthoringAssumption, AttemptNumbers DEF Deliveries
<1>2. JobRowsOK
    BY <1>d DEF Init, JobsInit, NoJob, NoOutbox, JobRowsOK, JobRow, OutboxRow
<1>3. TasksOK
    BY <1>d DEF Init, JobsInit, TasksOK
<1>4. WorkerRowsOK /\ HandlersOK
    <2>1. IdleWorker \in WorkerRow /\ IdleWorker.at = "idle" /\ IdleWorker.at \notin RunStages
        BY <1>d DEF IdleWorker, WorkerRow, Stages, RunStages
    <2>2. worker = [w \in Workers |-> IdleWorker]
        BY DEF Init, JobsInit
    <2> QED
        BY <2>1, <2>2 DEF WorkerRowsOK, HandlersOK, HandlerOK
<1>5. AttemptRowsOK /\ AttemptsOK
    <2>1. NewAttempt \in AttemptRow /\ NewAttempt.status = "none" /\ NewAttempt.candidate = 0
        BY DEF NewAttempt, AttemptRow
    <2>2. /\ attempts = [a \in Attempts |-> NewAttempt] /\ latest = [s \in Assets |-> NoAttempt]
          /\ \A a \in Attempts : job[a].status = "none"
          /\ beginning = {} /\ confirming = {} /\ discarding = {}
        BY DEF Init, JobsInit, NoJob
    <2> QED
        BY <2>1, <2>2 DEF AttemptRowsOK, AttemptsOK, AttemptOK
<1>6. ASSUME NEW s \in Assets
      PROVE  /\ assets[s] \in AssetRow /\ generations[s] \in Seq([base : Nat])
             /\ assets[s].current = Len(generations[s]) /\ assets[s].active = NoAttempt
             /\ \A i \in DOMAIN generations[s] : generations[s][i].base = i - 1
    <2>1. assets[s] = Originally(origin[s]) /\ Originally(origin[s]) \in AssetRow
        BY <1>1 DEF Originally, AssetRow
    <2>2. CASE origin[s] = "ready"
        <3>1. generations[s] = <<[base |-> 0]>> /\ [base |-> 0] \in [base : Nat]
            BY <1>1, <2>2
        <3>2. assets[s].current = 1 /\ assets[s].active = NoAttempt
            BY <2>1, <2>2 DEF Originally
        <3> QED
            BY <2>1, <3>1, <3>2
    <2>3. CASE origin[s] # "ready"
        <3>1. generations[s] = <<>>
            BY <1>1, <2>3
        <3>2. assets[s].current = 0 /\ assets[s].active = NoAttempt
            BY <2>1, <2>3 DEF Originally
        <3> QED
            BY <2>1, <3>1, <3>2
    <2> QED
        BY <2>2, <2>3
<1>7. AssetRowsOK
    BY <1>1, <1>6 DEF AssetRowsOK
<1>8. CurrentIsNewest /\ NoLostRevision /\ ActiveOK
    BY <1>6 DEF CurrentIsNewest, NoLostRevision, ActiveOK
<1>9. OwnerOK
    BY <1>d DEF Init, OwnerOK
<1>10. ClaimsWithinCap
    <2>1. Claimed = {}
        BY DEF Claimed, Init, JobsInit, NoJob
    <2> QED
        BY <2>1, FS_EmptySet, JobsAssumption DEF ClaimsWithinCap
<1>11. TypeOK
    BY <1>2, <1>3, <1>4, <1>5, <1>7, <1>9, TypeParts
<1> QED
    BY <1>4, <1>5, <1>8, <1>10, <1>11 DEF AuthoringInv

LEMMA AuthoringInvariant == Spec => []AuthoringInv
<1>1. AuthoringInv /\ [Next]_vars => AuthoringInv'
    BY AuthoringStep
<1> QED
    BY AuthoringInit, <1>1, PTL DEF Spec

-----------------------------------------------------------------------------
(* What a reader should know of the authoring jobs.                          *)

(* Every row keeps its type: a claim raises a fence of a known job, a        *)
(* recovery never passes the last generation of an outbox row, and an        *)
(* asset only ever names an attempt that exists.                             *)
THEOREM AuthoringTypes == Spec => []TypeOK
<1>1. AuthoringInv => TypeOK
    BY DEF AuthoringInv
<1> QED
    BY <1>1, AuthoringInvariant, PTL

(* However many handlers are delivered, woken or recovered at once, no more  *)
(* jobs are claimed than the environment's cap allows over all families, and *)
(* never two of one asset: claimFamilyAuthoringJob and                       *)
(* claimNextFamilyAuthoringJob under the scheduler's row lock.               *)
THEOREM CapIsKept == Spec => []ClaimsWithinCap
<1>1. AuthoringInv => ClaimsWithinCap
    BY DEF AuthoringInv
<1> QED
    BY <1>1, AuthoringInvariant, PTL

(* Whatever confirmations and image revisions are under way at once, every   *)
(* generation of an asset was made from the one just before it: a writer     *)
(* whose expected generation is not the current one is turned away           *)
(* (activateAssetGeneration).                                                *)
THEOREM NoRevisionIsLost == Spec => []NoLostRevision
<1>1. AuthoringInv => NoLostRevision
    BY DEF AuthoringInv
<1> QED
    BY <1>1, AuthoringInvariant, PTL

(* An asset never names an attempt that is over: whoever ends it, the owner  *)
(* or a handler, withdraws it from the asset in the same transaction.        *)
THEOREM AssetsAreReleased == Spec => []EndedAttemptReleasesAsset
<1>1. AuthoringInv => EndedAttemptReleasesAsset
    BY DEF AuthoringInv, ActiveOK, EndedAttemptReleasesAsset
<1> QED
    BY <1>1, AuthoringInvariant, PTL

(* A candidate changes only under the newest fence of its job: the worker of *)
(* a claim that was recovered and claimed again saves nothing, and no other  *)
(* step of the owner or of the queue touches a candidate                     *)
(* (assertFamilyAuthoringFence at the head of the saving transaction).       *)
THEOREM CandidatesUnderFence == Spec => CandidateOfNewestClaim
<1> DEFINE A == \A a \in Attempts : attempts'[a].candidate # attempts[a].candidate
                                        => attempts'[a].candidate = job[a].fence
<1>1. ASSUME AuthoringInv, [Next]_vars PROVE A
    <2> SUFFICES ASSUME NEW b \in Attempts
                 PROVE  \/ attempts'[b].candidate = attempts[b].candidate
                        \/ attempts'[b].candidate = job[b].fence
        OBVIOUS
    <2>t. TypeOK
        BY <1>1 DEF AuthoringInv
    <2>1. ASSUME NEW a \in Attempts, NEW s \in Assets,
                 NEW kind \in {"create", "revision", "upgrade"}, BeginReads(a, s, kind)
          PROVE  attempts'[b].candidate = attempts[b].candidate
        BY <1>1, <2>1, <2>t, BeginEffect DEF AuthoringInv, AttemptsOK, AttemptOK
    <2>2. ASSUME NEW a \in Attempts, NEW row \in AttemptRow, Rewrites(a, row)
          PROVE  \/ attempts'[b].candidate = attempts[b].candidate
                 \/ attempts'[b].candidate = job[b].fence
        BY <2>2, <2>t, RewriteEffect DEF Rewrites
    <2> QED
        BY <1>1, <2>1, <2>2, AttemptWrites
<1>2. AuthoringInv /\ [Next]_vars => [A]_vars
    BY <1>1
<1> QED
    BY <1>2, AuthoringInvariant, PTL DEF Spec, CandidateOfNewestClaim
=============================================================================
