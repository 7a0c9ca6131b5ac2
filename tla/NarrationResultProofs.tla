------------------------ MODULE NarrationResultProofs ------------------------
(* What a narration ends with: theorems about Narration beyond its order, for *)
(* any receipts, workers, dispatchers and bounds, and the refinement of        *)
(* OrderedPublication.                                                         *)
EXTENDS NarrationProofs

-----------------------------------------------------------------------------
(* The inductive invariant.                                                  *)

\* A worker between its claim and its last transaction.
Claimed(w) == pc[w] \in {"generating", "generated", "fenced"}

\* A deleted battle keeps no entry.
Gone ==
    ~exists => \A r \in Receipt :
                  status[r] = "absent" /\ active[r] = 0 /\ presentation[r] = "none"

\* A committed receipt of a battle has an entry.
Present == exists => \A r \in 1..committed : status[r] # "absent"

\* The attempt of a worker is still open in its row, is nobody else's, and an entry
\* names its newest attempt.
AttemptOpen(w) ==
    Claimed(w) => /\ attempt[w] <= attempts[target[w]]
                  /\ attemptStatus[target[w]][attempt[w]] = "generating"

OneWorkerPerAttempt ==
    \A v, w \in Workers :
        Claimed(v) /\ Claimed(w) /\ v # w /\ target[v] = target[w] => attempt[v] # attempt[w]

ActiveIsNewest == \A r \in Receipt : active[r] # 0 => active[r] = attempts[r]

LastClaim ==
    exists => (\A w \in Workers : AttemptOpen(w)) /\ OneWorkerPerAttempt /\ ActiveIsNewest

ResultInv == OrderInv /\ Gone /\ Present /\ LastClaim /\ CompletedByLastClaim

-----------------------------------------------------------------------------
(* The steps that write entries, attempts, presentations or events.          *)

Rows == <<exists, committed, status, active, attempts, attemptStatus, presentation,
          completedEvents, failedEvents>>

Ends(w) ==
    \/ PublishCompletedNarration(w) \/ RequeueNarration(w)
    \/ PublishFailedNarration(w) \/ RecordRemovedBattleAttempt(w)

LEMMA RowSteps ==
    ASSUME [Next]_vars
    PROVE  \/ UNCHANGED Rows
           \/ EnqueueNarration
           \/ DeleteBattle
           \/ \E w \in Workers : ClaimNarrationEntry(w) \/ Ends(w)
<1>1. ASSUME UNCHANGED <<exists, entryVars, eventVars>> PROVE UNCHANGED Rows
    BY <1>1 DEF Rows, entryVars, eventVars
<1>2. ASSUME NEW w \in Workers, WorkerStep(w) \/ Crash(w), ~ClaimNarrationEntry(w), ~Ends(w)
      PROVE  UNCHANGED <<exists, entryVars, eventVars>>
    <2>1. CASE \/ AcquireFencedLease(w) \/ LeaseBusy(w) \/ BattleNotFound(w) \/ SelectEntry(w)
               \/ SelectNothing(w) \/ ClaimConflict(w) \/ GenerateClaimedNarration(w)
        BY <2>1
        DEF AcquireFencedLease, LeaseBusy, BattleNotFound, SelectEntry, SelectNothing,
            ClaimConflict, GenerateClaimedNarration
    <2>2. CASE \/ CheckFence(w) \/ StaleFence(w) \/ StaleAttempt(w)
               \/ FallbackOfRemovedBattle(w) \/ Answer(w) \/ Crash(w)
        BY <2>2 DEF CheckFence, StaleFence, StaleAttempt, FallbackOfRemovedBattle, Answer, Crash
    <2> QED
        BY <1>2, <2>1, <2>2 DEF WorkerStep, Ends
<1>3. ASSUME NEW w \in Workers, NEW t \in Owner, StartDelivery(w, t) \/ EndDelivery(w, t)
      PROVE  UNCHANGED <<exists, entryVars, eventVars>>
    BY <1>3 DEF StartDelivery, EndDelivery
<1>4. CASE \/ LeaseExpires
           \/ \E t \in Task : LoseTask(t)
           \/ \E r \in Receipt : RecoverStaleNarrationOutbox(r)
           \/ \E d \in Dispatchers, r \in Receipt : SelectPendingNarration(d, r)
           \/ \E d \in Dispatchers :
                 SendNarrationTask(d) \/ MarkNarrationDispatched(d) \/ CrashDispatcher(d)
    <2>1. UNCHANGED <<exists, entryVars, eventVars>>
        BY <1>4
        DEF LeaseExpires, LoseTask, RecoverStaleNarrationOutbox, SelectPendingNarration,
            SendNarrationTask, MarkNarrationDispatched, CrashDispatcher
    <2> QED
        BY <1>1, <2>1
<1>5. CASE UNCHANGED vars
    BY <1>1, <1>5 DEF vars
<1> QED
    BY <1>1, <1>2, <1>3, <1>4, <1>5 DEF Next, Finished

\* A worker that comes to its end is no longer between claim and last transaction.
LEMMA EndsClaim ==
    ASSUME TypeInv, NEW w \in Workers, Ends(w)
    PROVE  ~Claimed(w)' /\ Claimed(w)
BY DEF Ends, PublishCompletedNarration, RequeueNarration, PublishFailedNarration,
       RecordRemovedBattleAttempt, Return, Succeed, Claimed, TypeInv, TypeOK, WorkerTypeOK

\* A worker keeps its claim, its target and its attempt.
LEMMA ClaimKept ==
    ASSUME TypeInv, [Next]_vars, NEW w \in Workers, Claimed(w)'
    PROVE  \/ Claimed(w) /\ target'[w] = target[w] /\ attempt'[w] = attempt[w]
           \/ ClaimNarrationEntry(w)
<1> DEFINE Goal == \/ Claimed(w) /\ target'[w] = target[w] /\ attempt'[w] = attempt[w]
                   \/ ClaimNarrationEntry(w)
<1>0. /\ DOMAIN pc = Workers /\ DOMAIN target = Workers /\ DOMAIN attempt = Workers
      /\ pc'[w] \in {"generating", "generated", "fenced"}
    BY DEF TypeInv, TypeOK, WorkerTypeOK, Claimed
<1>1. CASE UNCHANGED <<pc, target, attempt>>
    BY <1>1 DEF Claimed
<1>2. ASSUME NEW v \in Workers, Return(v) \/ Succeed(v) PROVE Goal
    BY <1>0, <1>2 DEF Return, Succeed, Forget, Claimed
<1>3. ASSUME NEW v \in Workers, AcquireFencedLease(v) \/ SelectEntry(v) PROVE Goal
    <2>1. w # v /\ attempt' = attempt
        BY <1>0, <1>3 DEF AcquireFencedLease, SelectEntry
    <2> QED
        BY <1>0, <1>3, <2>1 DEF AcquireFencedLease, SelectEntry, Claimed
<1>4. ASSUME NEW v \in Workers, GenerateClaimedNarration(v) \/ CheckFence(v) PROVE Goal
    BY <1>0, <1>4 DEF GenerateClaimedNarration, CheckFence, Claimed
<1>5. ASSUME NEW v \in Workers, ClaimNarrationEntry(v) PROVE Goal
    <2>1. CASE w = v
        BY <1>5, <2>1
    <2>2. CASE w # v
        BY <1>0, <1>5, <2>2 DEF ClaimNarrationEntry, Claimed
    <2> QED
        BY <2>1, <2>2
<1>6. ASSUME NEW v \in Workers, WorkerStep(v) \/ Crash(v) PROVE Goal
    <2>1. CASE \/ LeaseBusy(v) \/ ClaimConflict(v) \/ StaleFence(v) \/ StaleAttempt(v)
               \/ RequeueNarration(v) \/ FallbackOfRemovedBattle(v) \/ Answer(v) \/ Crash(v)
        BY <2>1, <1>2
        DEF LeaseBusy, ClaimConflict, StaleFence, StaleAttempt, RequeueNarration,
            FallbackOfRemovedBattle, Answer, Crash
    <2>2. CASE \/ BattleNotFound(v) \/ SelectNothing(v) \/ RecordRemovedBattleAttempt(v)
               \/ PublishCompletedNarration(v) \/ PublishFailedNarration(v)
        BY <2>2, <1>2
        DEF BattleNotFound, SelectNothing, RecordRemovedBattleAttempt,
            PublishCompletedNarration, PublishFailedNarration
    <2> QED
        BY <1>3, <1>4, <1>5, <1>6, <2>1, <2>2 DEF WorkerStep
<1>7. ASSUME NEW v \in Workers, NEW t \in Owner, StartDelivery(v, t) \/ EndDelivery(v, t)
      PROVE  Goal
    <2>1. CASE EndDelivery(v, t)
        BY <1>1, <2>1 DEF EndDelivery, workerVars
    <2>2. CASE StartDelivery(v, t)
        BY <1>0, <2>2 DEF StartDelivery, Claimed
    <2> QED
        BY <1>7, <2>1, <2>2
<1>8. CASE \/ EnqueueNarration \/ DeleteBattle \/ LeaseExpires
           \/ \E t \in Task : LoseTask(t)
           \/ \E r \in Receipt : RecoverStaleNarrationOutbox(r)
           \/ \E d \in Dispatchers, r \in Receipt : SelectPendingNarration(d, r)
           \/ \E d \in Dispatchers :
                 SendNarrationTask(d) \/ MarkNarrationDispatched(d) \/ CrashDispatcher(d)
    BY <1>1, <1>8
    DEF EnqueueNarration, DeleteBattle, LeaseExpires, LoseTask, RecoverStaleNarrationOutbox,
        SelectPendingNarration, SendNarrationTask, MarkNarrationDispatched, CrashDispatcher,
        workerVars
<1>9. CASE UNCHANGED vars
    BY <1>1, <1>9 DEF vars, workerVars
<1>10. QED
    BY <1>6, <1>7, <1>8, <1>9 DEF Next, Finished

\* One attempt's row is written.
LEMMA AttemptWrite ==
    ASSUME EntryTypeOK, NEW r \in Receipt, NEW k \in 1..MaxClaims, NEW x,
           attemptStatus' = [attemptStatus EXCEPT ![r][k] = x],
           NEW e \in Receipt, NEW j \in 1..MaxClaims
    PROVE  attemptStatus'[e][j] = IF e = r /\ j = k THEN x ELSE attemptStatus[e][j]
BY DEF EntryTypeOK, AttemptRows

\* What a claim writes: a new attempt of an open entry.
LEMMA ClaimEffect ==
    ASSUME TypeInv, NEW w \in Workers, ClaimNarrationEntry(w)
    PROVE  LET r == target[w]
               k == attempts[r] + 1
           IN  /\ r \in Receipt /\ k \in 1..MaxClaims /\ status[r] \in Open
               /\ status' = [status EXCEPT ![r] = "generating"]
               /\ active' = [active EXCEPT ![r] = k]
               /\ attempts' = [attempts EXCEPT ![r] = k]
               /\ attemptStatus' = [attemptStatus EXCEPT ![r][k] = "generating"]
               /\ attempt' = [attempt EXCEPT ![w] = k] /\ target' = target
               /\ pc[w] = "selected" /\ pc' = [pc EXCEPT ![w] = "generating"]
               /\ UNCHANGED <<exists, committed, presentation, completedEvents, failedEvents>>
<1>1. target[w] \in Receipt
    BY NarrationAssumption
    DEF ClaimNarrationEntry, TypeInv, TypeOK, EntryTypeOK, TargetOK, Receipt
<1>2. attempts[target[w]] + 1 \in 1..MaxClaims
    BY <1>1, NarrationAssumption DEF ClaimNarrationEntry, TypeInv, TypeOK, EntryTypeOK
<1>3. status[target[w]] \in Open
    BY DEF ClaimNarrationEntry, SelectedStillOpen
<1> QED
    BY <1>1, <1>2, <1>3 DEF ClaimNarrationEntry, eventVars

\* What the last transaction of a worker writes.  A battle that exists has the entry
\* changed only if it still names the attempt.
LEMMA EndEffect ==
    ASSUME TypeInv, ActiveGenerating, NEW w \in Workers, Ends(w), exists
    PROVE  LET r == target[w]
               k == attempt[w]
           IN  /\ r \in Receipt /\ k \in 1..MaxClaims /\ Claimed(w)
               /\ UNCHANGED <<exists, committed, attempts>>
               /\ active[r] = k => status[r] = "generating"
               /\ \/ /\ active[r] = k
                     /\ status' = [status EXCEPT ![r] = "completed"]
                     /\ active' = [active EXCEPT ![r] = 0]
                     /\ attemptStatus' = [attemptStatus EXCEPT ![r][k] = "completed"]
                     /\ completedEvents' = [completedEvents EXCEPT ![r] = completedEvents[r] + 1]
                     /\ failedEvents' = failedEvents
                     /\ presentation' = [presentation EXCEPT ![r] = "narrative"]
                  \/ /\ active[r] # k /\ UNCHANGED <<status, active>>
                     /\ completedEvents' = completedEvents
                     /\ \E x \in {"abandoned", "failed"} :
                           attemptStatus' = [attemptStatus EXCEPT ![r][k] = x]
                  \/ /\ active[r] = k
                     /\ status' = [status EXCEPT ![r] = "queued"]
                     /\ active' = [active EXCEPT ![r] = 0]
                     /\ attemptStatus' = [attemptStatus EXCEPT ![r][k] = "abandoned"]
                     /\ UNCHANGED <<completedEvents, failedEvents, presentation>>
                  \/ /\ active[r] = k
                     /\ status' = [status EXCEPT ![r] = "failed"]
                     /\ active' = [active EXCEPT ![r] = 0]
                     /\ attemptStatus' = [attemptStatus EXCEPT ![r][k] = "failed"]
                     /\ completedEvents' = completedEvents
                     /\ failedEvents' = [failedEvents EXCEPT ![r] = failedEvents[r] + 1]
                     /\ presentation' = FailedPresentation(r)
<1>1. Claimed(w) /\ target[w] \in Receipt /\ attempt[w] \in 1..MaxClaims
    <2>1. Claimed(w)
        BY EndsClaim
    <2> QED
        BY <2>1, ClaimType DEF Claimed
<1>2. active[target[w]] = attempt[w] => status[target[w]] = "generating"
    BY <1>1 DEF ActiveGenerating
<1>3. CASE PublishCompletedNarration(w)
    BY <1>1, <1>2, <1>3 DEF PublishCompletedNarration, StillClaimed
<1>4. CASE RequeueNarration(w)
    BY <1>1, <1>2, <1>4 DEF RequeueNarration, StillClaimed, eventVars
<1>5. CASE PublishFailedNarration(w)
    BY <1>1, <1>2, <1>5 DEF PublishFailedNarration, StillClaimed
<1> QED
    BY <1>3, <1>4, <1>5 DEF Ends, RecordRemovedBattleAttempt

\* ... and of a removed battle it changes no entry.
LEMMA EndRemoved ==
    ASSUME TypeInv, Gone, NEW w \in Workers, Ends(w), ~exists
    PROVE  UNCHANGED <<exists, committed, status, active, presentation>>
<1>1. Claimed(w)
    BY EndsClaim
<1>2. target[w] \in Receipt /\ attempt[w] \in 1..MaxClaims
    BY <1>1, ClaimType DEF Claimed
<1>3. ~StillClaimed(w)
    BY <1>2 DEF Gone, StillClaimed
<1>4. CASE RequeueNarration(w)
    BY <1>3, <1>4 DEF RequeueNarration
<1>5. CASE PublishFailedNarration(w)
    BY <1>3, <1>5 DEF PublishFailedNarration, FailedPresentation
<1> QED
    BY <1>3, <1>4, <1>5 DEF Ends, PublishCompletedNarration, RecordRemovedBattleAttempt

LEMMA RemovedStep ==
    ASSUME OrderInv, Gone, Present, [Next]_vars
    PROVE  Gone' /\ Present'
<1> USE DEF OrderInv
<1>0. committed \in 0..N /\ DOMAIN status = Receipt
    BY DEF TypeInv, TypeOK, EntryTypeOK
<1>1. CASE UNCHANGED Rows
    BY <1>1 DEF Rows, Gone, Present
<1>2. CASE EnqueueNarration
    <2>1. /\ exists /\ exists' /\ committed' = committed + 1
          /\ status' = [status EXCEPT ![committed + 1] = "queued"]
        BY <1>2 DEF EnqueueNarration
    <2>2. ASSUME NEW r \in 1..committed' PROVE status'[r] # "absent"
        <3>1. r \in Receipt /\ (r = committed + 1 \/ r \in 1..committed)
            BY <1>0, <1>2, <2>1, NarrationAssumption DEF EnqueueNarration, Receipt
        <3> QED
            BY <1>0, <2>1, <3>1 DEF Present
    <2> QED
        BY <2>1, <2>2 DEF Gone, Present
<1>3. CASE DeleteBattle
    BY <1>3 DEF DeleteBattle, Gone, Present
<1>4. ASSUME NEW w \in Workers, ClaimNarrationEntry(w) PROVE Gone' /\ Present'
    <2>1. PICK r \in Receipt : /\ r = target[w] /\ status[r] \in Open
                               /\ status' = [status EXCEPT ![r] = "generating"]
                               /\ exists' = exists /\ committed' = committed
        BY <1>4, ClaimEffect
    <2>2. exists
        BY <2>1 DEF Gone, Open
    <2> QED
        BY <1>0, <2>1, <2>2, NarrationAssumption DEF Gone, Present, Receipt
<1>5. ASSUME NEW w \in Workers, Ends(w) PROVE Gone' /\ Present'
    <2>1. CASE ~exists
        BY <1>5, <2>1, EndRemoved DEF Gone, Present
    <2>2. CASE exists
        <3>1. PICK r \in Receipt : r = target[w]
            BY <1>5, <2>2, EndEffect
        <3>2. /\ exists' = exists /\ committed' = committed
              /\ \/ status' = status
                 \/ \E x \in {"completed", "queued", "failed"} : status' = [status EXCEPT ![r] = x]
            BY <1>5, <2>2, <3>1, EndEffect
        <3>3. ASSUME NEW e \in 1..committed PROVE status'[e] # "absent"
            <4>1. e \in Receipt /\ status[e] # "absent"
                BY <1>0, <2>2, NarrationAssumption DEF Present, Receipt
            <4> QED
                BY <1>0, <3>2, <4>1
        <3> QED
            BY <2>2, <3>2, <3>3 DEF Gone, Present
    <2> QED
        BY <2>1, <2>2
<1> QED
    BY <1>1, <1>2, <1>3, <1>4, <1>5, RowSteps

-----------------------------------------------------------------------------
(* The text of an entry is that of its last claim.                           *)

\* No step brings a battle back.
LEMMA StaysRemoved ==
    ASSUME TypeInv, [Next]_vars, exists'
    PROVE  exists
<1>1. CASE UNCHANGED Rows
    BY <1>1 DEF Rows
<1>2. ASSUME NEW w \in Workers, Ends(w) PROVE exists
    BY <1>2 DEF Ends, PublishCompletedNarration, RequeueNarration, PublishFailedNarration,
                RecordRemovedBattleAttempt
<1> QED
    BY <1>1, <1>2, RowSteps DEF EnqueueNarration, DeleteBattle, ClaimNarrationEntry

LEMMA LastClaimStep ==
    ASSUME ResultInv, [Next]_vars
    PROVE  LastClaim'
<1> SUFFICES ASSUME exists'
             PROVE  (\A w \in Workers : AttemptOpen(w)') /\ OneWorkerPerAttempt' /\ ActiveIsNewest'
    BY DEF LastClaim
<1> USE DEF ResultInv, OrderInv
<1>0. /\ exists /\ (\A w \in Workers : AttemptOpen(w)) /\ OneWorkerPerAttempt /\ ActiveIsNewest
    BY StaysRemoved DEF LastClaim
<1>t. /\ attempts \in [Receipt -> 0..MaxClaims] /\ active \in [Receipt -> 0..MaxClaims]
      /\ EntryTypeOK
    BY DEF TypeInv, TypeOK, EntryTypeOK
<1> DEFINE Kept1(v) == /\ Claimed(v) /\ target'[v] = target[v] /\ attempt'[v] = attempt[v]
                       /\ target[v] \in Receipt /\ attempt[v] \in 1..MaxClaims
                       /\ attempt[v] <= attempts[target[v]]
                       /\ attemptStatus[target[v]][attempt[v]] = "generating"
<1>k. ASSUME NEW v \in Workers, Claimed(v)', ~ClaimNarrationEntry(v) PROVE Kept1(v)
    <2>1. Claimed(v) /\ target'[v] = target[v] /\ attempt'[v] = attempt[v]
        BY <1>k, ClaimKept
    <2>2. target[v] \in Receipt /\ attempt[v] \in 1..MaxClaims
        BY <2>1, ClaimType DEF Claimed
    <2> QED
        BY <1>0, <2>1, <2>2 DEF AttemptOpen
<1>1. ASSUME UNCHANGED <<active, attempts, attemptStatus>>,
             \A w \in Workers : ~ClaimNarrationEntry(w)
      PROVE  (\A w \in Workers : AttemptOpen(w)') /\ OneWorkerPerAttempt' /\ ActiveIsNewest'
    <2>1. ASSUME NEW v \in Workers PROVE AttemptOpen(v)'
        BY <1>1, <1>k DEF AttemptOpen
    <2>2. OneWorkerPerAttempt'
        BY <1>0, <1>1, <1>k DEF OneWorkerPerAttempt
    <2> QED
        BY <1>0, <1>1, <2>1, <2>2 DEF ActiveIsNewest
<1>2. ASSUME NEW w \in Workers, ClaimNarrationEntry(w)
      PROVE  (\A v \in Workers : AttemptOpen(v)') /\ OneWorkerPerAttempt' /\ ActiveIsNewest'
    <2>1. PICK r \in Receipt : r = target[w]
        BY <1>2, ClaimEffect
    <2>2. PICK k \in 1..MaxClaims : k = attempts[r] + 1
        BY <1>2, <2>1, ClaimEffect
    <2>3. /\ active' = [active EXCEPT ![r] = k]
          /\ attempts' = [attempts EXCEPT ![r] = k]
          /\ attemptStatus' = [attemptStatus EXCEPT ![r][k] = "generating"]
          /\ attempt' = [attempt EXCEPT ![w] = k] /\ target' = target
          /\ pc[w] = "selected" /\ pc' = [pc EXCEPT ![w] = "generating"]
        BY <1>2, <2>1, <2>2, ClaimEffect
    <2>4. DOMAIN pc = Workers /\ DOMAIN attempt = Workers
        BY DEF TypeInv, TypeOK, WorkerTypeOK
    <2>5. target'[w] = r /\ attempt'[w] = k /\ attempts'[r] = k
        BY <2>1, <2>3, <2>4, <1>t
    <2>6. ASSUME NEW v \in Workers, Claimed(v)', v # w
          PROVE  Kept1(v) /\ (target[v] = r => attempt[v] < k)
        <3>1. ~ClaimNarrationEntry(v)
            BY <2>3, <2>4, <2>6 DEF ClaimNarrationEntry, Claimed
        <3>2. Kept1(v)
            BY <1>k, <2>6, <3>1
        <3> QED
            BY <2>2, <3>2, <1>t
    <2>7. ASSUME NEW e \in Receipt, NEW j \in 1..MaxClaims
          PROVE  attemptStatus'[e][j] =
                    IF e = r /\ j = k THEN "generating" ELSE attemptStatus[e][j]
        <3>1. attemptStatus' = [attemptStatus EXCEPT ![r][k] = "generating"]
            BY <2>3
        <3> HIDE DEF ResultInv, OrderInv
        <3> QED
            BY <1>t, <3>1 DEF EntryTypeOK, AttemptRows
    <2>8. ASSUME NEW v \in Workers PROVE AttemptOpen(v)'
        <3>1. CASE v = w
            BY <2>5, <2>7, <3>1 DEF AttemptOpen
        <3>2. CASE v # w /\ Claimed(v)'
            <4>1. Kept1(v) /\ (target[v] = r => attempt[v] < k)
                BY <2>6, <3>2
            <4>2. attempts'[target[v]] = IF target[v] = r THEN k ELSE attempts[target[v]]
                BY <1>t, <2>3, <4>1
            <4>3. attemptStatus'[target[v]][attempt[v]] = "generating"
                BY <2>7, <4>1
            <4> QED
                BY <4>1, <4>2, <4>3 DEF AttemptOpen
        <3> QED
            BY <3>1, <3>2 DEF AttemptOpen
    <2>9. OneWorkerPerAttempt'
        <3> SUFFICES ASSUME NEW u \in Workers, NEW v \in Workers, Claimed(u)', Claimed(v)',
                            u # v, target'[u] = target'[v]
                     PROVE  attempt'[u] # attempt'[v]
            BY DEF OneWorkerPerAttempt
        <3>1. CASE u = w
            BY <2>5, <2>6, <3>1
        <3>2. CASE v = w
            BY <2>5, <2>6, <3>2
        <3>3. CASE u # w /\ v # w
            BY <1>0, <2>6, <3>3 DEF OneWorkerPerAttempt
        <3> QED
            BY <3>1, <3>2, <3>3
    <2>10. ActiveIsNewest'
        BY <1>0, <1>t, <2>3 DEF ActiveIsNewest
    <2> QED
        BY <2>8, <2>9, <2>10
<1>3. ASSUME NEW w \in Workers, Ends(w)
      PROVE  (\A v \in Workers : AttemptOpen(v)') /\ OneWorkerPerAttempt' /\ ActiveIsNewest'
    <2>1. PICK r \in Receipt : r = target[w]
        BY <1>0, <1>3, EndEffect
    <2>2. PICK k \in 1..MaxClaims : k = attempt[w]
        BY <1>0, <1>3, EndEffect
    <2>3. /\ attempts' = attempts
          /\ active' = active \/ active' = [active EXCEPT ![r] = 0]
        BY <1>0, <1>3, <2>1, <2>2, EndEffect
    <2>4. \E x \in {"completed", "abandoned", "failed"} :
             attemptStatus' = [attemptStatus EXCEPT ![r][k] = x]
        BY <1>0, <1>3, <2>1, <2>2, EndEffect
    <2>5. Claimed(w) /\ ~Claimed(w)' /\ pc[w] # "selected"
        BY <1>3, EndsClaim DEF Claimed
    <2>6. ASSUME NEW v \in Workers, Claimed(v)'
          PROVE  Kept1(v) /\ v # w /\ ~(target[v] = r /\ attempt[v] = k)
        <3>1. v # w
            BY <2>5, <2>6
        <3>2. ~ClaimNarrationEntry(v)
            <4> SUFFICES ASSUME ClaimNarrationEntry(v) PROVE FALSE
                OBVIOUS
            <4>1. /\ attempts' = [attempts EXCEPT ![target[v]] = attempts[target[v]] + 1]
                  /\ target[v] \in Receipt
                BY ClaimEffect
            <4> QED
                BY <1>t, <2>3, <4>1
        <3>3. Kept1(v)
            BY <1>k, <2>6, <3>2
        <3> QED
            BY <1>0, <2>1, <2>2, <2>5, <3>1, <3>3 DEF OneWorkerPerAttempt
    <2>7. ASSUME NEW v \in Workers PROVE AttemptOpen(v)'
        <3> SUFFICES ASSUME Claimed(v)'
                     PROVE  /\ attempt'[v] <= attempts'[target'[v]]
                            /\ attemptStatus'[target'[v]][attempt'[v]] = "generating"
            BY DEF AttemptOpen
        <3>1. Kept1(v) /\ ~(target[v] = r /\ attempt[v] = k)
            BY <2>6
        <3>2. attemptStatus'[target[v]][attempt[v]] = attemptStatus[target[v]][attempt[v]]
            BY <1>t, <2>4, <3>1, AttemptWrite
        <3> QED
            BY <2>3, <3>1, <3>2
    <2>8. OneWorkerPerAttempt'
        BY <1>0, <2>6 DEF OneWorkerPerAttempt
    <2>9. ActiveIsNewest'
        BY <1>0, <1>t, <2>3 DEF ActiveIsNewest
    <2> QED
        BY <2>7, <2>8, <2>9
<1>4. CASE DeleteBattle
    BY <1>4 DEF DeleteBattle
<1>5. CASE EnqueueNarration
    <2>1. UNCHANGED <<active, attempts, attemptStatus, pc>>
        BY <1>5 DEF EnqueueNarration, workerVars
    <2>2. ASSUME NEW w \in Workers, ClaimNarrationEntry(w) PROVE FALSE
        BY <2>1, <2>2 DEF ClaimNarrationEntry, TypeInv, TypeOK, WorkerTypeOK
    <2> QED
        BY <1>1, <2>1, <2>2
<1>6. CASE UNCHANGED Rows
    BY <1>1, <1>2, <1>6 DEF Rows
<1> QED
    BY <1>2, <1>3, <1>4, <1>5, <1>6, RowSteps

\* CompletedByLastClaim, of one receipt.
EndedByLast(r) ==
    IF status[r] = "completed"
    THEN /\ \A k \in 1..MaxClaims : attemptStatus[r][k] = "completed" <=> k = attempts[r]
         /\ completedEvents[r] = 1
    ELSE /\ \A k \in 1..MaxClaims : attemptStatus[r][k] # "completed"
         /\ completedEvents[r] = 0

LEMMA ByReceipt == CompletedByLastClaim <=> (exists => \A r \in Receipt : EndedByLast(r))
BY DEF CompletedByLastClaim, EndedByLast

LEMMA CompletedStep ==
    ASSUME ResultInv, [Next]_vars
    PROVE  CompletedByLastClaim'
<1> SUFFICES ASSUME exists', NEW e \in Receipt PROVE EndedByLast(e)'
    BY DEF CompletedByLastClaim, EndedByLast
<1> USE DEF ResultInv, OrderInv
<1>0. /\ exists /\ EndedByLast(e)
      /\ (\A w \in Workers : AttemptOpen(w)) /\ ActiveIsNewest
    BY StaysRemoved, ByReceipt DEF LastClaim
<1>t. /\ attempts \in [Receipt -> 0..MaxClaims]
      /\ status \in [Receipt -> {"absent"} \cup Open \cup Terminal]
      /\ completedEvents \in [Receipt -> Nat]
      /\ EntryTypeOK
    BY DEF TypeInv, TypeOK, EntryTypeOK, EventTypeOK
<1>1. CASE UNCHANGED Rows
    <2>1. UNCHANGED <<status, attemptStatus, attempts, completedEvents>>
        BY <1>1 DEF Rows
    <2> QED
        BY <1>0, <2>1 DEF EndedByLast
<1>2. CASE EnqueueNarration
    <2>1. /\ UNCHANGED <<attemptStatus, attempts, completedEvents>>
          /\ status' = [status EXCEPT ![committed + 1] = "queued"]
        BY <1>2 DEF EnqueueNarration, eventVars
    <2>2. e = committed + 1 => status[e] = "absent" /\ status'[e] = "queued"
        BY <1>t, <2>1 DEF TypeInv, NotYetAbsent, EntryTypeOK
    <2>3. e # committed + 1 => status'[e] = status[e]
        BY <1>t, <2>1
    <2> QED
        BY <1>0, <2>1, <2>2, <2>3 DEF EndedByLast
<1>3. CASE DeleteBattle
    BY <1>3 DEF DeleteBattle
<1>4. ASSUME NEW w \in Workers, ClaimNarrationEntry(w) PROVE EndedByLast(e)'
    <2>1. PICK r \in Receipt : r = target[w]
        BY <1>4, ClaimEffect
    <2>2. PICK k \in 1..MaxClaims : k = attempts[r] + 1
        BY <1>4, <2>1, ClaimEffect
    <2>3. /\ status[r] \in Open
          /\ status' = [status EXCEPT ![r] = "generating"]
          /\ attempts' = [attempts EXCEPT ![r] = k]
          /\ attemptStatus' = [attemptStatus EXCEPT ![r][k] = "generating"]
          /\ completedEvents' = completedEvents
        BY <1>4, <2>1, <2>2, ClaimEffect
    <2>4. ASSUME NEW j \in 1..MaxClaims
          PROVE  attemptStatus'[e][j] =
                    IF e = r /\ j = k THEN "generating" ELSE attemptStatus[e][j]
        BY <1>t, <2>3 DEF EntryTypeOK, AttemptRows
    <2>5. CASE e = r
        <3>1. status[e] # "completed" /\ status'[e] = "generating"
            BY <1>t, <2>3, <2>5 DEF Open
        <3> QED
            BY <1>0, <2>3, <2>4, <3>1 DEF EndedByLast
    <2>6. CASE e # r
        <3>1. status'[e] = status[e] /\ attempts'[e] = attempts[e]
            BY <1>t, <2>3, <2>6
        <3> QED
            BY <1>0, <2>3, <2>4, <2>6, <3>1 DEF EndedByLast
    <2> QED
        BY <2>5, <2>6
<1>5. ASSUME NEW w \in Workers, Ends(w) PROVE EndedByLast(e)'
    <2>1. PICK r \in Receipt : r = target[w]
        BY <1>0, <1>5, EndEffect
    <2>2. PICK k \in 1..MaxClaims : k = attempt[w]
        BY <1>0, <1>5, EndEffect
    <2>3. /\ Claimed(w) /\ attempts' = attempts
          /\ active[r] = k => status[r] = "generating"
        BY <1>0, <1>5, <2>1, <2>2, EndEffect
    <2>4. attemptStatus[r][k] = "generating"
        BY <1>0, <2>1, <2>2, <2>3 DEF AttemptOpen
    <2>5. CASE e # r
        <3>1. status'[e] = status[e] /\ completedEvents'[e] = completedEvents[e]
            <4>1. status' = status \/ \E y : status' = [status EXCEPT ![r] = y]
                BY <1>0, <1>5, <2>1, <2>2, EndEffect
            <4>2. \/ completedEvents' = completedEvents
                  \/ completedEvents' = [completedEvents EXCEPT ![r] = completedEvents[r] + 1]
                BY <1>0, <1>5, <2>1, <2>2, EndEffect
            <4> QED
                BY <1>t, <2>5, <4>1, <4>2
        <3>2. PICK x \in {"completed", "abandoned", "failed"} :
                 attemptStatus' = [attemptStatus EXCEPT ![r][k] = x]
            BY <1>0, <1>5, <2>1, <2>2, EndEffect
        <3>3. attemptStatus'[e] = attemptStatus[e]
            BY <2>5, <3>2, <1>t DEF EntryTypeOK, AttemptRows
        <3> QED
            BY <1>0, <2>3, <3>1, <3>3 DEF EndedByLast
    <2>6. ASSUME e = r, active[r] = k,
                 status' = [status EXCEPT ![r] = "completed"],
                 attemptStatus' = [attemptStatus EXCEPT ![r][k] = "completed"],
                 completedEvents' = [completedEvents EXCEPT ![r] = completedEvents[r] + 1]
          PROVE  EndedByLast(e)'
        <3>1. status[e] = "generating" /\ attempts[e] = k
            BY <1>0, <2>3, <2>6 DEF ActiveIsNewest
        <3>2. completedEvents'[e] = 1 /\ status'[e] = "completed"
            BY <1>0, <1>t, <2>6, <3>1 DEF EndedByLast
        <3>3. ASSUME NEW j \in 1..MaxClaims
              PROVE  attemptStatus'[e][j] = "completed" <=> j = k
            <4>1. attemptStatus'[e][j] = IF j = k THEN "completed" ELSE attemptStatus[e][j]
                BY <1>t, <2>6 DEF EntryTypeOK, AttemptRows
            <4> QED
                BY <1>0, <3>1, <4>1 DEF EndedByLast
        <3> QED
            BY <2>3, <3>1, <3>2, <3>3 DEF EndedByLast
    <2>7. ASSUME e = r, NEW x \in {"abandoned", "failed"},
                 attemptStatus' = [attemptStatus EXCEPT ![r][k] = x],
                 completedEvents' = completedEvents,
                 \/ active[r] # k /\ status' = status
                 \/ /\ active[r] = k
                    /\ \E y \in {"queued", "failed"} : status' = [status EXCEPT ![r] = y]
          PROVE  EndedByLast(e)'
        <3>1. ASSUME NEW j \in 1..MaxClaims
              PROVE  attemptStatus'[e][j] = IF j = k THEN x ELSE attemptStatus[e][j]
            BY <1>t, <2>7 DEF EntryTypeOK, AttemptRows
        <3>2. x # "completed"
            OBVIOUS
        <3>3. CASE active[r] # k /\ status' = status
            <4>1. status[e] = "completed" => k # attempts[e]
                BY <1>0, <2>4, <2>7 DEF EndedByLast
            <4> QED
                BY <1>0, <2>3, <2>7, <3>1, <3>2, <3>3, <4>1 DEF EndedByLast
        <3>4. CASE \E y \in {"queued", "failed"} :
                      active[r] = k /\ status' = [status EXCEPT ![r] = y]
            <4>1. status[e] # "completed" /\ status'[e] # "completed"
                BY <1>t, <2>3, <2>7, <3>4
            <4> QED
                BY <1>0, <2>7, <3>1, <3>2, <4>1 DEF EndedByLast
        <3> QED
            BY <2>7, <3>3, <3>4
    <2>8. CASE e = r
        BY <1>0, <1>5, <2>1, <2>2, <2>6, <2>7, <2>8, EndEffect
    <2> QED
        BY <2>5, <2>8
<1> QED
    BY <1>1, <1>2, <1>3, <1>4, <1>5, RowSteps

LEMMA ResultInit == Init => ResultInv
<1> SUFFICES ASSUME Init PROVE ResultInv
    OBVIOUS
<1>1. OrderInv
    BY TypeInit DEF Init, OrderInv, ActiveGenerating, SelectedHeads, InOrder
<1>2. Gone /\ Present /\ LastClaim /\ CompletedByLastClaim
    BY NarrationAssumption
    DEF Init, Gone, Present, LastClaim, AttemptOpen, OneWorkerPerAttempt, ActiveIsNewest,
        Claimed, CompletedByLastClaim, Receipt
<1> QED
    BY <1>1, <1>2 DEF ResultInv

LEMMA ResultStep == ResultInv /\ [Next]_vars => ResultInv'
BY OrderStep, RemovedStep, LastClaimStep, CompletedStep DEF ResultInv

LEMMA ResultHolds == Spec => []ResultInv
BY ResultInit, ResultStep, PTL DEF Spec

\* The text an entry ends with is that of its newest claim, whatever is redelivered,
\* outlived, lost or crashes: an overtaken worker never publishes a narrative
\* (narration-worker.ts:680-736, 851-871).
THEOREM LastClaimPublishes == Spec => []CompletedByLastClaim
BY ResultHolds, PTL DEF ResultInv

-----------------------------------------------------------------------------
(* The pipeline implements OrderedPublication.                               *)

\* A step that ends no entry leaves the public results alone.
LEMMA SameResults ==
    ASSUME \A r \in Receipt : /\ status'[r] \in Terminal <=> status[r] \in Terminal
                              /\ status[r] \in Terminal => status'[r] = status[r]
    PROVE  PublicResult' = PublicResult
BY DEF PublicResult

\* The transaction that ends entry r publishes its result, and nothing else.
LEMMA PublishOne ==
    ASSUME ResultInv, exists, exists', committed' = committed, NEW r \in 1..committed,
           status[r] = "generating", NEW x \in Terminal,
           status' = [status EXCEPT ![r] = x]
    PROVE  Publication!PublishSome
<1> USE DEF ResultInv, OrderInv
<1>1. committed \in 0..N /\ N \in Nat /\ DOMAIN status = Receipt /\ r \in 1..N
    BY NarrationAssumption DEF TypeInv, TypeOK, EntryTypeOK
<1>2. ASSUME NEW e \in 1..r PROVE PublicResult[e] = "none" <=> e >= r
    <2>1. e \in Receipt /\ e \in 1..committed
        BY <1>1 DEF Receipt
    <2>2. CASE e = r
        BY <2>1, <2>2 DEF PublicResult, Terminal
    <2>3. CASE e < r
        <3>1. status[e] \notin Open /\ status[e] # "absent"
            BY <1>1, <2>1, <2>3 DEF InOrder, Present, Receipt, Open
        <3>2. status[e] \in Terminal
            BY <2>1, <3>1 DEF TypeInv, TypeOK, EntryTypeOK
        <3> QED
            BY <2>1, <2>3, <3>2 DEF PublicResult, Terminal
    <2> QED
        BY <1>1, <2>1, <2>2, <2>3
<1>3. PublicResult' = [e \in 1..N |-> IF e \in r..r THEN x ELSE PublicResult[e]]
    BY <1>1 DEF PublicResult, Receipt
<1>4. Publication!Publish(r, r)
    BY <1>1, <1>2, <1>3 DEF Publication!Publish, Publication!Results, Terminal
<1> QED
    BY <1>1, <1>4 DEF Publication!PublishSome

LEMMA PublicationStep ==
    ASSUME ResultInv, [Next]_vars
    PROVE  [Publication!Next]_(Publication!pubVars)
<1> USE DEF ResultInv, OrderInv
<1>t. /\ committed \in 0..N /\ N \in Nat /\ exists \in BOOLEAN
      /\ status \in [Receipt -> {"absent"} \cup Open \cup Terminal]
    BY NarrationAssumption DEF TypeInv, TypeOK, EntryTypeOK
<1>0. ASSUME exists' <=> exists, committed' = committed, PublicResult' = PublicResult
      PROVE  UNCHANGED Publication!pubVars
    BY <1>0 DEF Publication!pubVars
<1>1. CASE UNCHANGED Rows
    BY <1>0, <1>1 DEF Rows, PublicResult
<1>2. CASE EnqueueNarration
    <2>1. /\ exists /\ (exists' <=> exists) /\ committed < N /\ committed' = committed + 1
          /\ status' = [status EXCEPT ![committed + 1] = "queued"]
        BY <1>2 DEF EnqueueNarration
    <2>2. committed + 1 \in Receipt /\ status[committed + 1] = "absent"
        BY <1>t, <2>1 DEF TypeInv, NotYetAbsent, Receipt
    <2>3. PublicResult' = PublicResult
        BY <1>t, <2>1, <2>2, SameResults DEF Open, Terminal
    <2> QED
        BY <2>1, <2>3 DEF Publication!Commit, Publication!Next
<1>3. CASE DeleteBattle
    <2>1. /\ exists /\ ~exists' /\ committed' = committed
          /\ \A r \in Receipt : status'[r] = "absent"
        BY <1>3 DEF DeleteBattle
    <2>2. PublicResult' = [r \in 1..N |-> "none"]
        BY <2>1 DEF PublicResult, Receipt, Terminal
    <2> QED
        BY <2>1, <2>2 DEF Publication!Remove, Publication!Next
<1>4. ASSUME NEW w \in Workers, ClaimNarrationEntry(w)
      PROVE  UNCHANGED Publication!pubVars
    <2>1. PICK r \in Receipt : /\ status[r] \in Open
                               /\ status' = [status EXCEPT ![r] = "generating"]
                               /\ exists' = exists /\ committed' = committed
        BY <1>4, ClaimEffect
    <2>2. PublicResult' = PublicResult
        BY <1>t, <2>1, SameResults DEF Open, Terminal
    <2> QED
        BY <1>0, <2>1, <2>2
<1>5. ASSUME NEW w \in Workers, Ends(w) PROVE [Publication!Next]_(Publication!pubVars)
    <2>1. CASE ~exists
        BY <1>0, <1>5, <2>1, EndRemoved DEF PublicResult
    <2>2. CASE exists
        <3>1. PICK r \in 1..committed : r = target[w]
            <4>1. Claimed(w)
                BY <1>5, EndsClaim
            <4> QED
                BY <4>1, ClaimType DEF Claimed
        <3>2. r \in Receipt /\ exists' = exists /\ committed' = committed
            BY <1>5, <2>2, <3>1, EndEffect
        <3>3. \/ status' = status
              \/ /\ status[r] = "generating"
                 /\ \E x \in Terminal : status' = [status EXCEPT ![r] = x]
              \/ status[r] = "generating" /\ status' = [status EXCEPT ![r] = "queued"]
            BY <1>5, <2>2, <3>1, EndEffect DEF Terminal
        <3>4. CASE status' = status
            BY <1>0, <3>2, <3>4 DEF PublicResult
        <3>5. ASSUME status[r] = "generating", NEW x \in Terminal,
                     status' = [status EXCEPT ![r] = x]
              PROVE  Publication!Next
            BY <2>2, <3>2, <3>5, PublishOne DEF Publication!Next
        <3>6. CASE status[r] = "generating" /\ status' = [status EXCEPT ![r] = "queued"]
            <4>1. PublicResult' = PublicResult
                BY <1>t, <3>2, <3>6, SameResults DEF Open, Terminal
            <4> QED
                BY <1>0, <3>2, <4>1
        <3> QED
            BY <3>3, <3>4, <3>5, <3>6
    <2> QED
        BY <2>1, <2>2
<1> QED
    BY <1>1, <1>2, <1>3, <1>4, <1>5, RowSteps

\* The workers, the queue and the dispatchers implement the abstract publication:
\* every behaviour, seen through its public results, publishes the receipts one by
\* one, in order and for good, until the battle is deleted
\* (narration-worker.ts:417-428, 680-849).
THEOREM ImplementsPublication == Spec => PublishesInOrder
<1>1. Init => Publication!Init
    BY DEF Init, Publication!Init, PublicResult, Receipt, Terminal
<1> QED
    BY <1>1, ResultHolds, PublicationStep, PTL DEF Spec, PublishesInOrder, Publication!Spec

-----------------------------------------------------------------------------
(* Without redelivery and overruns: one narrator at a time, one terminal     *)
(* event per receipt.                                                        *)

\* A worker between its lease and its last transaction.
Holds(w) == pc[w] = "leased" \/ pc[w] = "selected" \/ Claimed(w)

TasksApart ==
    \A v, w \in Workers : pc[v] # "idle" /\ pc[w] # "idle" /\ v # w => task[v] # task[w]

OneHolder == \A v, w \in Workers : Holds(v) /\ Holds(w) => v = w

\* While the battle exists, the holder's lease is the live row and its entry names its
\* attempt.
HolderHasLease == exists => \A w \in Workers : Holds(w) => OwnsLease(w) /\ lease.live

HolderIsActive == exists => \A w \in Workers : Claimed(w) => StillClaimed(w)

SerialInv == TasksApart /\ OneHolder /\ HolderHasLease /\ HolderIsActive

\* A worker keeps its task until it is idle, and its token until it gives up.
LEMMA HoldKept ==
    ASSUME TypeInv, [Next]_vars, NEW w \in Workers
    PROVE  /\ pc'[w] # "idle" => \/ pc[w] # "idle" /\ task'[w] = task[w]
                                 \/ \E t \in Owner : StartDelivery(w, t)
           /\ Holds(w)' => \/ Holds(w) /\ task'[w] = task[w] /\ token'[w] = token[w]
                           \/ AcquireFencedLease(w)
<1> DEFINE Goal ==
        /\ pc'[w] # "idle" => \/ pc[w] # "idle" /\ task'[w] = task[w]
                              \/ \E t \in Owner : StartDelivery(w, t)
        /\ Holds(w)' => \/ Holds(w) /\ task'[w] = task[w] /\ token'[w] = token[w]
                        \/ AcquireFencedLease(w)
<1>0. DOMAIN pc = Workers /\ DOMAIN task = Workers /\ DOMAIN token = Workers
    BY DEF TypeInv, TypeOK, WorkerTypeOK
<1>1. CASE UNCHANGED <<pc, task, token>>
    BY <1>1 DEF Holds, Claimed
<1>2. ASSUME NEW v \in Workers, Return(v) \/ (Succeed(v) /\ pc[v] # "idle") PROVE Goal
    BY <1>0, <1>2 DEF Return, Succeed, Forget, Holds, Claimed
<1>3. ASSUME NEW v \in Workers, UNCHANGED <<task, token>>,
             NEW x, pc' = [pc EXCEPT ![v] = x], Holds(v)
      PROVE  Goal
    BY <1>0, <1>3 DEF Holds, Claimed
<1>4. ASSUME NEW v \in Workers, AcquireFencedLease(v) PROVE Goal
    <2>1. CASE v = w
        BY <1>0, <1>4, <2>1 DEF AcquireFencedLease
    <2>2. CASE v # w
        BY <1>0, <1>4, <2>2 DEF AcquireFencedLease, Holds, Claimed
    <2> QED
        BY <2>1, <2>2
<1>5. ASSUME NEW v \in Workers, WorkerStep(v) \/ Crash(v) PROVE Goal
    <2>1. CASE \/ SelectEntry(v) \/ ClaimNarrationEntry(v)
               \/ GenerateClaimedNarration(v) \/ CheckFence(v)
        BY <1>3, <2>1 DEF SelectEntry, ClaimNarrationEntry, GenerateClaimedNarration, CheckFence,
                          Holds, Claimed
    <2>2. CASE \/ LeaseBusy(v) \/ ClaimConflict(v) \/ StaleFence(v) \/ StaleAttempt(v)
               \/ RequeueNarration(v) \/ FallbackOfRemovedBattle(v) \/ Answer(v) \/ Crash(v)
        BY <2>2, <1>2
        DEF LeaseBusy, ClaimConflict, StaleFence, StaleAttempt, RequeueNarration,
            FallbackOfRemovedBattle, Answer, Crash
    <2>3. CASE \/ BattleNotFound(v) \/ SelectNothing(v) \/ RecordRemovedBattleAttempt(v)
               \/ PublishCompletedNarration(v) \/ PublishFailedNarration(v)
        BY <2>3, <1>2
        DEF BattleNotFound, SelectNothing, RecordRemovedBattleAttempt,
            PublishCompletedNarration, PublishFailedNarration
    <2> QED
        BY <1>4, <1>5, <2>1, <2>2, <2>3 DEF WorkerStep
<1>6. ASSUME NEW v \in Workers, NEW t \in Owner, EndDelivery(v, t) PROVE Goal
    BY <1>1, <1>6 DEF EndDelivery, workerVars
<1>7. ASSUME NEW v \in Workers, NEW t \in Owner, StartDelivery(v, t) PROVE Goal
    <2>1. CASE v = w
        BY <1>0, <1>7, <2>1 DEF StartDelivery, Holds, Claimed
    <2>2. CASE v # w
        BY <1>0, <1>7, <2>2 DEF StartDelivery, Holds, Claimed
    <2> QED
        BY <2>1, <2>2
<1>8. CASE \/ EnqueueNarration \/ DeleteBattle \/ LeaseExpires
           \/ \E t \in Task : LoseTask(t)
           \/ \E r \in Receipt : RecoverStaleNarrationOutbox(r)
           \/ \E d \in Dispatchers, r \in Receipt : SelectPendingNarration(d, r)
           \/ \E d \in Dispatchers :
                 SendNarrationTask(d) \/ MarkNarrationDispatched(d) \/ CrashDispatcher(d)
    BY <1>1, <1>8
    DEF EnqueueNarration, DeleteBattle, LeaseExpires, LoseTask, RecoverStaleNarrationOutbox,
        SelectPendingNarration, SendNarrationTask, MarkNarrationDispatched, CrashDispatcher,
        workerVars
<1>9. CASE UNCHANGED vars
    BY <1>1, <1>9 DEF vars, workerVars
<1> QED
    BY <1>5, <1>6, <1>7, <1>8, <1>9 DEF Next, Finished

\* Who writes the lease row.
LEMMA LeaseSteps ==
    ASSUME TypeInv, [Next]_vars
    PROVE  \/ lease' = lease
           \/ DeleteBattle
           \/ LeaseExpires
           \/ \E w \in Workers : \/ AcquireFencedLease(w)
                                 \/ Holds(w) /\ ~Holds(w)' /\ lease' = ReleasedLease(w)
<1>1. ASSUME NEW w \in Workers,
             \/ SelectNothing(w) \/ RequeueNarration(w) \/ PublishCompletedNarration(w)
             \/ PublishFailedNarration(w)
      PROVE  Holds(w) /\ ~Holds(w)' /\ lease' = ReleasedLease(w)
    BY <1>1
    DEF SelectNothing, RequeueNarration, PublishCompletedNarration, PublishFailedNarration,
        Return, Succeed, Holds, Claimed, TypeInv, TypeOK, WorkerTypeOK
<1>2. ASSUME NEW w \in Workers, WorkerStep(w) \/ Crash(w), ~AcquireFencedLease(w),
             ~SelectNothing(w), ~RequeueNarration(w), ~PublishCompletedNarration(w),
             ~PublishFailedNarration(w)
      PROVE  lease' = lease
    BY <1>2
    DEF WorkerStep, LeaseBusy, BattleNotFound, SelectEntry, ClaimNarrationEntry, ClaimConflict,
        GenerateClaimedNarration, CheckFence, StaleFence, RecordRemovedBattleAttempt,
        StaleAttempt, FallbackOfRemovedBattle, Answer, Crash
<1>3. ASSUME NEW w \in Workers, NEW t \in Owner, StartDelivery(w, t) \/ EndDelivery(w, t)
      PROVE  lease' = lease
    BY <1>3 DEF StartDelivery, EndDelivery
<1>4. CASE \/ EnqueueNarration
           \/ \E t \in Task : LoseTask(t)
           \/ \E r \in Receipt : RecoverStaleNarrationOutbox(r)
           \/ \E d \in Dispatchers, r \in Receipt : SelectPendingNarration(d, r)
           \/ \E d \in Dispatchers :
                 SendNarrationTask(d) \/ MarkNarrationDispatched(d) \/ CrashDispatcher(d)
    BY <1>4
    DEF EnqueueNarration, LoseTask, RecoverStaleNarrationOutbox, SelectPendingNarration,
        SendNarrationTask, MarkNarrationDispatched, CrashDispatcher
<1>5. CASE UNCHANGED vars
    BY <1>5 DEF vars
<1> QED
    BY <1>1, <1>2, <1>3, <1>4, <1>5 DEF Next, Finished

LEMMA TasksApartStep ==
    ASSUME TypeInv, TasksApart, [Next]_vars, "redelivery" \notin Faults
    PROVE  TasksApart'
<1>0. DOMAIN pc = Workers /\ DOMAIN task = Workers
    BY DEF TypeInv, TypeOK, WorkerTypeOK
\* The task just delivered is no other worker's.
<1>1. ASSUME NEW v \in Workers, NEW t \in Owner, StartDelivery(v, t), NEW w \in Workers,
             w # v, pc'[w] # "idle"
      PROVE  task'[w] # task'[v]
    <2>1. pc[w] # "idle" /\ task'[w] = task[w] /\ task'[v] = t
        BY <1>0, <1>1 DEF StartDelivery
    <2> QED
        BY <1>1, <2>1 DEF StartDelivery, Delivered
<1> SUFFICES ASSUME NEW v \in Workers, NEW w \in Workers, v # w,
                    pc'[v] # "idle", pc'[w] # "idle"
             PROVE  task'[v] # task'[w]
    BY DEF TasksApart
<1>2. CASE \E t \in Owner : StartDelivery(v, t) \/ StartDelivery(w, t)
    BY <1>1, <1>2
<1>3. CASE ~\E t \in Owner : StartDelivery(v, t) \/ StartDelivery(w, t)
    <2>1. /\ pc[v] # "idle" /\ task'[v] = task[v]
          /\ pc[w] # "idle" /\ task'[w] = task[w]
        BY <1>3, HoldKept
    <2> QED
        BY <2>1 DEF TasksApart
<1> QED
    BY <1>2, <1>3

\* A worker gets the lease only when nobody else holds it.
LEMMA NoOtherHolder ==
    ASSUME TypeInv, TasksApart, HolderHasLease, NEW v \in Workers, AcquireFencedLease(v),
           NEW w \in Workers, Holds(w)'
    PROVE  w = v
<1> SUFFICES ASSUME w # v PROVE FALSE
    OBVIOUS
<1>1. Holds(w) /\ pc[w] # "idle" /\ pc[v] # "idle" /\ exists /\ LeaseFree(v)
    BY DEF AcquireFencedLease, Holds, Claimed, TypeInv, TypeOK, WorkerTypeOK
<1>2. OwnsLease(w) /\ lease.live /\ task[w] # task[v]
    BY <1>1 DEF HolderHasLease, TasksApart
<1> QED
    BY <1>1, <1>2 DEF LeaseFree, OwnsLease

LEMMA HolderStep ==
    ASSUME TypeInv, TasksApart, OneHolder, HolderHasLease, [Next]_vars,
           "overrun" \notin Faults
    PROVE  OneHolder' /\ HolderHasLease'
<1>1. OneHolder'
    <2> SUFFICES ASSUME NEW v \in Workers, NEW w \in Workers, Holds(v)', Holds(w)'
                 PROVE  v = w
        BY DEF OneHolder
    <2>1. CASE AcquireFencedLease(v) \/ AcquireFencedLease(w)
        BY <2>1, NoOtherHolder
    <2>2. CASE ~AcquireFencedLease(v) /\ ~AcquireFencedLease(w)
        BY <2>2, HoldKept DEF OneHolder
    <2> QED
        BY <2>1, <2>2
<1>2. HolderHasLease'
    <2> SUFFICES ASSUME exists', NEW w \in Workers, Holds(w)'
                 PROVE  OwnsLease(w)' /\ lease'.live
        BY DEF HolderHasLease
    <2>0. exists
        BY StaysRemoved
    <2>1. CASE AcquireFencedLease(w)
        BY <2>1, NarrationAssumption
        DEF AcquireFencedLease, OwnsLease, TypeInv, TypeOK, WorkerTypeOK, LeaseRow
    <2>2. CASE ~AcquireFencedLease(w)
        <3>1. Holds(w) /\ task'[w] = task[w] /\ token'[w] = token[w]
            BY <2>2, HoldKept
        <3>2. OwnsLease(w) /\ lease.live
            BY <2>0, <3>1 DEF HolderHasLease
        <3>3. CASE lease' = lease
            BY <3>1, <3>2, <3>3 DEF OwnsLease
        <3>4. CASE LeaseExpires
            BY <3>1, <3>2, <3>4 DEF LeaseExpires, Holds, Claimed
        <3>5. CASE DeleteBattle
            BY <3>5 DEF DeleteBattle
        <3>6. ASSUME NEW v \in Workers, AcquireFencedLease(v) PROVE FALSE
            BY <2>2, <3>6, NoOtherHolder
        <3>7. ASSUME NEW v \in Workers, Holds(v), ~Holds(v)' PROVE FALSE
            BY <3>1, <3>7 DEF OneHolder
        <3> QED
            BY <3>3, <3>4, <3>5, <3>6, <3>7, LeaseSteps
    <2> QED
        BY <2>1, <2>2
<1> QED
    BY <1>1, <1>2

LEMMA ActiveStep ==
    ASSUME ResultInv, OneHolder, OneHolder', HolderIsActive, [Next]_vars
    PROVE  HolderIsActive'
<1> SUFFICES ASSUME exists', NEW w \in Workers, Claimed(w)' PROVE StillClaimed(w)'
    BY DEF HolderIsActive
<1> USE DEF ResultInv, OrderInv
<1>0. exists /\ active \in [Receipt -> 0..MaxClaims]
    BY StaysRemoved DEF TypeInv, TypeOK, EntryTypeOK
<1>1. CASE ClaimNarrationEntry(w)
    <2>1. PICK r \in Receipt : r = target[w]
        BY <1>1, ClaimEffect
    <2>2. /\ active' = [active EXCEPT ![r] = attempts[r] + 1]
          /\ attempt' = [attempt EXCEPT ![w] = attempts[r] + 1]
          /\ target' = target /\ DOMAIN attempt = Workers
        BY <1>1, <2>1, ClaimEffect DEF TypeInv, TypeOK, WorkerTypeOK
    <2> QED
        BY <1>0, <2>1, <2>2 DEF StillClaimed
<1>2. CASE ~ClaimNarrationEntry(w)
    <2>1. Claimed(w) /\ target'[w] = target[w] /\ attempt'[w] = attempt[w]
        BY <1>2, ClaimKept
    <2>2. StillClaimed(w)
        BY <1>0, <2>1 DEF HolderIsActive
    <2>3. CASE active' = active
        BY <2>1, <2>2, <2>3 DEF StillClaimed
    <2>4. ASSUME NEW v \in Workers, ClaimNarrationEntry(v) PROVE FALSE
        <3>1. Holds(v)
            BY <2>4 DEF ClaimNarrationEntry, Holds
        <3> QED
            BY <1>2, <2>1, <2>4, <3>1 DEF OneHolder, Holds
    <2>5. ASSUME NEW v \in Workers, Ends(v) PROVE FALSE
        <3>1. Claimed(v) /\ ~Claimed(v)'
            BY <2>5, EndsClaim
        <3> QED
            BY <2>1, <3>1 DEF OneHolder, Holds
    <2> QED
        BY <2>3, <2>4, <2>5, RowSteps DEF Rows, EnqueueNarration, DeleteBattle
<1> QED
    BY <1>1, <1>2

LEMMA SerialStep ==
    ASSUME ResultInv, SerialInv, [Next]_vars,
           "redelivery" \notin Faults, "overrun" \notin Faults
    PROVE  SerialInv'
<1>1. TasksApart' /\ OneHolder' /\ HolderHasLease'
    BY TasksApartStep, HolderStep DEF SerialInv, ResultInv, OrderInv
<1>2. HolderIsActive'
    BY <1>1, ActiveStep DEF SerialInv
<1> QED
    BY <1>1, <1>2 DEF SerialInv

LEMMA SerialInit == Init => SerialInv
BY DEF Init, SerialInv, TasksApart, OneHolder, HolderHasLease, HolderIsActive, Holds, Claimed

LEMMA SerialHolds ==
    ASSUME "redelivery" \notin Faults, "overrun" \notin Faults
    PROVE  Spec => []SerialInv
<1>1. ResultInv /\ SerialInv /\ [Next]_vars => SerialInv'
    BY SerialStep
<1> QED
    BY <1>1, SerialInit, ResultHolds, PTL DEF Spec

\* When Cloud Tasks does not deliver a task twice at a time and no worker outlives its
\* lease, at most one worker is between a claim and its last transaction, whatever is
\* lost, crashes, is deleted or is started by hand (narration-worker.ts:293-321).
THEOREM OneNarratorAtATime ==
    ASSUME "redelivery" \notin Faults, "overrun" \notin Faults
    PROVE  Spec => []OneNarrator
<1>1. SerialInv => OneNarrator
    BY DEF SerialInv, OneHolder, Holds, Claimed, OneNarrator
<1> QED
    BY <1>1, SerialHolds, PTL

\* OneTerminalEvent and PresentationMatchesResult, of one receipt.
OneEvent(r) ==
    /\ completedEvents[r] = (IF status[r] = "completed" THEN 1 ELSE 0)
    /\ failedEvents[r] = (IF status[r] = "failed" THEN 1 ELSE 0)

PresentedText(r) ==
    CASE status[r] = "completed" -> "narrative"
      [] status[r] = "failed" /\ Reserved -> "fallback"
      [] OTHER -> "none"

LEMMA EventStep ==
    ASSUME ResultInv, SerialInv, OneTerminalEvent, PresentationMatchesResult, [Next]_vars
    PROVE  OneTerminalEvent' /\ PresentationMatchesResult'
<1> DEFINE Good(r) == (exists => OneEvent(r)) /\ presentation[r] = PresentedText(r)
           Kept2(r) == /\ completedEvents'[r] = completedEvents[r]
                       /\ failedEvents'[r] = failedEvents[r]
                       /\ presentation'[r] = presentation[r]
<1> USE DEF ResultInv, OrderInv
<1> SUFFICES ASSUME NEW e \in Receipt PROVE Good(e)'
    BY DEF OneTerminalEvent, PresentationMatchesResult, OneEvent, PresentedText
<1>0. Good(e)
    BY DEF OneTerminalEvent, PresentationMatchesResult, OneEvent, PresentedText
<1>t. /\ status \in [Receipt -> {"absent"} \cup Open \cup Terminal]
      /\ completedEvents \in [Receipt -> Nat] /\ failedEvents \in [Receipt -> Nat]
      /\ presentation \in [Receipt -> {"none", "narrative", "fallback"}]
    BY DEF TypeInv, TypeOK, EntryTypeOK, EventTypeOK
\* A step that ends no entry ...
<1>1. ASSUME Kept2(e), exists' => exists,
             \/ status'[e] = status[e]
             \/ status'[e] \notin Terminal /\ status[e] \notin Terminal
      PROVE  Good(e)'
    BY <1>0, <1>1 DEF OneEvent, PresentedText, Terminal
<1>2. CASE UNCHANGED Rows
    BY <1>1, <1>2 DEF Rows
<1>3. CASE EnqueueNarration
    <2>1. /\ UNCHANGED <<exists, completedEvents, failedEvents, presentation>>
          /\ status' = [status EXCEPT ![committed + 1] = "queued"]
        BY <1>3 DEF EnqueueNarration, eventVars
    <2>2. e = committed + 1 => status[e] = "absent" /\ status'[e] = "queued"
        BY <1>t, <2>1 DEF TypeInv, NotYetAbsent, TypeOK, EntryTypeOK
    <2>3. e # committed + 1 => status'[e] = status[e]
        BY <1>t, <2>1
    <2> QED
        BY <1>1, <2>1, <2>2, <2>3 DEF Terminal
<1>4. CASE DeleteBattle
    <2>1. ~exists' /\ status'[e] = "absent" /\ presentation'[e] = "none"
        BY <1>4 DEF DeleteBattle
    <2> QED
        BY <2>1 DEF PresentedText
<1>5. ASSUME NEW w \in Workers, ClaimNarrationEntry(w) PROVE Good(e)'
    <2>1. PICK r \in Receipt :
             /\ status[r] \in Open
             /\ status' = [status EXCEPT ![r] = "generating"]
             /\ UNCHANGED <<exists, completedEvents, failedEvents, presentation>>
        BY <1>5, ClaimEffect
    <2>2. IF e = r THEN status'[e] \notin Terminal /\ status[e] \notin Terminal
                   ELSE status'[e] = status[e]
        BY <1>t, <2>1 DEF Open, Terminal
    <2> QED
        BY <1>1, <2>1, <2>2
<1>6. ASSUME NEW w \in Workers, Ends(w), ~exists PROVE Good(e)'
    <2>1. UNCHANGED <<exists, status, presentation>>
        BY <1>6, EndRemoved
    <2> QED
        BY <1>0, <1>6, <2>1 DEF PresentedText
<1>7. ASSUME NEW w \in Workers, Ends(w), exists PROVE Good(e)'
    <2>1. PICK r \in Receipt : r = target[w]
        BY <1>7, EndEffect
    <2>2. PICK k \in 1..MaxClaims : k = attempt[w]
        BY <1>7, EndEffect
    <2>3. Claimed(w) /\ exists' = exists /\ (active[r] = k => status[r] = "generating")
        BY <1>7, <2>1, <2>2, EndEffect
    <2>4. active[r] = k
        BY <1>7, <2>1, <2>2, <2>3 DEF SerialInv, HolderIsActive, StillClaimed
    <2>5. status[r] = "generating"
        BY <2>3, <2>4
    <2>6. ASSUME status' = [status EXCEPT ![r] = "completed"],
                 completedEvents' = [completedEvents EXCEPT ![r] = completedEvents[r] + 1],
                 failedEvents' = failedEvents,
                 presentation' = [presentation EXCEPT ![r] = "narrative"]
          PROVE  Good(e)'
        <3>1. CASE e = r
            BY <1>0, <1>7, <1>t, <2>5, <2>6, <3>1 DEF OneEvent, PresentedText
        <3>2. CASE e # r
            BY <1>1, <1>t, <2>3, <2>6, <3>2
        <3> QED
            BY <3>1, <3>2
    <2>7. ASSUME status' = [status EXCEPT ![r] = "queued"],
                 UNCHANGED <<completedEvents, failedEvents, presentation>>
          PROVE  Good(e)'
        <3>1. IF e = r THEN status'[e] \notin Terminal /\ status[e] \notin Terminal
                       ELSE status'[e] = status[e]
            BY <1>t, <2>5, <2>7 DEF Terminal
        <3> QED
            BY <1>1, <2>3, <2>7, <3>1
    <2>8. ASSUME status' = [status EXCEPT ![r] = "failed"],
                 completedEvents' = completedEvents,
                 failedEvents' = [failedEvents EXCEPT ![r] = failedEvents[r] + 1],
                 presentation' = FailedPresentation(r)
          PROVE  Good(e)'
        <3>1. CASE e = r
            BY <1>0, <1>7, <1>t, <2>5, <2>8, <3>1, NarrationAssumption
            DEF OneEvent, PresentedText, FailedPresentation
        <3>2. CASE e # r
            <4>1. Kept2(e) /\ status'[e] = status[e]
                BY <1>t, <2>8, <3>2 DEF FailedPresentation
            <4> QED
                BY <1>1, <2>3, <4>1
        <3> QED
            BY <3>1, <3>2
    <2> QED
        BY <1>7, <2>1, <2>2, <2>4, <2>6, <2>7, <2>8, EndEffect
<1> QED
    BY <1>2, <1>3, <1>4, <1>5, <1>6, <1>7, RowSteps

LEMMA EventsHold ==
    ASSUME "redelivery" \notin Faults, "overrun" \notin Faults
    PROVE  Spec => [](OneTerminalEvent /\ PresentationMatchesResult)
<1>1. Init => OneTerminalEvent /\ PresentationMatchesResult
    BY DEF Init, OneTerminalEvent, PresentationMatchesResult
<1>2. /\ ResultInv /\ SerialInv /\ OneTerminalEvent /\ PresentationMatchesResult
      /\ [Next]_vars
      => (OneTerminalEvent /\ PresentationMatchesResult)'
    BY EventStep
<1> QED
    BY <1>1, <1>2, ResultHolds, SerialHolds, PTL DEF Spec

\* ... each receipt gets one public terminal event, of the kind of its status, although
\* a failed attempt publishes its event without looking at the row count of its UPDATE
\* (narration-worker.ts:805-849).
THEOREM OneTerminalEventEach ==
    ASSUME "redelivery" \notin Faults, "overrun" \notin Faults
    PROVE  Spec => []OneTerminalEvent
BY EventsHold, PTL

\* ... and the battle presents the narrative of a completed entry and, on a reserved-turn
\* battle, the fallback of a failed one (publishNarrationPresentation).
THEOREM PresentsTheResult ==
    ASSUME "redelivery" \notin Faults, "overrun" \notin Faults
    PROVE  Spec => []PresentationMatchesResult
BY EventsHold, PTL
=============================================================================
