--------------------------- MODULE NarrationProofs ---------------------------
(* Theorems about Narration for every number of receipts, workers and         *)
(* dispatchers, every set of faults and every bound.                          *)
EXTENDS NarrationRefinement, TLAPS

USE DEF Receipt, Open, Terminal

-----------------------------------------------------------------------------
(* Type correctness.                                                         *)

\* A worker past its SELECT has selected a committed receipt, and past its claim
\* started an attempt.
TargetOK ==
    \A w \in Workers :
        /\ pc[w] \in {"selected", "generating", "generated", "fenced"} =>
              target[w] \in 1..committed
        /\ pc[w] \in {"generating", "generated", "fenced"} =>
              attempt[w] \in 1..MaxClaims

\* Receipts not committed yet have no entry.
NotYetAbsent == \A r \in Receipt : r > committed => status[r] = "absent"

TypeInv == TypeOK /\ TargetOK /\ NotYetAbsent

LEMMA TypeInit == Init => TypeInv
BY NarrationAssumption
DEF Init, TypeInv, TypeOK, EntryTypeOK, EventTypeOK, QueueTypeOK, WorkerTypeOK, TargetOK,
    NotYetAbsent, AttemptRows, NoLease, LeaseRow, Owner, Manual

\* What the named updates of the SQL statements yield is well typed.
LEMMA OutboxType ==
    ASSUME TypeOK, NEW t \in Owner
    PROVE  /\ InspectedOutbox(t) \in [Receipt -> {"absent", "pending", "dispatched", "completed"}]
           /\ CompletedOutbox(t) \in [Receipt -> {"absent", "pending", "dispatched", "completed"}]
BY DEF TypeOK, QueueTypeOK, InspectedOutbox, CompletedOutbox

LEMMA LeaseType ==
    ASSUME TypeOK, NEW w \in Workers
    PROVE  NoLease \in LeaseRow /\ ReleasedLease(w) \in LeaseRow
BY NarrationAssumption DEF TypeOK, ReleasedLease, NoLease, LeaseRow, Owner

LEMMA NoLeaseType == NoLease \in LeaseRow
BY NarrationAssumption DEF NoLease, LeaseRow, Owner

\* What a worker between its claim and its last transaction has in its locals.
LEMMA ClaimType ==
    ASSUME TypeInv, NEW w \in Workers, pc[w] \in {"generating", "generated", "fenced"}
    PROVE  target[w] \in Receipt /\ target[w] \in 1..committed /\ attempt[w] \in 1..MaxClaims
BY NarrationAssumption DEF TypeInv, TypeOK, EntryTypeOK, TargetOK

LEMMA AttemptRowsType ==
    ASSUME EntryTypeOK, NEW r \in Receipt, NEW k \in 1..MaxClaims,
           NEW x \in {"generating", "completed", "failed", "abandoned"}
    PROVE  [attemptStatus EXCEPT ![r][k] = x] \in AttemptRows
BY DEF EntryTypeOK, AttemptRows

\* The columns of an entry's row, updated.
LEMMA EntryRowType ==
    ASSUME EntryTypeOK, NEW r \in Receipt, NEW x \in Open \cup Terminal
    PROVE  /\ [status EXCEPT ![r] = x] \in [Receipt -> {"absent"} \cup Open \cup Terminal]
           /\ [active EXCEPT ![r] = 0] \in [Receipt -> 0..MaxClaims]
           /\ [presentation EXCEPT ![r] = "narrative"] \in [Receipt -> {"none", "narrative", "fallback"}]
           /\ FailedPresentation(r) \in [Receipt -> {"none", "narrative", "fallback"}]
<1>1. 0 \in 0..MaxClaims
    BY NarrationAssumption
<1> QED
    BY <1>1 DEF EntryTypeOK, FailedPresentation

\* An update of the row of a committed receipt leaves the other receipts' rows alone.
LEMMA NotYetAbsentStep ==
    ASSUME EntryTypeOK, NotYetAbsent, NEW r \in 1..committed, NEW x, committed' = committed,
           status' = [status EXCEPT ![r] = x] \/ status' = status
    PROVE  NotYetAbsent'
<1> SUFFICES ASSUME NEW e \in Receipt, e > committed PROVE status'[e] = status[e]
    BY DEF NotYetAbsent
<1>1. e # r
    BY NarrationAssumption DEF EntryTypeOK
<1> QED
    BY <1>1 DEF EntryTypeOK

\* A public event is counted.
LEMMA EventCountType ==
    ASSUME TypeOK, NEW r \in Receipt,
           \/ completedEvents' = [completedEvents EXCEPT ![r] = @ + 1] /\ failedEvents' = failedEvents
           \/ failedEvents' = [failedEvents EXCEPT ![r] = @ + 1] /\ completedEvents' = completedEvents
    PROVE  EventTypeOK'
<1>1. /\ completedEvents \in [Receipt -> Nat] /\ completedEvents[r] + 1 \in Nat
      /\ failedEvents \in [Receipt -> Nat] /\ failedEvents[r] + 1 \in Nat
    BY DEF TypeOK, EventTypeOK
<1> HIDE DEF Receipt
<1> QED
    BY <1>1 DEF EventTypeOK

\* An invocation that ends leaves well-typed locals.
LEMMA ReturnType ==
    ASSUME TypeInv, NEW w \in Workers, Return(w), committed' = committed
    PROVE  WorkerTypeOK' /\ TargetOK'
BY NarrationAssumption DEF Return, Forget, TypeInv, TypeOK, WorkerTypeOK, TargetOK, Owner

LEMMA SucceedType ==
    ASSUME TypeInv, NEW w \in Workers, Succeed(w), committed' = committed
    PROVE  WorkerTypeOK' /\ TargetOK'
BY NarrationAssumption DEF Succeed, Forget, TypeInv, TypeOK, WorkerTypeOK, TargetOK

\* A group of variables that does not change stays well typed.
LEMMA Kept ==
    /\ EntryTypeOK /\ UNCHANGED entryVars => EntryTypeOK'
    /\ EventTypeOK /\ UNCHANGED eventVars => EventTypeOK'
    /\ QueueTypeOK /\ UNCHANGED queueVars => QueueTypeOK'
    /\ WorkerTypeOK /\ UNCHANGED workerVars => WorkerTypeOK'
    /\ TargetOK /\ UNCHANGED <<committed, workerVars>> => TargetOK'
    /\ NotYetAbsent /\ UNCHANGED <<committed, status>> => NotYetAbsent'
BY DEF EntryTypeOK, EventTypeOK, QueueTypeOK, WorkerTypeOK, TargetOK, NotYetAbsent,
       entryVars, eventVars, queueVars, workerVars

LEMMA TypeStep == TypeInv /\ [Next]_vars => TypeInv'
<1> SUFFICES ASSUME TypeInv, [Next]_vars PROVE TypeInv'
    OBVIOUS
<1> USE NarrationAssumption DEF TypeInv
<1>1. CASE EnqueueNarration
    <2>1. EntryTypeOK'
        BY <1>1 DEF EnqueueNarration, TypeOK, EntryTypeOK, WorkerTypeOK, TargetOK
    <2>2. QueueTypeOK'
        BY <1>1 DEF EnqueueNarration, TypeOK, QueueTypeOK, EntryTypeOK
    <2>3. TargetOK'
        BY <1>1 DEF EnqueueNarration, TypeOK, EntryTypeOK, TargetOK, workerVars
    <2>4. NotYetAbsent'
        BY <1>1 DEF EnqueueNarration, TypeOK, EntryTypeOK, NotYetAbsent, TargetOK
    <2>5. exists' \in BOOLEAN /\ lease' \in LeaseRow /\ faults' \in 0..MaxFaults
        BY <1>1 DEF EnqueueNarration, TypeOK
    <2> QED
        BY <1>1, <2>1, <2>2, <2>3, <2>4, <2>5, Kept DEF EnqueueNarration, TypeOK, entryVars, eventVars, queueVars, workerVars
<1>2. ASSUME NEW d \in Dispatchers, NEW r \in Receipt, SelectPendingNarration(d, r) PROVE TypeInv'
    <2>1. QueueTypeOK'
        BY <1>2 DEF SelectPendingNarration, Owner, TypeOK, QueueTypeOK, EntryTypeOK, Task
    <2>2. exists' \in BOOLEAN /\ lease' \in LeaseRow /\ faults' \in 0..MaxFaults
        BY <1>2 DEF SelectPendingNarration, TypeOK
    <2> QED
        BY <1>2, <2>1, <2>2, Kept DEF SelectPendingNarration, TypeOK, entryVars, eventVars, queueVars, workerVars
<1>3. ASSUME NEW d \in Dispatchers, SendNarrationTask(d) PROVE TypeInv'
    <2>1. QueueTypeOK'
        BY <1>3 DEF SendNarrationTask, TypeOK, QueueTypeOK, Owner, Task
    <2>2. exists' \in BOOLEAN /\ lease' \in LeaseRow /\ faults' \in 0..MaxFaults
        BY <1>3 DEF SendNarrationTask, TypeOK
    <2> QED
        BY <1>3, <2>1, <2>2, Kept DEF SendNarrationTask, TypeOK, entryVars, eventVars, queueVars, workerVars
<1>4. ASSUME NEW d \in Dispatchers, MarkNarrationDispatched(d) PROVE TypeInv'
    <2>1. QueueTypeOK'
        BY <1>4 DEF MarkNarrationDispatched, TypeOK, QueueTypeOK, Owner, Task
    <2>2. exists' \in BOOLEAN /\ lease' \in LeaseRow /\ faults' \in 0..MaxFaults
        BY <1>4 DEF MarkNarrationDispatched, TypeOK
    <2> QED
        BY <1>4, <2>1, <2>2, Kept DEF MarkNarrationDispatched, TypeOK, entryVars, eventVars, queueVars, workerVars
<1>5. ASSUME NEW d \in Dispatchers, CrashDispatcher(d) PROVE TypeInv'
    <2>1. QueueTypeOK'
        BY <1>5 DEF CrashDispatcher, TypeOK, QueueTypeOK, Owner, Task
    <2>2. exists' \in BOOLEAN /\ lease' \in LeaseRow /\ faults' \in 0..MaxFaults
        BY <1>5 DEF CrashDispatcher, TypeOK
    <2> QED
        BY <1>5, <2>1, <2>2, Kept DEF CrashDispatcher, TypeOK, entryVars, eventVars, queueVars, workerVars
<1>6. ASSUME NEW r \in Receipt, RecoverStaleNarrationOutbox(r) PROVE TypeInv'
    <2>1. QueueTypeOK'
        <3>1. generation[r] + 1 \in 0..MaxGeneration
            BY <1>6 DEF RecoverStaleNarrationOutbox, TypeOK, QueueTypeOK
        <3>2. /\ outbox' = [outbox EXCEPT ![r] = "pending"]
              /\ generation' = [generation EXCEPT ![r] = generation[r] + 1]
              /\ UNCHANGED <<tasks, names, sending, sent>>
            BY <1>6 DEF RecoverStaleNarrationOutbox
        <3> QED
            BY <3>1, <3>2 DEF TypeOK, QueueTypeOK
    <2>2. exists' \in BOOLEAN /\ lease' \in LeaseRow /\ faults' \in 0..MaxFaults
        BY <1>6 DEF RecoverStaleNarrationOutbox, TypeOK
    <2> QED
        BY <1>6, <2>1, <2>2, Kept DEF RecoverStaleNarrationOutbox, TypeOK, entryVars, eventVars, queueVars, workerVars
<1>7. ASSUME NEW w \in Workers, NEW t \in Owner, StartDelivery(w, t) PROVE TypeInv'
    <2>1. WorkerTypeOK'
        BY <1>7 DEF StartDelivery, TypeOK, EntryTypeOK, WorkerTypeOK, TargetOK, entryVars
    <2>2. TargetOK'
        BY <1>7 DEF StartDelivery, TypeOK, EntryTypeOK, WorkerTypeOK, TargetOK, entryVars
    <2>3. exists' \in BOOLEAN /\ lease' \in LeaseRow /\ faults' \in 0..MaxFaults
        BY <1>7 DEF StartDelivery, TypeOK
    <2> QED
        BY <1>7, <2>1, <2>2, <2>3, Kept DEF StartDelivery, TypeOK, entryVars, eventVars, queueVars, workerVars
<1>8. ASSUME NEW w \in Workers, NEW t \in Owner, EndDelivery(w, t) PROVE TypeInv'
    <2>1. QueueTypeOK'
        BY <1>8, OutboxType DEF EndDelivery, TypeOK, QueueTypeOK
    <2>2. exists' \in BOOLEAN /\ lease' \in LeaseRow /\ faults' \in 0..MaxFaults
        BY <1>8 DEF EndDelivery, TypeOK
    <2> QED
        BY <1>8, <2>1, <2>2, Kept DEF EndDelivery, TypeOK, entryVars, eventVars, queueVars, workerVars
<1>9. ASSUME NEW w \in Workers, AcquireFencedLease(w) PROVE TypeInv'
    <2>0. lease.token + 1 \in 0..MaxToken
        BY <1>9 DEF AcquireFencedLease, TypeOK, LeaseRow
    <2>1. WorkerTypeOK'
        BY <1>9, <2>0 DEF AcquireFencedLease, TypeOK, WorkerTypeOK
    <2>2. TargetOK'
        BY <1>9 DEF AcquireFencedLease, LeaseFree, TypeOK, EntryTypeOK, WorkerTypeOK, TargetOK, entryVars
    <2>3. exists' \in BOOLEAN /\ lease' \in LeaseRow /\ faults' \in 0..MaxFaults
        BY <1>9 DEF AcquireFencedLease, LeaseFree, TypeOK, WorkerTypeOK, LeaseRow
    <2> QED
        BY <1>9, <2>1, <2>2, <2>3, Kept DEF AcquireFencedLease, LeaseFree, TypeOK, entryVars, eventVars, queueVars, workerVars
<1>10. ASSUME NEW w \in Workers, LeaseBusy(w) PROVE TypeInv'
    <2>1. WorkerTypeOK' /\ TargetOK'
        BY <1>10, ReturnType DEF LeaseBusy, entryVars
    <2>2. exists' \in BOOLEAN /\ lease' \in LeaseRow /\ faults' \in 0..MaxFaults
        BY <1>10 DEF LeaseBusy, TypeOK
    <2> QED
        BY <1>10, <2>1, <2>2, Kept DEF LeaseBusy, TypeOK, entryVars, eventVars, queueVars, workerVars
<1>11. ASSUME NEW w \in Workers, BattleNotFound(w) PROVE TypeInv'
    <2>1. WorkerTypeOK' /\ TargetOK'
        BY <1>11, SucceedType DEF BattleNotFound, entryVars
    <2>2. exists' \in BOOLEAN /\ lease' \in LeaseRow /\ faults' \in 0..MaxFaults
        BY <1>11 DEF BattleNotFound, TypeOK
    <2> QED
        BY <1>11, <2>1, <2>2, Kept DEF BattleNotFound, TypeOK, entryVars, eventVars, queueVars, workerVars
<1>12. ASSUME NEW w \in Workers, SelectEntry(w) PROVE TypeInv'
    <2>1. WorkerTypeOK'
        <3>1. PICK r \in Claimable(task[w]) :
                 /\ target' = [target EXCEPT ![w] = r]
                 /\ prior' = [prior EXCEPT ![w] = attempts[r]]
            BY <1>12 DEF SelectEntry
        <3>2. r \in 0..N /\ attempts[r] \in 0..MaxClaims
            BY <3>1 DEF Claimable, TypeOK, EntryTypeOK
        <3> QED
            BY <1>12, <3>1, <3>2 DEF SelectEntry, TypeOK, WorkerTypeOK
    <2>2. TargetOK'
        <3>1. PICK r \in Claimable(task[w]) : target' = [target EXCEPT ![w] = r]
            BY <1>12 DEF SelectEntry
        <3>2. r \in 1..committed
            <4>1. r \in Receipt /\ status[r] \in Open
                BY <3>1 DEF Claimable
            <4> QED
                BY <4>1 DEF TypeOK, EntryTypeOK, NotYetAbsent
        <3> QED
            BY <1>12, <3>1, <3>2 DEF SelectEntry, TypeOK, WorkerTypeOK, TargetOK, entryVars
    <2>3. exists' \in BOOLEAN /\ lease' \in LeaseRow /\ faults' \in 0..MaxFaults
        BY <1>12 DEF SelectEntry, TypeOK
    <2> QED
        BY <1>12, <2>1, <2>2, <2>3, Kept DEF SelectEntry, TypeOK, entryVars, eventVars, queueVars, workerVars
<1>13. ASSUME NEW w \in Workers, SelectNothing(w) PROVE TypeInv'
    <2>1. QueueTypeOK'
        BY <1>13, OutboxType DEF SelectNothing, TypeOK, QueueTypeOK, WorkerTypeOK
    <2>2. WorkerTypeOK' /\ TargetOK'
        BY <1>13, SucceedType DEF SelectNothing, entryVars
    <2>3. exists' \in BOOLEAN /\ lease' \in LeaseRow /\ faults' \in 0..MaxFaults
        BY <1>13, LeaseType DEF SelectNothing, TypeOK
    <2> QED
        BY <1>13, <2>1, <2>2, <2>3, Kept DEF SelectNothing, TypeOK, entryVars, eventVars, queueVars, workerVars
<1>14. ASSUME NEW w \in Workers, ClaimNarrationEntry(w) PROVE TypeInv'
    <2>0. target[w] \in Receipt /\ target[w] \in 1..committed /\ attempts[target[w]] + 1 \in 1..MaxClaims
        BY <1>14 DEF ClaimNarrationEntry, TypeOK, EntryTypeOK, TargetOK
    <2>a. attemptStatus' \in AttemptRows
        BY <1>14, <2>0, AttemptRowsType DEF ClaimNarrationEntry, TypeOK
    <2>1. EntryTypeOK'
        <3>1. /\ status' = [status EXCEPT ![target[w]] = "generating"]
              /\ attempts' = [attempts EXCEPT ![target[w]] = attempts[target[w]] + 1]
              /\ active' = [active EXCEPT ![target[w]] = attempts[target[w]] + 1]
              /\ UNCHANGED <<committed, presentation>>
            BY <1>14 DEF ClaimNarrationEntry
        <3>2. attempts[target[w]] + 1 \in 0..MaxClaims
            BY <2>0
        <3> QED
            BY <2>a, <2>0, <3>1, <3>2, EntryRowType DEF TypeOK, EntryTypeOK
    <2>2. WorkerTypeOK'
        BY <1>14, <2>0 DEF ClaimNarrationEntry, TypeOK, WorkerTypeOK
    <2>3. TargetOK'
        BY <1>14, <2>0 DEF ClaimNarrationEntry, TypeOK, WorkerTypeOK, TargetOK
    <2>4. NotYetAbsent'
        BY <1>14, <2>0, NotYetAbsentStep DEF ClaimNarrationEntry, TypeOK
    <2> QED
        BY <1>14, <2>1, <2>2, <2>3, <2>4, Kept
        DEF ClaimNarrationEntry, TypeOK, eventVars, queueVars
<1>15. ASSUME NEW w \in Workers, ClaimConflict(w) PROVE TypeInv'
    <2>1. WorkerTypeOK' /\ TargetOK'
        BY <1>15, ReturnType DEF ClaimConflict, entryVars
    <2>2. exists' \in BOOLEAN /\ lease' \in LeaseRow /\ faults' \in 0..MaxFaults
        BY <1>15 DEF ClaimConflict, TypeOK
    <2> QED
        BY <1>15, <2>1, <2>2, Kept DEF ClaimConflict, TypeOK, entryVars, eventVars, queueVars, workerVars
<1>16. ASSUME NEW w \in Workers, GenerateClaimedNarration(w) PROVE TypeInv'
    <2>1. WorkerTypeOK'
        <3>1. PICK o \in {"narrative", "failure", "ceiling"} : outcome' = [outcome EXCEPT ![w] = o]
            BY <1>16 DEF GenerateClaimedNarration
        <3> QED
            BY <1>16, <3>1 DEF GenerateClaimedNarration, TypeOK, WorkerTypeOK
    <2>2. TargetOK'
        BY <1>16 DEF GenerateClaimedNarration, TypeOK, EntryTypeOK, WorkerTypeOK, TargetOK, entryVars
    <2>3. exists' \in BOOLEAN /\ lease' \in LeaseRow /\ faults' \in 0..MaxFaults
        BY <1>16 DEF GenerateClaimedNarration, TypeOK
    <2> QED
        BY <1>16, <2>1, <2>2, <2>3, Kept DEF GenerateClaimedNarration, TypeOK, entryVars, eventVars, queueVars, workerVars
<1>17. ASSUME NEW w \in Workers, CheckFence(w) PROVE TypeInv'
    <2>1. WorkerTypeOK'
        BY <1>17 DEF CheckFence, TypeOK, EntryTypeOK, WorkerTypeOK, TargetOK, entryVars
    <2>2. TargetOK'
        BY <1>17 DEF CheckFence, TypeOK, EntryTypeOK, WorkerTypeOK, TargetOK, entryVars
    <2>3. exists' \in BOOLEAN /\ lease' \in LeaseRow /\ faults' \in 0..MaxFaults
        BY <1>17 DEF CheckFence, TypeOK
    <2> QED
        BY <1>17, <2>1, <2>2, <2>3, Kept DEF CheckFence, TypeOK, entryVars, eventVars, queueVars, workerVars
<1>18. ASSUME NEW w \in Workers, StaleFence(w) PROVE TypeInv'
    <2>1. WorkerTypeOK' /\ TargetOK'
        BY <1>18, ReturnType DEF StaleFence, entryVars
    <2>2. exists' \in BOOLEAN /\ lease' \in LeaseRow /\ faults' \in 0..MaxFaults
        BY <1>18 DEF StaleFence, TypeOK
    <2> QED
        BY <1>18, <2>1, <2>2, Kept DEF StaleFence, TypeOK, entryVars, eventVars, queueVars, workerVars
<1>19. ASSUME NEW w \in Workers, RecordRemovedBattleAttempt(w) PROVE TypeInv'
    <2>a. attemptStatus' \in AttemptRows
        BY <1>19, ClaimType, AttemptRowsType DEF RecordRemovedBattleAttempt, TypeOK
    <2>1. EntryTypeOK'
        BY <1>19, <2>a, ClaimType DEF RecordRemovedBattleAttempt, TypeOK, EntryTypeOK
    <2>2. WorkerTypeOK' /\ TargetOK'
        BY <1>19, SucceedType DEF RecordRemovedBattleAttempt, entryVars
    <2>3. NotYetAbsent'
        BY <1>19, ClaimType DEF RecordRemovedBattleAttempt, TypeOK, EntryTypeOK, NotYetAbsent
    <2>4. exists' \in BOOLEAN /\ lease' \in LeaseRow /\ faults' \in 0..MaxFaults
        BY <1>19 DEF RecordRemovedBattleAttempt, TypeOK
    <2> QED
        BY <1>19, <2>1, <2>2, <2>3, <2>4, Kept DEF RecordRemovedBattleAttempt, TypeOK, entryVars, eventVars, queueVars, workerVars
<1>20. ASSUME NEW w \in Workers, PublishCompletedNarration(w) PROVE TypeInv'
    <2>a. attemptStatus' \in AttemptRows
        BY <1>20, ClaimType, AttemptRowsType DEF PublishCompletedNarration, TypeOK
    <2>1. EntryTypeOK'
        <3>1. target[w] \in Receipt
            BY <1>20, ClaimType DEF PublishCompletedNarration
        <3>2. /\ status' = [status EXCEPT ![target[w]] = "completed"]
              /\ active' = [active EXCEPT ![target[w]] = 0]
              /\ presentation' = [presentation EXCEPT ![target[w]] = "narrative"]
              /\ UNCHANGED <<committed, attempts>>
            BY <1>20 DEF PublishCompletedNarration
        <3> QED
            BY <2>a, <3>1, <3>2, EntryRowType DEF TypeOK, EntryTypeOK
    <2>2. EventTypeOK'
        <3>1. target[w] \in Receipt
            BY <1>20, ClaimType DEF PublishCompletedNarration
        <3>2. /\ completedEvents' = [completedEvents EXCEPT ![target[w]] = @ + 1]
              /\ failedEvents' = failedEvents
            BY <1>20 DEF PublishCompletedNarration
        <3> QED
            BY <3>1, <3>2, EventCountType
    <2>3. QueueTypeOK'
        BY <1>20, OutboxType DEF PublishCompletedNarration, StillClaimed, TypeOK, QueueTypeOK, WorkerTypeOK
    <2>4. WorkerTypeOK' /\ TargetOK'
        BY <1>20, SucceedType DEF PublishCompletedNarration, entryVars
    <2>5. NotYetAbsent'
        <3>1. target[w] \in 1..committed
            BY <1>20, ClaimType DEF PublishCompletedNarration
        <3>2. committed' = committed /\ status' = [status EXCEPT ![target[w]] = "completed"]
            BY <1>20 DEF PublishCompletedNarration
        <3> QED
            BY <3>1, <3>2, NotYetAbsentStep DEF TypeOK
    <2>6. exists' \in BOOLEAN /\ lease' \in LeaseRow /\ faults' \in 0..MaxFaults
        BY <1>20, LeaseType DEF PublishCompletedNarration, TypeOK
    <2> QED
        BY <1>20, <2>1, <2>2, <2>3, <2>4, <2>5, <2>6, Kept DEF PublishCompletedNarration, TypeOK, entryVars, eventVars, queueVars, workerVars
<1>21. ASSUME NEW w \in Workers, StaleAttempt(w) PROVE TypeInv'
    <2>1. WorkerTypeOK' /\ TargetOK'
        BY <1>21, ReturnType DEF StaleAttempt, entryVars
    <2>2. exists' \in BOOLEAN /\ lease' \in LeaseRow /\ faults' \in 0..MaxFaults
        BY <1>21 DEF StaleAttempt, TypeOK
    <2> QED
        BY <1>21, <2>1, <2>2, Kept DEF StaleAttempt, TypeOK, entryVars, eventVars, queueVars, workerVars
<1>22. ASSUME NEW w \in Workers, RequeueNarration(w) PROVE TypeInv'
    <2>0. target[w] \in Receipt /\ target[w] \in 1..committed /\ attempt[w] \in 1..MaxClaims
        BY <1>22, ClaimType DEF RequeueNarration
    <2>a. attemptStatus' \in AttemptRows
        BY <1>22, <2>0, AttemptRowsType DEF RequeueNarration, TypeOK
    <2>1. EntryTypeOK'
        <3>1. CASE StillClaimed(w)
            <4>1. /\ status' = [status EXCEPT ![target[w]] = "queued"]
                  /\ active' = [active EXCEPT ![target[w]] = 0]
                  /\ UNCHANGED <<committed, attempts, presentation>>
                BY <1>22, <3>1 DEF RequeueNarration
            <4> QED
                BY <2>a, <2>0, <4>1, EntryRowType DEF TypeOK, EntryTypeOK
        <3>2. CASE ~StillClaimed(w)
            <4>1. UNCHANGED <<committed, status, active, attempts, presentation>>
                BY <1>22, <3>2 DEF RequeueNarration
            <4> QED
                BY <2>a, <4>1 DEF TypeOK, EntryTypeOK
        <3> QED
            BY <3>1, <3>2
    <2>2. WorkerTypeOK' /\ TargetOK'
        BY <1>22, ReturnType DEF RequeueNarration, entryVars
    <2>3. NotYetAbsent'
        <3>1. CASE StillClaimed(w)
            <4>1. committed' = committed /\ status' = [status EXCEPT ![target[w]] = "queued"]
                BY <1>22, <3>1 DEF RequeueNarration
            <4> QED
                BY <2>0, <4>1, NotYetAbsentStep DEF TypeOK
        <3>2. CASE ~StillClaimed(w)
            BY <1>22, <3>2 DEF RequeueNarration, NotYetAbsent
        <3> QED
            BY <3>1, <3>2
    <2>4. exists' \in BOOLEAN /\ lease' \in LeaseRow /\ faults' \in 0..MaxFaults
        BY <1>22, LeaseType DEF RequeueNarration, TypeOK
    <2> QED
        BY <1>22, <2>1, <2>2, <2>3, <2>4, Kept DEF RequeueNarration, TypeOK, entryVars, eventVars, queueVars, workerVars
<1>23. ASSUME NEW w \in Workers, PublishFailedNarration(w) PROVE TypeInv'
    <2>0. target[w] \in Receipt /\ target[w] \in 1..committed /\ attempt[w] \in 1..MaxClaims
        BY <1>23, ClaimType DEF PublishFailedNarration
    <2>a. attemptStatus' \in AttemptRows
        BY <1>23, <2>0, AttemptRowsType DEF PublishFailedNarration, TypeOK
    <2>1. EntryTypeOK'
        <3>2. CASE StillClaimed(w)
            <4>1. /\ status' = [status EXCEPT ![target[w]] = "failed"]
                  /\ active' = [active EXCEPT ![target[w]] = 0]
                  /\ presentation' = FailedPresentation(target[w])
                  /\ UNCHANGED <<committed, attempts>>
                BY <1>23, <3>2 DEF PublishFailedNarration
            <4> QED
                BY <2>a, <2>0, <4>1, EntryRowType DEF TypeOK, EntryTypeOK
        <3>3. CASE ~StillClaimed(w)
            <4>1. /\ presentation' = FailedPresentation(target[w])
                  /\ UNCHANGED <<committed, status, active, attempts>>
                BY <1>23, <3>3 DEF PublishFailedNarration
            <4> QED
                BY <2>a, <2>0, <4>1, EntryRowType DEF TypeOK, EntryTypeOK
        <3> QED
            BY <3>2, <3>3
    <2>2. EventTypeOK'
        <3>1. /\ failedEvents' = [failedEvents EXCEPT ![target[w]] = @ + 1]
              /\ completedEvents' = completedEvents
            BY <1>23 DEF PublishFailedNarration
        <3> QED
            BY <2>0, <3>1, EventCountType
    <2>3. QueueTypeOK'
        BY <1>23, OutboxType DEF PublishFailedNarration, StillClaimed, FailedPresentation, TypeOK, QueueTypeOK, WorkerTypeOK
    <2>4. WorkerTypeOK' /\ TargetOK'
        BY <1>23, SucceedType DEF PublishFailedNarration, entryVars
    <2>5. NotYetAbsent'
        <3>1. /\ committed' = committed
              /\ status' = status \/ status' = [status EXCEPT ![target[w]] = "failed"]
            BY <1>23 DEF PublishFailedNarration
        <3> QED
            BY <2>0, <3>1, NotYetAbsentStep DEF TypeOK
    <2>6. exists' \in BOOLEAN /\ lease' \in LeaseRow /\ faults' \in 0..MaxFaults
        BY <1>23, LeaseType DEF PublishFailedNarration, TypeOK
    <2> QED
        BY <1>23, <2>1, <2>2, <2>3, <2>4, <2>5, <2>6, Kept DEF PublishFailedNarration, TypeOK, entryVars, eventVars, queueVars, workerVars
<1>24. ASSUME NEW w \in Workers, FallbackOfRemovedBattle(w) PROVE TypeInv'
    <2>1. WorkerTypeOK' /\ TargetOK'
        BY <1>24, ReturnType DEF FallbackOfRemovedBattle, entryVars
    <2>2. exists' \in BOOLEAN /\ lease' \in LeaseRow /\ faults' \in 0..MaxFaults
        BY <1>24 DEF FallbackOfRemovedBattle, TypeOK
    <2> QED
        BY <1>24, <2>1, <2>2, Kept DEF FallbackOfRemovedBattle, TypeOK, entryVars, eventVars, queueVars, workerVars
<1>25. ASSUME NEW w \in Workers, Answer(w) PROVE TypeInv'
    <2>1. QueueTypeOK'
        BY <1>25 DEF Answer, TypeOK, QueueTypeOK, WorkerTypeOK
    <2>2. WorkerTypeOK' /\ TargetOK'
        BY <1>25, ReturnType DEF Answer, entryVars
    <2>3. exists' \in BOOLEAN /\ lease' \in LeaseRow /\ faults' \in 0..MaxFaults
        BY <1>25 DEF Answer, TypeOK
    <2> QED
        BY <1>25, <2>1, <2>2, <2>3, Kept DEF Answer, TypeOK, entryVars, eventVars, queueVars, workerVars
<1>26. ASSUME NEW w \in Workers, Crash(w) PROVE TypeInv'
    <2>1. WorkerTypeOK' /\ TargetOK'
        BY <1>26, ReturnType DEF Crash, entryVars
    <2>2. exists' \in BOOLEAN /\ lease' \in LeaseRow /\ faults' \in 0..MaxFaults
        BY <1>26 DEF Crash, TypeOK
    <2> QED
        BY <1>26, <2>1, <2>2, Kept DEF Crash, TypeOK, entryVars, eventVars, queueVars, workerVars
<1>27. ASSUME NEW t \in Task, LoseTask(t) PROVE TypeInv'
    <2>1. QueueTypeOK'
        BY <1>27 DEF LoseTask, TypeOK, QueueTypeOK
    <2>2. exists' \in BOOLEAN /\ lease' \in LeaseRow /\ faults' \in 0..MaxFaults
        BY <1>27 DEF LoseTask, TypeOK
    <2> QED
        BY <1>27, <2>1, <2>2, Kept DEF LoseTask, TypeOK, entryVars, eventVars, queueVars, workerVars
<1>28. CASE LeaseExpires
    BY <1>28, Kept DEF LeaseExpires, TypeOK, LeaseRow, entryVars, eventVars, queueVars, workerVars
<1>29. CASE DeleteBattle
    <2>1. EntryTypeOK'
        BY <1>29 DEF DeleteBattle, TypeOK, EntryTypeOK, WorkerTypeOK, TargetOK
    <2>2. NotYetAbsent'
        BY <1>29 DEF DeleteBattle, TypeOK, EntryTypeOK, NotYetAbsent, TargetOK
    <2> QED
        BY <1>29, <2>1, <2>2, Kept, NoLeaseType DEF DeleteBattle, TypeOK, entryVars, eventVars, queueVars, workerVars
<1>30. CASE UNCHANGED vars
    BY <1>30, Kept DEF TypeOK, vars, entryVars
<1>31. QED
    BY <1>1, <1>2, <1>3, <1>4, <1>5, <1>6, <1>7, <1>8, <1>9, <1>10, <1>11, <1>12, <1>13, <1>14, <1>15, <1>16, <1>17, <1>18, <1>19, <1>20, <1>21, <1>22, <1>23, <1>24, <1>25, <1>26, <1>27, <1>28, <1>29, <1>30
    DEF Next, WorkerStep, Finished

\* The rows, the queue and the locals of every worker stay in their domains.
THEOREM TypeCorrect == Spec => []TypeOK
<1>1. Spec => []TypeInv
    BY TypeInit, TypeStep, PTL DEF Spec
<1> QED
    BY <1>1, PTL DEF TypeInv
-----------------------------------------------------------------------------
(* Order of publication.                                                     *)

Begun == {"generating", "completed", "failed"}

\* An entry that names an attempt is being generated.
ActiveGenerating == \A r \in Receipt : active[r] # 0 => status[r] = "generating"

\* The entry a worker has selected heads the line (and goes on heading it).
SelectedHeads == \A w \in Workers : pc[w] = "selected" => HeadOfLine(target[w])

OrderInv == TypeInv /\ ActiveGenerating /\ SelectedHeads /\ InOrder

\* A step that leaves statuses and active attempts alone.
LEMMA StatusKept ==
    ASSUME TypeInv, ActiveGenerating, UNCHANGED <<status, active>>
    PROVE  /\ ActiveGenerating'
           /\ \A r \in Receipt :
                 /\ status'[r] \in Open => status[r] \in Open \/ r > committed
                 /\ status'[r] \in Begun =>
                       \/ status[r] \in Begun
                       \/ \E w \in Workers : pc[w] = "selected" /\ target[w] = r
BY DEF ActiveGenerating

\* No step reopens an entry, and an entry is begun by a worker that selected it.
LEMMA StatusStep ==
    ASSUME TypeInv, ActiveGenerating, [Next]_vars
    PROVE  /\ ActiveGenerating'
           /\ \A r \in Receipt :
                 /\ status'[r] \in Open => status[r] \in Open \/ r > committed
                 /\ status'[r] \in Begun =>
                       \/ status[r] \in Begun
                       \/ \E w \in Workers : pc[w] = "selected" /\ target[w] = r
<1> DEFINE Goal ==
        /\ ActiveGenerating'
        /\ \A r \in Receipt :
              /\ status'[r] \in Open => status[r] \in Open \/ r > committed
              /\ status'[r] \in Begun =>
                    \/ status[r] \in Begun
                    \/ \E w \in Workers : pc[w] = "selected" /\ target[w] = r
<1> USE NarrationAssumption DEF TypeInv, TypeOK, EntryTypeOK
<1>1. CASE EnqueueNarration
    BY <1>1 DEF EnqueueNarration, ActiveGenerating, NotYetAbsent, Begun
<1>2. ASSUME NEW w \in Workers, ClaimNarrationEntry(w) PROVE Goal
    <2>1. target[w] \in Receipt /\ status[target[w]] \in Open
        BY <1>2 DEF ClaimNarrationEntry, SelectedStillOpen, TargetOK
    <2>2. /\ status' = [status EXCEPT ![target[w]] = "generating"]
          /\ active' = [active EXCEPT ![target[w]] = attempts[target[w]] + 1]
          /\ pc[w] = "selected"
        BY <1>2 DEF ClaimNarrationEntry
    <2> QED
        BY <2>1, <2>2 DEF ActiveGenerating, Begun
<1>3. ASSUME NEW w \in Workers, PublishCompletedNarration(w) PROVE Goal
    <2>1. target[w] \in Receipt /\ attempt[w] # 0 /\ active[target[w]] = attempt[w]
        BY <1>3, ClaimType DEF PublishCompletedNarration, StillClaimed
    <2>2. /\ status' = [status EXCEPT ![target[w]] = "completed"]
          /\ active' = [active EXCEPT ![target[w]] = 0]
        BY <1>3 DEF PublishCompletedNarration
    <2> QED
        BY <2>1, <2>2 DEF ActiveGenerating, Begun
<1>4. ASSUME NEW w \in Workers, RequeueNarration(w) PROVE Goal
    <2>1. CASE StillClaimed(w)
        <3>1. target[w] \in Receipt /\ attempt[w] # 0 /\ active[target[w]] = attempt[w]
            BY <1>4, <2>1, ClaimType DEF RequeueNarration, StillClaimed
        <3>2. /\ status' = [status EXCEPT ![target[w]] = "queued"]
              /\ active' = [active EXCEPT ![target[w]] = 0]
            BY <1>4, <2>1 DEF RequeueNarration
        <3> QED
            BY <3>1, <3>2 DEF ActiveGenerating, Begun
    <2>2. CASE ~StillClaimed(w)
        BY <1>4, <2>2, StatusKept DEF RequeueNarration
    <2> QED
        BY <2>1, <2>2
<1>5. ASSUME NEW w \in Workers, PublishFailedNarration(w) PROVE Goal
    <2>1. CASE StillClaimed(w)
        <3>1. target[w] \in Receipt /\ attempt[w] # 0 /\ active[target[w]] = attempt[w]
            BY <1>5, <2>1, ClaimType DEF PublishFailedNarration, StillClaimed
        <3>2. /\ status' = [status EXCEPT ![target[w]] = "failed"]
              /\ active' = [active EXCEPT ![target[w]] = 0]
            BY <1>5, <2>1 DEF PublishFailedNarration
        <3> QED
            BY <3>1, <3>2 DEF ActiveGenerating, Begun
    <2>2. CASE ~StillClaimed(w)
        BY <1>5, <2>2, StatusKept DEF PublishFailedNarration
    <2> QED
        BY <2>1, <2>2
<1>6. CASE DeleteBattle
    BY <1>6 DEF DeleteBattle, ActiveGenerating, Begun
<1>7. CASE UNCHANGED <<status, active>>
    BY <1>7, StatusKept
<1>8. QED
    BY <1>1, <1>2, <1>3, <1>4, <1>5, <1>6, <1>7
    DEF Next, WorkerStep, vars, entryVars, Finished,
        SelectPendingNarration, SendNarrationTask, MarkNarrationDispatched, CrashDispatcher,
        RecoverStaleNarrationOutbox, StartDelivery, EndDelivery, AcquireFencedLease,
        LeaseBusy, BattleNotFound, SelectEntry, SelectNothing, ClaimConflict,
        GenerateClaimedNarration, CheckFence, StaleFence, RecordRemovedBattleAttempt,
        StaleAttempt, FallbackOfRemovedBattle, Answer, Crash, LoseTask, LeaseExpires

\* A worker keeps the entry it selected, or selects one that heads the line.
LEMMA SelectionStep ==
    ASSUME TypeInv, [Next]_vars, NEW w \in Workers, pc'[w] = "selected"
    PROVE  \/ pc[w] = "selected" /\ target'[w] = target[w]
           \/ target'[w] \in 1..committed /\ HeadOfLine(target'[w])
<1> DEFINE Goal == \/ pc[w] = "selected" /\ target'[w] = target[w]
                   \/ target'[w] \in 1..committed /\ HeadOfLine(target'[w])
<1>0. DOMAIN pc = Workers /\ DOMAIN target = Workers
    BY DEF TypeInv, TypeOK, WorkerTypeOK
<1>1. ASSUME NEW v \in Workers, SelectEntry(v) PROVE Goal
    <2>1. PICK r \in Claimable(task[v]) : target' = [target EXCEPT ![v] = r]
        BY <1>1 DEF SelectEntry
    <2>2. r \in Receipt /\ status[r] \in Open
        BY <2>1 DEF Claimable
    <2>3. r \in 1..committed
        BY <2>2, NarrationAssumption DEF TypeInv, TypeOK, NotYetAbsent, EntryTypeOK
    <2>4. HeadOfLine(r)
        BY <1>1, <2>1, <2>2 DEF SelectEntry, Disposition, Claimable
    <2>5. CASE w = v
        <3>1. target'[w] = r
            BY <1>0, <2>1, <2>5
        <3> QED
            BY <2>3, <2>4, <3>1
    <2>6. CASE w # v
        <3>1. pc'[w] = pc[w] /\ target'[w] = target[w]
            BY <1>0, <1>1, <2>1, <2>6 DEF SelectEntry
        <3> QED
            BY <3>1
    <2> QED
        BY <2>5, <2>6
<1>2. CASE UNCHANGED <<pc, target>>
    BY <1>2
<1>3. ASSUME NEW v \in Workers, Return(v) \/ Succeed(v) PROVE Goal
    BY <1>0, <1>3 DEF Return, Succeed, Forget
<1>4. ASSUME NEW v \in Workers,
             NEW x \in {"ready", "leased", "generating", "generated", "fenced"},
             pc' = [pc EXCEPT ![v] = x], target' = target
      PROVE  Goal
    BY <1>0, <1>4
<1>5. ASSUME NEW v \in Workers, WorkerStep(v) \/ Crash(v) PROVE Goal
    <2>1. CASE \/ AcquireFencedLease(v) \/ ClaimNarrationEntry(v)
               \/ GenerateClaimedNarration(v) \/ CheckFence(v)
        BY <2>1, <1>4 DEF AcquireFencedLease, ClaimNarrationEntry, GenerateClaimedNarration, CheckFence
    <2>2. CASE \/ LeaseBusy(v) \/ ClaimConflict(v) \/ StaleFence(v) \/ StaleAttempt(v)
               \/ RequeueNarration(v) \/ FallbackOfRemovedBattle(v) \/ Answer(v) \/ Crash(v)
        BY <2>2, <1>3
        DEF LeaseBusy, ClaimConflict, StaleFence, StaleAttempt, RequeueNarration,
            FallbackOfRemovedBattle, Answer, Crash
    <2>3. CASE \/ BattleNotFound(v) \/ SelectNothing(v) \/ RecordRemovedBattleAttempt(v)
               \/ PublishCompletedNarration(v) \/ PublishFailedNarration(v)
        BY <2>3, <1>3
        DEF BattleNotFound, SelectNothing, RecordRemovedBattleAttempt,
            PublishCompletedNarration, PublishFailedNarration
    <2> QED
        BY <1>1, <1>5, <2>1, <2>2, <2>3 DEF WorkerStep
<1>6. ASSUME NEW v \in Workers, NEW t \in Owner, StartDelivery(v, t) \/ EndDelivery(v, t)
      PROVE  Goal
    BY <1>2, <1>4, <1>6 DEF StartDelivery, EndDelivery, workerVars
<1>7. CASE \/ EnqueueNarration \/ DeleteBattle \/ LeaseExpires
           \/ \E t \in Task : LoseTask(t)
           \/ \E r \in Receipt : RecoverStaleNarrationOutbox(r)
           \/ \E d \in Dispatchers, r \in Receipt : SelectPendingNarration(d, r)
           \/ \E d \in Dispatchers :
                 SendNarrationTask(d) \/ MarkNarrationDispatched(d) \/ CrashDispatcher(d)
    BY <1>2, <1>7
    DEF EnqueueNarration, DeleteBattle, LeaseExpires, LoseTask, RecoverStaleNarrationOutbox,
        SelectPendingNarration, SendNarrationTask, MarkNarrationDispatched, CrashDispatcher,
        workerVars
<1>8. CASE UNCHANGED vars
    BY <1>2, <1>8 DEF vars, workerVars
<1>9. QED
    BY <1>5, <1>6, <1>7, <1>8 DEF Next, Finished

LEMMA OrderStep == OrderInv /\ [Next]_vars => OrderInv'
<1> SUFFICES ASSUME OrderInv, [Next]_vars PROVE OrderInv'
    OBVIOUS
<1> USE DEF OrderInv
<1>1. TypeInv' /\ ActiveGenerating'
    BY TypeStep, StatusStep
<1>2. ASSUME NEW r \in 1..committed, HeadOfLine(r)
      PROVE  \A e \in Receipt : e < r => status'[e] \notin Open
    BY <1>2, StatusStep, NarrationAssumption DEF HeadOfLine, TypeInv, TypeOK, EntryTypeOK
<1>3. SelectedHeads'
    <2>1. ASSUME NEW w \in Workers, pc'[w] = "selected"
          PROVE  \A e \in Receipt : e < target'[w] => status'[e] \notin Open
        <3>1. target'[w] \in 1..committed /\ HeadOfLine(target'[w])
            BY <2>1, SelectionStep DEF SelectedHeads, TypeInv, TargetOK
        <3> QED
            BY <1>2, <3>1
    <2> QED
        BY <2>1 DEF SelectedHeads, HeadOfLine
<1>4. InOrder'
    <2> SUFFICES ASSUME NEW r \in Receipt, status'[r] \in Begun
                  PROVE  \A e \in Receipt : e < r => status'[e] \notin Open
        BY DEF InOrder, Begun
    <2>1. r \in 1..committed /\ HeadOfLine(r)
        <3>1. CASE status[r] \in Begun
            BY <3>1, NarrationAssumption
            DEF InOrder, Begun, HeadOfLine, TypeInv, TypeOK, EntryTypeOK, NotYetAbsent
        <3>2. CASE \E w \in Workers : pc[w] = "selected" /\ target[w] = r
            BY <3>2 DEF SelectedHeads, TypeInv, TargetOK
        <3> QED
            BY <3>1, <3>2, StatusStep
    <2> QED
        BY <1>2, <2>1
<1> QED
    BY <1>1, <1>3, <1>4

\* No narration is begun before every earlier one has a public result, whatever
\* is redelivered, outlived, lost or crashes (narration-worker.ts:417-428, 492-499).
THEOREM PublishedInOrder == Spec => []InOrder
<1>1. Init => OrderInv
    BY TypeInit DEF Init, OrderInv, ActiveGenerating, SelectedHeads, InOrder
<1>2. Spec => []OrderInv
    BY <1>1, OrderStep, PTL DEF Spec
<1> QED
    BY <1>2, PTL DEF OrderInv
=============================================================================
