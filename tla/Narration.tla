------------------------------ MODULE Narration ------------------------------
(***************************************************************************)
(* The ordered narration pipeline of one battle                            *)
(* (backend/src/services/narration-worker.ts).                             *)
(*                                                                         *)
(* A battle mutation commits phase receipts 1, 2, 3, ... and enqueues one  *)
(* narration entry and one outbox row for each.  Dispatchers turn outbox   *)
(* rows into Cloud Tasks; each task delivery is one worker invocation of   *)
(* processNextNarrationCore, which runs as a series of SEPARATE database   *)
(* transactions: inspect the delivery, acquire the battle's narration      *)
(* lease, claim the entry, call the provider, publish.  The database is    *)
(* PostgreSQL at READ COMMITTED, so the fence check of the last            *)
(* transaction is a step of its own before its updates.                    *)
(*                                                                         *)
(* Wall-clock time is abstracted to the one bit the code derives from it:  *)
(* whether the lease row is still live.                                    *)
(***************************************************************************)
EXTENDS Integers

CONSTANTS
    N,               \* phase receipts the battle commits (bound)
    Workers,         \* concurrent worker invocations
    Dispatchers,     \* concurrent calls of dispatchNarrationOutbox
    Reserved,        \* the battle is a reserved-turn battle (manifest schema 7)
    Faults,          \* what the environment may do, a subset of FaultKinds
    MaxFaults,       \* crashes and losses in a behaviour (bound)
    MaxGeneration,   \* delivery generations of an outbox row (bound)
    MaxClaims,       \* claims of an entry (bound)
    MaxToken         \* fencing token of a lease row (bound)

(* "redelivery"  Cloud Tasks hands one task to two workers at a time       *)
(* "overrun"     a worker outlives its 60 s lease or the 5 min scan        *)
(* "crash"       a worker's process dies                                   *)
(* "loss"        Cloud Tasks drops a task                                  *)
(* "delete"      the owner deletes the battle                              *)
(* "manual"      an operator calls POST /internal/narration/process-next   *)
FaultKinds == {"redelivery", "overrun", "crash", "loss", "delete", "manual"}

NARRATION_WORKER_MAX_ATTEMPTS == 2

ASSUME NarrationAssumption ==
    /\ N \in Nat
    /\ Reserved \in BOOLEAN
    /\ Faults \subseteq FaultKinds
    /\ MaxFaults \in Nat
    /\ MaxGeneration \in Nat
    /\ MaxClaims \in Nat
    /\ MaxToken \in Nat

Receipt == 1..N

Task == [receipt : Receipt, generation : 0..MaxGeneration]

\* The owner id `local-worker:<user>' of a process-next call, which names no task.
Manual == [receipt |-> 0, generation |-> 0]

Owner == Task \cup {Manual}

LeaseRow == [owner : Owner, token : 0..MaxToken, live : BOOLEAN]

NoLease == [owner |-> Manual, token |-> 0, live |-> FALSE]

VARIABLES
    exists,          \* the battles row exists
    committed,       \* narration entries enqueued so far: receipts 1..committed
    status,          \* battle_narration_entries.status
    active,          \* battle_narration_entries.active_attempt_id (0 = NULL)
    attempts,        \* battle_narration_entries.attempt_count
    attemptStatus,   \* battle_narration_attempts.status, by receipt and attempt
    presentation,    \* battle_presentations.narrative_json
    completedEvents, \* number of public `completed' events of each receipt
    failedEvents,    \* number of public `failed' events of each receipt
    lease,           \* battle_narration_leases row (token 0 = no row)
    outbox,          \* battle_narration_outbox.status
    generation,      \* battle_narration_outbox.delivery_generation
    tasks,           \* tasks Cloud Tasks still has to deliver
    names,           \* task names it has ever accepted
    sending, sent,   \* each dispatcher: the task it is sending; it has been sent
    pc, task, token, \* each worker: next step, delivered task, fencing token
    target, prior,   \*   claimed receipt, attempt_count read by its claim
    attempt, outcome,\*   attempt it started, how the provider call ended
    faults           \* crashes and losses so far

entryVars == <<committed, status, active, attempts, attemptStatus, presentation>>
eventVars == <<completedEvents, failedEvents>>
queueVars == <<outbox, generation, tasks, names, sending, sent>>
workerVars == <<pc, task, token, target, prior, attempt, outcome>>
vars == <<exists, entryVars, eventVars, lease, queueVars, workerVars, faults>>

\* Mutant: a failed entry may be claimed again.
OpenOrFailed == {"queued", "generating", "failed"}

Open == {"queued", "generating"}
Terminal == {"completed", "failed"}
-----------------------------------------------------------------------------
(* Named conditions of the SQL statements.                                 *)

\* Mutant: only an entry being generated holds back its successors.
NoEarlierGenerating(r) == \A e \in Receipt : e < r => status[e] # "generating"

\* NOT EXISTS an earlier entry IN ('queued', 'generating').
HeadOfLine(r) == \A e \in Receipt : e < r => status[e] \notin Open

\* The lease row is the one worker w acquired (owner_id and fencing_token).
OwnsLease(w) ==
    /\ lease.token = token[w]
    /\ lease.owner = task[w]
    /\ lease.token # 0

\* inspectNarrationDelivery: may this delivery be worked on?
Disposition(t) ==
    IF t = Manual THEN "ready"
    ELSE IF generation[t.receipt] # t.generation \/ outbox[t.receipt] = "completed"
         THEN "acknowledged"
    ELSE IF status[t.receipt] # "absent" /\ ~HeadOfLine(t.receipt) THEN "deferred"
    ELSE "ready"

\* The outbox after that inspection: a deferred delivery is handed back.
InspectedOutbox(t) ==
    IF Disposition(t) = "deferred" /\ outbox[t.receipt] = "dispatched"
    THEN [outbox EXCEPT ![t.receipt] = "pending"]
    ELSE outbox

\* Mutant: the row is closed with a status no query knows.
ClosedWithUnknownStatus(t) ==
    IF t # Manual THEN [outbox EXCEPT ![t.receipt] = "acknowledged"] ELSE outbox

\* UPDATE ... SET status = 'completed' WHERE outbox_id AND delivery_generation.
CompletedOutbox(t) ==
    IF t # Manual /\ generation[t.receipt] = t.generation
    THEN [outbox EXCEPT ![t.receipt] = "completed"]
    ELSE outbox

\* DELETE FROM battle_narration_leases WHERE owner_id AND fencing_token.
ReleasedLease(w) == IF OwnsLease(w) THEN NoLease ELSE lease

\* Mutant: the UPDATE does not name the attempt.
AnyAttempt(w) == TRUE

\* The attempt's UPDATE of its entry finds a row: active_attempt_id is still its own.
StillClaimed(w) == active[target[w]] = attempt[w]

\* Mutant: the upsert has no WHERE clause.
AlwaysFree(w) == TRUE

\* The lease row does not keep worker w out: it is free, expired or of w's owner id.
LeaseFree(w) == lease.token = 0 \/ lease.owner = task[w] \/ ~lease.live

\* Mutant: the recovery forgets the entries a lost task left behind.
RecoverableIfGenerating(r) ==
    HeadOfLine(r) /\ status[r] = "generating" /\ ~lease.live

\* The entry of a dispatched outbox row that nobody works on.
Recoverable(r) ==
    /\ HeadOfLine(r)
    /\ \/ status[r] = "queued"
       \/ status[r] = "generating" /\ ~lease.live

\* Every local of the invocation but its task is forgotten.
Forget(w) ==
    /\ token' = [token EXCEPT ![w] = 0]
    /\ target' = [target EXCEPT ![w] = 0]
    /\ prior' = [prior EXCEPT ![w] = 0]
    /\ attempt' = [attempt EXCEPT ![w] = 0]
    /\ outcome' = [outcome EXCEPT ![w] = "none"]

\* The invocation fails (503) or dies: Cloud Tasks keeps the task.
Return(w) ==
    /\ pc' = [pc EXCEPT ![w] = "idle"]
    /\ task' = [task EXCEPT ![w] = Manual]
    /\ Forget(w)

\* The invocation's last transaction has committed; it has yet to answer 200.
Succeed(w) ==
    /\ pc' = [pc EXCEPT ![w] = "answering"]
    /\ Forget(w)
    /\ UNCHANGED task
-----------------------------------------------------------------------------
Init ==
    /\ exists = TRUE
    /\ committed = 0
    /\ status = [r \in Receipt |-> "absent"]
    /\ active = [r \in Receipt |-> 0]
    /\ attempts = [r \in Receipt |-> 0]
    /\ attemptStatus = [r \in Receipt |-> [k \in 1..MaxClaims |-> "none"]]
    /\ presentation = [r \in Receipt |-> "none"]
    /\ completedEvents = [r \in Receipt |-> 0]
    /\ failedEvents = [r \in Receipt |-> 0]
    /\ lease = NoLease
    /\ outbox = [r \in Receipt |-> "absent"]
    /\ generation = [r \in Receipt |-> 0]
    /\ tasks = {}
    /\ names = {}
    /\ sending = [d \in Dispatchers |-> Manual]
    /\ sent = [d \in Dispatchers |-> FALSE]
    /\ pc = [w \in Workers |-> "idle"]
    /\ task = [w \in Workers |-> Manual]
    /\ token = [w \in Workers |-> 0]
    /\ target = [w \in Workers |-> 0]
    /\ prior = [w \in Workers |-> 0]
    /\ attempt = [w \in Workers |-> 0]
    /\ outcome = [w \in Workers |-> "none"]
    /\ faults = 0

-----------------------------------------------------------------------------
(* The battle mutation and the dispatcher.                                 *)

\* enqueueNarrationInTransaction, inside the transaction that commits a phase
\* receipt: the entry, its public `queued' event and a pending outbox row.
EnqueueNarration ==
    /\ exists
    /\ committed < N
    /\ committed' = committed + 1
    /\ status' = [status EXCEPT ![committed + 1] = "queued"]
    /\ outbox' = [outbox EXCEPT ![committed + 1] = "pending"]
    /\ UNCHANGED <<exists, active, attempts, attemptStatus, presentation, eventVars,
                   lease, generation, tasks, names, sending, sent, workerVars, faults>>

\* dispatchNarrationOutbox, its SELECT: a pending row whose entry heads the line.
\* (The rows of one batch are as many dispatchers here.)
SelectPendingNarration(d, r) ==
    /\ sending[d] = Manual
    /\ outbox[r] = "pending"
    /\ status[r] \in Open
    /\ HeadOfLine(r)
    /\ sending' = [sending EXCEPT ![d] = [receipt |-> r, generation |-> generation[r]]]
    /\ UNCHANGED <<exists, entryVars, eventVars, lease, outbox, generation, tasks, names,
                   sent, workerVars, faults>>

\* enqueueNarrationTask: the task name is a digest of outbox id and generation; a
\* name Cloud Tasks has already accepted is answered 409, taken for success.
SendNarrationTask(d) ==
    /\ sending[d] # Manual
    /\ ~sent[d]
    /\ tasks' = IF sending[d] \in names THEN tasks ELSE tasks \cup {sending[d]}
    /\ names' = names \cup {sending[d]}
    /\ sent' = [sent EXCEPT ![d] = TRUE]
    /\ UNCHANGED <<exists, entryVars, eventVars, lease, outbox, generation, sending,
                   workerVars, faults>>

\* ... and its last statement: SET status = 'dispatched' WHERE status = 'pending',
\* which does not compare the generation that was sent.
MarkNarrationDispatched(d) ==
    LET r == sending[d].receipt IN
    /\ sent[d]
    /\ outbox' = IF outbox[r] = "pending" THEN [outbox EXCEPT ![r] = "dispatched"]
                 ELSE outbox
    /\ sending' = [sending EXCEPT ![d] = Manual]
    /\ sent' = [sent EXCEPT ![d] = FALSE]
    /\ UNCHANGED <<exists, entryVars, eventVars, lease, generation, tasks, names,
                   workerVars, faults>>

\* Nothing is left of a delivery: no task in the queue, no worker or dispatcher on it.
Abandoned(t) ==
    /\ t \notin tasks
    /\ \A w \in Workers : pc[w] = "idle" \/ task[w] # t
    /\ \A d \in Dispatchers : sending[d].receipt # t.receipt

\* recoverStaleNarrationOutbox: a row dispatched more than five minutes ago whose
\* entry heads the line and that no live lease covers is re-armed under the next
\* generation.  Without overruns five minutes outlast any
\* delivery and any call of a dispatcher.
RecoverStaleNarrationOutbox(r) ==
    /\ outbox[r] = "dispatched"
    /\ Recoverable(r)
    /\ "overrun" \in Faults \/ Abandoned([receipt |-> r, generation |-> generation[r]])
    /\ generation[r] < MaxGeneration
    /\ outbox' = [outbox EXCEPT ![r] = "pending"]
    /\ generation' = [generation EXCEPT ![r] = @ + 1]
    /\ UNCHANGED <<exists, entryVars, eventVars, lease, tasks, names, sending, sent,
                   workerVars, faults>>
-----------------------------------------------------------------------------
(* A worker invocation: processNextNarrationCore, one action per transaction. *)

\* Cloud Tasks delivers t, or an operator calls process-next.
Delivered(w, t) ==
    /\ pc[w] = "idle"
    /\ \/ /\ t \in tasks
          /\ \/ "redelivery" \in Faults
             \/ \A v \in Workers : pc[v] = "idle" \/ task[v] # t
       \/ /\ t = Manual
          /\ "manual" \in Faults
          /\ \A v \in Workers : pc[v] = "idle" \/ task[v] # Manual

\* The battle still exists and the first inspection says ready.
StartDelivery(w, t) ==
    /\ Delivered(w, t)
    /\ exists
    /\ Disposition(t) = "ready"
    /\ pc' = [pc EXCEPT ![w] = "ready"]
    /\ task' = [task EXCEPT ![w] = t]
    /\ UNCHANGED <<exists, entryVars, eventVars, lease, queueVars, token, target, prior,
                   attempt, outcome, faults>>

\* Acknowledged or deferred at once: the answer is 200 and the task is gone.
EndDelivery(w, t) ==
    /\ Delivered(w, t)
    /\ t # Manual
    /\ ~exists \/ Disposition(t) # "ready"
    /\ outbox' = IF exists THEN InspectedOutbox(t) ELSE outbox
    /\ tasks' = tasks \ {t}
    /\ UNCHANGED <<exists, entryVars, eventVars, lease, generation, names, sending, sent,
                   workerVars, faults>>

\* acquireFencedLease: free, expired, or held by the same owner id.  The owner id
\* is `cloud-task:<outbox>:<generation>', so it is shared by every delivery of
\* one task; a released row is deleted, so the token starts again at 1.
AcquireFencedLease(w) ==
    /\ pc[w] = "ready"
    /\ exists
    /\ LeaseFree(w)
    /\ lease.token < MaxToken
    /\ lease' = [owner |-> task[w], token |-> lease.token + 1, live |-> TRUE]
    /\ token' = [token EXCEPT ![w] = lease.token + 1]
    /\ pc' = [pc EXCEPT ![w] = "leased"]
    /\ UNCHANGED <<exists, entryVars, eventVars, queueVars, task, target, prior, attempt,
                   outcome, faults>>

\* NARRATION_LEASE_BUSY: answered 503, the task is retried.
LeaseBusy(w) ==
    /\ pc[w] = "ready"
    /\ exists
    /\ ~LeaseFree(w)
    /\ Return(w)
    /\ UNCHANGED <<exists, entryVars, eventVars, lease, queueVars, faults>>

\* BATTLE_NOT_FOUND, which the route answers 200.
BattleNotFound(w) ==
    /\ pc[w] = "ready"
    /\ ~exists
    /\ Succeed(w)
    /\ UNCHANGED <<exists, entryVars, eventVars, lease, queueVars, faults>>

\* The entry a claim selects: the task's own receipt, or the lowest open one.
Claimable(t) ==
    {r \in Receipt : /\ status[r] \in Open
                     /\ IF t = Manual THEN HeadOfLine(r) ELSE r = t.receipt}

\* Mutant: ... and the UPDATE does not ask.
SelectedAnyStatus(w) == TRUE

\* The entry selected is still open when the UPDATE of the claim runs ...
SelectedStillOpen(w) == status[target[w]] \in Open

\* claimNarrationEntry, up to its SELECT of an open entry.
SelectEntry(w) ==
    /\ pc[w] = "leased"
    /\ Disposition(task[w]) = "ready"
    /\ \E r \in Claimable(task[w]) :
          /\ target' = [target EXCEPT ![w] = r]
          /\ prior' = [prior EXCEPT ![w] = attempts[r]]
    /\ pc' = [pc EXCEPT ![w] = "selected"]
    /\ UNCHANGED <<exists, entryVars, eventVars, lease, queueVars, task, token, attempt,
                   outcome, faults>>

\* claimNarrationEntry with nothing to claim: the delivery is acknowledged or
\* deferred by its second inspection, or its entry is no longer open.
SelectNothing(w) ==
    /\ pc[w] = "leased"
    /\ Disposition(task[w]) # "ready" \/ Claimable(task[w]) = {}
    /\ outbox' = IF Disposition(task[w]) # "ready" THEN InspectedOutbox(task[w])
                 ELSE CompletedOutbox(task[w])
    /\ lease' = ReleasedLease(w)
    /\ Succeed(w)
    /\ UNCHANGED <<exists, entryVars, eventVars, generation, tasks, names, sending, sent, faults>>

\* claimNarrationEntry, its UPDATE: the entry is (re)claimed for a new attempt if
\* it is still open.  Nothing in this transaction looks at the lease.
ClaimNarrationEntry(w) ==
    LET r == target[w] IN
    /\ pc[w] = "selected"
    /\ SelectedStillOpen(w)
    /\ attempts[r] < MaxClaims
    /\ status' = [status EXCEPT ![r] = "generating"]
    /\ attempts' = [attempts EXCEPT ![r] = @ + 1]
    /\ active' = [active EXCEPT ![r] = attempts[r] + 1]
    /\ attemptStatus' = [attemptStatus EXCEPT ![r][attempts[r] + 1] = "generating"]
    /\ attempt' = [attempt EXCEPT ![w] = attempts[r] + 1]
    /\ pc' = [pc EXCEPT ![w] = "generating"]
    /\ UNCHANGED <<exists, committed, presentation, eventVars, lease, queueVars, task,
                   token, target, prior, outcome, faults>>

\* NARRATION_CLAIM_CONFLICT: answered 503, the task is retried.
ClaimConflict(w) ==
    /\ pc[w] = "selected"
    /\ ~SelectedStillOpen(w)
    /\ Return(w)
    /\ UNCHANGED <<exists, entryVars, eventVars, lease, queueVars, faults>>

\* generateClaimedNarration: the provider call ends in a narrative, in a failure
\* that may be retried, or at the HTTP or token ceiling of the receipt.  No
\* statement of it touches the rows modelled here.
GenerateClaimedNarration(w) ==
    /\ pc[w] = "generating"
    /\ \E o \in {"narrative", "failure", "ceiling"} : outcome' = [outcome EXCEPT ![w] = o]
    /\ pc' = [pc EXCEPT ![w] = "generated"]
    /\ UNCHANGED <<exists, entryVars, eventVars, lease, queueVars, task, token, target,
                   prior, attempt, faults>>
-----------------------------------------------------------------------------
(* finalizeNarrationAttempt: one transaction, in two steps.                *)

\* Its two reads, when they let it go on: the battle exists and the lease row is
\* still this worker's and live.
CheckFence(w) ==
    /\ pc[w] = "generated"
    /\ exists
    /\ OwnsLease(w)
    /\ lease.live
    /\ pc' = [pc EXCEPT ![w] = "fenced"]
    /\ UNCHANGED <<exists, entryVars, eventVars, lease, queueVars, task, token, target,
                   prior, attempt, outcome, faults>>

\* NARRATION_STALE_FENCE: the request fails and Cloud Tasks retries the task.
StaleFence(w) ==
    /\ pc[w] = "generated"
    /\ exists
    /\ ~(OwnsLease(w) /\ lease.live)
    /\ Return(w)
    /\ UNCHANGED <<exists, entryVars, eventVars, lease, queueVars, faults>>

\* recordRemovedBattleAttempt: only the attempt row survives a deleted battle.
RecordRemovedBattleAttempt(w) ==
    /\ pc[w] = "generated"
    /\ ~exists
    /\ attemptStatus' = [attemptStatus EXCEPT ![target[w]][attempt[w]] =
                           IF outcome[w] = "narrative" THEN "completed" ELSE "failed"]
    /\ Succeed(w)
    /\ UNCHANGED <<exists, committed, status, active, attempts, presentation, eventVars,
                   lease, outbox, generation, tasks, names, sending, sent, faults>>

\* publishCompletedNarration.
PublishCompletedNarration(w) ==
    LET r == target[w] IN
    /\ pc[w] = "fenced"
    /\ outcome[w] = "narrative"
    /\ StillClaimed(w)
    /\ attemptStatus' = [attemptStatus EXCEPT ![r][attempt[w]] = "completed"]
    /\ status' = [status EXCEPT ![r] = "completed"]
    /\ active' = [active EXCEPT ![r] = 0]
    /\ presentation' = [presentation EXCEPT ![r] = "narrative"]
    /\ completedEvents' = [completedEvents EXCEPT ![r] = @ + 1]
    /\ outbox' = CompletedOutbox(task[w])
    /\ lease' = ReleasedLease(w)
    /\ Succeed(w)
    /\ UNCHANGED <<exists, committed, attempts, failedEvents, generation, tasks, names,
                   sending, sent, faults>>

\* NARRATION_STALE_ATTEMPT: the entry is no longer this attempt's; roll back.
StaleAttempt(w) ==
    /\ pc[w] = "fenced"
    /\ outcome[w] = "narrative"
    /\ ~StillClaimed(w)
    /\ Return(w)
    /\ UNCHANGED <<exists, entryVars, eventVars, lease, queueVars, faults>>

\* publishFailedNarration ends the entry on a reserved-turn battle, at a ceiling,
\* or when the claim's own count has reached the worker's attempts.
LastAttempt(w) ==
    Reserved \/ outcome[w] = "ceiling" \/ prior[w] + 1 >= NARRATION_WORKER_MAX_ATTEMPTS

\* publishFailedNarration, not the last attempt: back to the queue, 503.
RequeueNarration(w) ==
    LET r == target[w] IN
    /\ pc[w] = "fenced"
    /\ outcome[w] # "narrative"
    /\ ~LastAttempt(w)
    /\ attemptStatus' = [attemptStatus EXCEPT ![r][attempt[w]] = "abandoned"]
    /\ IF StillClaimed(w)
       THEN /\ status' = [status EXCEPT ![r] = "queued"]
            /\ active' = [active EXCEPT ![r] = 0]
       ELSE UNCHANGED <<status, active>>
    /\ lease' = ReleasedLease(w)
    /\ Return(w)
    /\ UNCHANGED <<exists, committed, attempts, presentation, eventVars, queueVars, faults>>

\* Mutant: the fallback is never presented.
NoFallback(r) == presentation

\* A failed entry's text: only a reserved-turn battle presents the fallback.
FailedPresentation(r) ==
    IF Reserved THEN [presentation EXCEPT ![r] = "fallback"] ELSE presentation

\* publishFailedNarration, the last attempt.  The UPDATE of the entry names the
\* attempt but its row count is not looked at: the public `failed' event, the
\* completed outbox row and the released lease do not depend on it.  A reserved
\* battle's fallback presentation needs the battle row (foreign key).
PublishFailedNarration(w) ==
    LET r == target[w] IN
    /\ pc[w] = "fenced"
    /\ outcome[w] # "narrative"
    /\ LastAttempt(w)
    /\ Reserved => exists
    /\ attemptStatus' = [attemptStatus EXCEPT ![r][attempt[w]] = "failed"]
    /\ presentation' = FailedPresentation(r)
    /\ IF StillClaimed(w)
       THEN /\ status' = [status EXCEPT ![r] = "failed"]
            /\ active' = [active EXCEPT ![r] = 0]
       ELSE UNCHANGED <<status, active>>
    /\ failedEvents' = [failedEvents EXCEPT ![r] = @ + 1]
    /\ outbox' = CompletedOutbox(task[w])
    /\ lease' = ReleasedLease(w)
    /\ Succeed(w)
    /\ UNCHANGED <<exists, committed, attempts, completedEvents, generation, tasks, names,
                   sending, sent, faults>>

\* ... whose foreign key fails when the battle went away after the fence check.
FallbackOfRemovedBattle(w) ==
    /\ pc[w] = "fenced"
    /\ outcome[w] # "narrative"
    /\ Reserved /\ ~exists
    /\ Return(w)
    /\ UNCHANGED <<exists, entryVars, eventVars, lease, queueVars, faults>>

\* The answer 200 reaches Cloud Tasks, and the task is gone.
Answer(w) ==
    /\ pc[w] = "answering"
    /\ tasks' = tasks \ {task[w]}
    /\ Return(w)
    /\ UNCHANGED <<exists, entryVars, eventVars, lease, outbox, generation, names,
                   sending, sent, faults>>
-----------------------------------------------------------------------------
(* The environment.                                                        *)

\* expires_at passes.  Without overruns only a lease whose worker is gone expires.
LeaseExpires ==
    /\ lease.token # 0
    /\ lease.live
    /\ "overrun" \in Faults \/ \A w \in Workers : pc[w] = "idle" \/ ~OwnsLease(w)
    /\ lease' = [lease EXCEPT !.live = FALSE]
    /\ UNCHANGED <<exists, entryVars, eventVars, queueVars, workerVars, faults>>

\* The worker's process dies between two transactions.
Crash(w) ==
    /\ "crash" \in Faults
    /\ faults < MaxFaults
    /\ faults' = faults + 1
    /\ pc[w] # "idle"
    /\ Return(w)
    /\ UNCHANGED <<exists, entryVars, eventVars, lease, queueVars>>

\* A dispatcher dies, or its call fails, before or after Cloud Tasks took the task.
CrashDispatcher(d) ==
    /\ "crash" \in Faults
    /\ faults < MaxFaults
    /\ faults' = faults + 1
    /\ sending[d] # Manual
    /\ sending' = [sending EXCEPT ![d] = Manual]
    /\ sent' = [sent EXCEPT ![d] = FALSE]
    /\ UNCHANGED <<exists, entryVars, eventVars, lease, outbox, generation, tasks, names,
                   workerVars>>

\* Cloud Tasks gives a task up.
LoseTask(t) ==
    /\ "loss" \in Faults
    /\ faults < MaxFaults
    /\ faults' = faults + 1
    /\ t \in tasks
    /\ tasks' = tasks \ {t}
    /\ UNCHANGED <<exists, entryVars, eventVars, lease, outbox, generation, names,
                   sending, sent, workerVars>>

\* deleteBattle: entries, lease and presentations cascade; outbox rows, events
\* and attempts have no foreign key.
DeleteBattle ==
    /\ "delete" \in Faults
    /\ exists
    /\ exists' = FALSE
    /\ status' = [r \in Receipt |-> "absent"]
    /\ active' = [r \in Receipt |-> 0]
    /\ presentation' = [r \in Receipt |-> "none"]
    /\ lease' = NoLease
    /\ UNCHANGED <<committed, attempts, attemptStatus, eventVars, queueVars, workerVars,
                   faults>>

\* Nothing is left to do (so that TLC reports a stuck pipeline as a deadlock).
Finished ==
    /\ ~exists \/ committed = N
    /\ tasks = {}
    /\ \A d \in Dispatchers : sending[d] = Manual
    /\ \A w \in Workers : pc[w] = "idle"
    /\ \A r \in Receipt : status[r] \notin Open
    /\ UNCHANGED vars

WorkerStep(w) ==
    \/ AcquireFencedLease(w) \/ LeaseBusy(w) \/ BattleNotFound(w)
    \/ SelectEntry(w) \/ SelectNothing(w)
    \/ ClaimNarrationEntry(w) \/ ClaimConflict(w)
    \/ GenerateClaimedNarration(w)
    \/ CheckFence(w) \/ StaleFence(w) \/ RecordRemovedBattleAttempt(w)
    \/ PublishCompletedNarration(w) \/ StaleAttempt(w)
    \/ RequeueNarration(w) \/ PublishFailedNarration(w) \/ FallbackOfRemovedBattle(w)
    \/ Answer(w)

Next ==
    \/ EnqueueNarration
    \/ \E d \in Dispatchers, r \in Receipt : SelectPendingNarration(d, r)
    \/ \E d \in Dispatchers :
          SendNarrationTask(d) \/ MarkNarrationDispatched(d) \/ CrashDispatcher(d)
    \/ \E r \in Receipt : RecoverStaleNarrationOutbox(r)
    \/ \E w \in Workers, t \in Owner : StartDelivery(w, t) \/ EndDelivery(w, t)
    \/ \E w \in Workers : WorkerStep(w) \/ Crash(w)
    \/ \E t \in Task : LoseTask(t)
    \/ LeaseExpires
    \/ DeleteBattle
    \/ Finished

Spec == Init /\ [][Next]_vars

\* Some process keeps calling dispatchPendingNarrationTasks (startup, battle
\* mutations and task answers do), Cloud Tasks delivers what it holds, a worker
\* that does not die goes on, and time passes.
Fairness ==
    /\ \A d \in Dispatchers :
          /\ WF_vars(\E r \in Receipt : SelectPendingNarration(d, r))
          /\ WF_vars(SendNarrationTask(d))
          /\ WF_vars(MarkNarrationDispatched(d))
    /\ \A r \in Receipt : WF_vars(RecoverStaleNarrationOutbox(r))
    /\ \A t \in Task : WF_vars(\E w \in Workers : StartDelivery(w, t) \/ EndDelivery(w, t))
    /\ \A w \in Workers : WF_vars(WorkerStep(w))
    /\ WF_vars(LeaseExpires)

FairSpec == Spec /\ Fairness
-----------------------------------------------------------------------------
AttemptRows ==
    [Receipt -> [1..MaxClaims -> {"none", "generating", "completed", "failed", "abandoned"}]]

EntryTypeOK ==
    /\ committed \in 0..N
    /\ status \in [Receipt -> {"absent"} \cup Open \cup Terminal]
    /\ active \in [Receipt -> 0..MaxClaims]
    /\ attempts \in [Receipt -> 0..MaxClaims]
    /\ attemptStatus \in AttemptRows
    /\ presentation \in [Receipt -> {"none", "narrative", "fallback"}]

EventTypeOK ==
    /\ completedEvents \in [Receipt -> Nat]
    /\ failedEvents \in [Receipt -> Nat]

QueueTypeOK ==
    /\ outbox \in [Receipt -> {"absent", "pending", "dispatched", "completed"}]
    /\ generation \in [Receipt -> 0..MaxGeneration]
    /\ tasks \subseteq Task
    /\ names \subseteq Task
    /\ sending \in [Dispatchers -> Owner]
    /\ sent \in [Dispatchers -> BOOLEAN]

WorkerTypeOK ==
    /\ pc \in [Workers -> {"idle", "ready", "leased", "selected", "generating",
                           "generated", "fenced", "answering"}]
    /\ task \in [Workers -> Owner]
    /\ token \in [Workers -> 0..MaxToken]
    /\ target \in [Workers -> 0..N]
    /\ prior \in [Workers -> 0..MaxClaims]
    /\ attempt \in [Workers -> 0..MaxClaims]
    /\ outcome \in [Workers -> {"none", "narrative", "failure", "ceiling"}]

\* The rows, the queue and the locals of the workers are well formed.
TypeOK ==
    /\ exists \in BOOLEAN
    /\ EntryTypeOK
    /\ EventTypeOK
    /\ lease \in LeaseRow
    /\ QueueTypeOK
    /\ WorkerTypeOK
    /\ faults \in 0..MaxFaults

\* Narration is strictly ordered: no entry is generating or has a public result
\* while an earlier entry of the battle is still queued or generating, whatever
\* is redelivered, expires, crashes or is retried (narration-worker.ts:417-428).
InOrder ==
    \A e, r \in Receipt :
        e < r /\ status[r] \in {"generating", "completed", "failed"} =>
            status[e] \notin {"queued", "generating"}

\* The text an entry ended with is that of its LAST claim: a completed entry has
\* exactly one completed attempt, the newest, and exactly one public `completed'
\* event; an entry that is not completed has neither.  No overtaken worker ever
\* publishes a narrative, although a claim does not look at the lease and the
\* fence is read before the updates (narration-worker.ts:680-736, 851-871).
CompletedByLastClaim ==
    exists =>
        \A r \in Receipt :
            IF status[r] = "completed"
            THEN /\ \A k \in 1..MaxClaims :
                       attemptStatus[r][k] = "completed" <=> k = attempts[r]
                 /\ completedEvents[r] = 1
            ELSE /\ \A k \in 1..MaxClaims : attemptStatus[r][k] # "completed"
                 /\ completedEvents[r] = 0

\* What the battle presents of a receipt agrees with the public result: the
\* narrative of a completed entry, and the deterministic fallback of a failed one
\* on a reserved-turn battle (publishNarrationPresentation).
PresentationMatchesResult ==
    \A r \in Receipt :
        presentation[r] = CASE status[r] = "completed" -> "narrative"
                            [] status[r] = "failed" /\ Reserved -> "fallback"
                            [] OTHER -> "none"

\* A battle narration lease admits one worker: no two workers are between a
\* claim and the end of its provider call (holds without redelivery and
\* overruns; narration-worker.ts:293-321).
OneNarrator ==
    \A v, w \in Workers :
        pc[v] \in {"generating", "generated", "fenced"} /\
        pc[w] \in {"generating", "generated", "fenced"} => v = w

\* Each receipt gets one public terminal event, of the kind of its status.
OneTerminalEvent ==
    \A r \in Receipt :
        exists => /\ completedEvents[r] = (IF status[r] = "completed" THEN 1 ELSE 0)
                  /\ failedEvents[r] = (IF status[r] = "failed" THEN 1 ELSE 0)
=============================================================================
