-------------------------- MODULE AwarenessNarration --------------------------
(***************************************************************************)
(* The batched narration of a battle whose manifest is of schema 5 or 6    *)
(* (backend/src/services/awareness-narration-worker*.ts).                  *)
(*                                                                         *)
(* A delivery claims a run of up to three queued receipts as one batch,    *)
(* reserves the cost of one provider request in the battle's runtime row,  *)
(* sends it, and publishes all receipts of the batch or fails them all.    *)
(* A request that outlives its deadline keeps its place in the budget      *)
(* until it ends; a late answer closes the reservation and nothing else.   *)
(* Once a receipt has failed, every later one fails too.                   *)
(*                                                                         *)
(* Outbox, lease and event rows are those of module Narration, which has   *)
(* the dispatcher's own races; here a pending row becomes a task at once.  *)
(* Time is abstracted to which deadlines have passed; a delivery compares  *)
(* them where it captures the entries, a moment after it read its clock.   *)
(***************************************************************************)
EXTENDS Integers, FiniteSets

CONSTANTS
    N,               \* phase receipts the battle commits (bound)
    Workers,         \* concurrent worker invocations
    Scene,           \* a receipt's phase and recognition target
    Combat,          \* the scenes of phase combat, whose receipts share a batch
    Urgent,          \* receipts that do not wait for the flush window
    QueueBeats,      \* policy.narration.queueBeats
    Faults,          \* what the environment may do, a subset of FaultKinds
    MaxFaults,       \* faults in a behaviour (bound)
    MaxDeferrals,    \* generation up to which a delivery is deferred (bound)
    MaxGeneration,   \* delivery generations of an outbox row (bound)
    MaxToken         \* fencing token of a lease row (bound)

(* "redelivery"  Cloud Tasks hands a task to a second worker meanwhile     *)
(* "overrun"     a worker outlives its lease                               *)
(* "crash"       a worker's process dies, and its request goes unobserved  *)
(* "loss"        Cloud Tasks drops a task                                  *)
FaultKinds == {"redelivery", "overrun", "crash", "loss"}

\* policy.narration.batchReceipts
BatchReceipts == 3

ASSUME AwarenessAssumption ==
    /\ N \in Nat
    /\ QueueBeats \in Nat
    /\ Urgent \subseteq 1..N
    /\ Faults \subseteq FaultKinds
    /\ MaxFaults \in Nat
    /\ MaxDeferrals \in 0..MaxGeneration
    /\ MaxGeneration \in Nat
    /\ MaxToken \in Nat

Receipt == 1..N

Task == [receipt : Receipt, generation : 0..MaxGeneration]

NoTask == [receipt |-> 0, generation |-> 0]

LeaseRow == [owner : Task \cup {NoTask}, token : 0..MaxToken, live : BOOLEAN]

NoLease == [owner |-> NoTask, token |-> 0, live |-> FALSE]

(* An attempt is named by the first receipt of its batch: an entry is      *)
(* claimed once, for nothing returns it to `queued' (deferClaimedBatch     *)
(* would, for an `awareness_budget_lease_busy' that no code throws).       *)
VARIABLES
    committed,       \* narration entries enqueued so far: receipts 1..committed
    status,          \* battle_narration_entries.status
    active,          \* battle_narration_entries.active_attempt_id (0 = NULL)
    batch,           \* battle_awareness_narration_batches.status, by attempt
    members,         \* its receipt_ids_json
    reservation,     \* status of the attempt's reservation in the runtime's budget
    outstanding,     \* its physicalOutstanding
    request,         \* the provider request of an attempt
    late,            \* receipts 1..late have missed their publication deadline
    expired,         \* attempts whose batch deadline has passed
    lease,           \* battle_narration_leases row (token 0 = no row)
    outbox,          \* battle_narration_outbox.status
    generation,      \* battle_narration_outbox.delivery_generation
    tasks,           \* tasks Cloud Tasks still has to deliver
    pc, task, token, \* each worker: next step, delivered task, fencing token
    captured,        \*   open receipts its claim has read
    attempt,         \*   the attempt it started, or found outstanding
    result,          \*   how its dispatch ended
    faults           \* faults so far

entryVars == <<committed, status, active>>
batchVars == <<batch, members>>
budgetVars == <<reservation, outstanding>>
rowVars == <<entryVars, batchVars, budgetVars>>
timeVars == <<late, expired>>
queueVars == <<outbox, generation, tasks>>
workerVars == <<pc, task, token, captured, attempt, result>>
vars == <<rowVars, request, timeVars, lease, queueVars, workerVars, faults>>

Open == {"queued", "generating"}
Terminal == {"completed", "failed"}

OpenReceipts == {r \in Receipt : status[r] \in Open}

First(S) == CHOOSE r \in S : \A s \in S : r <= s
-----------------------------------------------------------------------------
(* Named conditions and effects of the statements.                         *)

\* NOT EXISTS an earlier entry IN ('queued', 'generating').
HeadOfLine(r) == \A e \in Receipt : e < r => status[e] \notin Open

\* narrationDeliveryCurrent: the row is open and of the delivered generation.
DeliveryCurrent(t) ==
    /\ outbox[t.receipt] # "completed"
    /\ generation[t.receipt] = t.generation

\* The lease row does not keep worker w out: it is free, expired or of w's owner id.
LeaseFree(w) == lease.token = 0 \/ lease.owner = task[w] \/ ~lease.live

OwnsLease(w) ==
    /\ lease.token = token[w]
    /\ lease.owner = task[w]
    /\ lease.token # 0

\* requireFence: owner, token and expiry of the lease row.
Fenced(w) == OwnsLease(w) /\ lease.live

\* DELETE FROM battle_narration_leases WHERE owner_id AND fencing_token.
ReleasedLease(w) == IF OwnsLease(w) THEN NoLease ELSE lease

\* Mutant: a battle whose narration has failed goes on.
HopelessUnlessFailed ==
    \/ Cardinality(OpenReceipts) > QueueBeats
    \/ \E r \in OpenReceipts : r <= late

\* claimNarrationBatch gives everything open up: a receipt has failed, the queue is
\* too long, or a publication deadline has passed.
Hopeless ==
    \/ \E r \in Receipt : status[r] = "failed"
    \/ Cardinality(OpenReceipts) > QueueBeats
    \/ \E r \in OpenReceipts : r <= late

Generating == {r \in OpenReceipts : status[r] = "generating"}

\* The attempt that handleOutstandingBatch finds: that of the first generating entry.
OutstandingAttempt == IF Generating = {} THEN 0 ELSE active[First(Generating)]

\* ... and the deadline of its batch has passed.
BatchOverdue == OutstandingAttempt \in expired

\* AwarenessNarrationQueueNext flushes a full batch and an urgent receipt without
\* waiting for the flush window.
MustFlush == Cardinality(OpenReceipts) >= BatchReceipts \/ OpenReceipts \cap Urgent # {}

\* prepareNarrationQueue: receipts from the first on, of one scene; three in combat.
Prefix(S) ==
    LET f == First(S)
        limit == IF Scene[f] \in Combat THEN 3 ELSE 1
    IN  {r \in S : /\ r < f + limit
                   /\ \A e \in f..r : e \in S /\ Scene[e] = Scene[f]}

\* requeueInputOutbox: the delivered row is re-armed under the next generation.
Rearms(w) ==
    LET r == task[w].receipt IN
    outbox[r] = "dispatched" /\ generation[r] = task[w].generation

\* Mutant: the row is closed with a status no query knows.
FailEntriesMisspelt(S) ==
    /\ status' = [r \in Receipt |->
                    IF r \in S /\ status[r] \in Open THEN "failed" ELSE status[r]]
    /\ outbox' = [r \in Receipt |-> IF r \in S THEN "failed" ELSE outbox[r]]

\* failEntries: what is still open of S fails; all outbox rows of S are closed.
FailEntries(S) ==
    /\ status' = [r \in Receipt |->
                    IF r \in S /\ status[r] \in Open THEN "failed" ELSE status[r]]
    /\ outbox' = [r \in Receipt |-> IF r \in S THEN "completed" ELSE outbox[r]]

\* The reservation of attempt a, unless it is settled, gets this outcome.
Settle(a, outcome, occupied) ==
    IF a \in Receipt /\ reservation[a] \notin {"none", "settled"}
    THEN /\ reservation' = [reservation EXCEPT ![a] = outcome]
         /\ outstanding' = [outstanding EXCEPT ![a] = occupied]
    ELSE UNCHANGED budgetVars

\* Mutant: the deadline frees the place of a request that still runs.
CloseReservationAtDeadline(a, finished, wasSent) ==
    Settle(a, IF wasSent THEN "unknown" ELSE "settled", FALSE)

\* closeReservation: a request that was sent costs an unknown amount, and occupies its
\* place until it is known to have ended.
CloseReservation(a, finished, wasSent) ==
    Settle(a, IF wasSent THEN "unknown" ELSE "settled",
           outstanding[a] /\ ~finished /\ wasSent)

\* The invocation's locals but its task are forgotten.
Forget(w) ==
    /\ token' = [token EXCEPT ![w] = 0]
    /\ captured' = [captured EXCEPT ![w] = {}]
    /\ attempt' = [attempt EXCEPT ![w] = 0]
    /\ result' = [result EXCEPT ![w] = "none"]

\* The invocation fails (an error status) or dies: Cloud Tasks keeps the task.
Return(w) ==
    /\ pc' = [pc EXCEPT ![w] = "idle"]
    /\ task' = [task EXCEPT ![w] = NoTask]
    /\ Forget(w)

\* The invocation's last transaction has committed; it has yet to answer 200.
Succeed(w) ==
    /\ pc' = [pc EXCEPT ![w] = "answering"]
    /\ Forget(w)
    /\ UNCHANGED task

\* One more fault of this kind.
Fault(kind) ==
    /\ kind \in Faults
    /\ faults < MaxFaults
    /\ faults' = faults + 1
-----------------------------------------------------------------------------
Init ==
    /\ committed = 0
    /\ status = [r \in Receipt |-> "absent"]
    /\ active = [r \in Receipt |-> 0]
    /\ batch = [a \in Receipt |-> "none"]
    /\ members = [a \in Receipt |-> {}]
    /\ reservation = [a \in Receipt |-> "none"]
    /\ outstanding = [a \in Receipt |-> FALSE]
    /\ request = [a \in Receipt |-> "none"]
    /\ late = 0
    /\ expired = {}
    /\ lease = NoLease
    /\ outbox = [r \in Receipt |-> "absent"]
    /\ generation = [r \in Receipt |-> 0]
    /\ tasks = {}
    /\ pc = [w \in Workers |-> "idle"]
    /\ task = [w \in Workers |-> NoTask]
    /\ token = [w \in Workers |-> 0]
    /\ captured = [w \in Workers |-> {}]
    /\ attempt = [w \in Workers |-> 0]
    /\ result = [w \in Workers |-> "none"]
    /\ faults = 0

(* The battle mutation, the dispatcher and the scan, as in Narration.      *)

\* enqueueNarrationInTransaction, inside the transaction that commits a receipt.
EnqueueNarration ==
    /\ committed < N
    /\ committed' = committed + 1
    /\ status' = [status EXCEPT ![committed + 1] = "queued"]
    /\ outbox' = [outbox EXCEPT ![committed + 1] = "pending"]
    /\ UNCHANGED <<active, batchVars, budgetVars, request, timeVars, lease, generation,
                   tasks, workerVars, faults>>

\* dispatchNarrationOutbox: a pending row whose entry heads the line becomes a task.
DispatchNarration(r) ==
    /\ outbox[r] = "pending"
    /\ status[r] \in Open
    /\ HeadOfLine(r)
    /\ outbox' = [outbox EXCEPT ![r] = "dispatched"]
    /\ tasks' = tasks \cup {[receipt |-> r, generation |-> generation[r]]}
    /\ UNCHANGED <<rowVars, request, timeVars, lease, generation, workerVars, faults>>

Recoverable(r) ==
    /\ HeadOfLine(r)
    /\ status[r] = "queued" \/ (status[r] = "generating" /\ ~lease.live)

\* recoverStaleNarrationOutbox: a row dispatched five minutes ago, longer than any
\* delivery and than every publication deadline of a policy (36 s and 180 s).
RecoverStaleNarrationOutbox(r) ==
    LET t == [receipt |-> r, generation |-> generation[r]] IN
    /\ outbox[r] = "dispatched"
    /\ r <= late
    /\ Recoverable(r)
    /\ t \notin tasks
    /\ \A w \in Workers : task[w] # t
    /\ generation[r] < MaxGeneration
    /\ outbox' = [outbox EXCEPT ![r] = "pending"]
    /\ generation' = [generation EXCEPT ![r] = @ + 1]
    /\ UNCHANGED <<rowVars, request, timeVars, lease, tasks, workerVars, faults>>
-----------------------------------------------------------------------------
(* processAwarenessNarrationWorker, up to its claim.                       *)

\* Cloud Tasks delivers t, to a second worker only as a fault; a superseded delivery is
\* acknowledged, and the task is gone.
StartDelivery(w, t) ==
    /\ pc[w] = "idle"
    /\ t \in tasks
    /\ IF \A v \in Workers : task[v] # t THEN UNCHANGED faults ELSE Fault("redelivery")
    /\ IF DeliveryCurrent(t)
       THEN /\ pc' = [pc EXCEPT ![w] = "ready"]
            /\ task' = [task EXCEPT ![w] = t]
            /\ UNCHANGED tasks
       ELSE /\ tasks' = tasks \ {t}
            /\ UNCHANGED <<pc, task>>
    /\ UNCHANGED <<rowVars, request, timeVars, lease, outbox, generation, token, captured,
                   attempt, result>>

\* NARRATION_LEASE_BUSY: answered 503, the task is retried.
LeaseBusy(w) ==
    /\ pc[w] = "ready"
    /\ ~LeaseFree(w)
    /\ Return(w)
    /\ UNCHANGED <<rowVars, request, timeVars, lease, queueVars, faults>>

\* acquireFencedLease, and the reads of the claim (requireFence, the entries, the failed
\* ones, the outstanding batch); they lead to a decision, which the statements that
\* follow carry out whatever has been committed meanwhile.
Captures(w, decision) ==
    /\ pc[w] = "ready"
    /\ LeaseFree(w)
    /\ lease.token < MaxToken
    /\ lease' = [owner |-> task[w], token |-> lease.token + 1, live |-> TRUE]
    /\ token' = [token EXCEPT ![w] = lease.token + 1]
    /\ captured' = [captured EXCEPT ![w] = OpenReceipts]
    /\ attempt' = [attempt EXCEPT ![w] = OutstandingAttempt]
    /\ pc' = [pc EXCEPT ![w] = decision]
    /\ UNCHANGED <<rowVars, request, timeVars, queueVars, task, result, faults>>

\* Nothing is open, `idle'; or a batch is outstanding, or the flush window is open,
\* `deferred'.  Either releases the lease; the deferred delivery is re-armed.
CaptureNothing(w) == OpenReceipts = {} /\ Captures(w, "leaving")

CaptureHopeless(w) == OpenReceipts # {} /\ Hopeless /\ Captures(w, "failing")

CaptureOverdueBatch(w) ==
    OpenReceipts # {} /\ ~Hopeless /\ BatchOverdue /\ Captures(w, "abandoning")

CaptureBatch(w) ==
    /\ OpenReceipts # {} /\ ~Hopeless
    /\ OutstandingAttempt = 0
    /\ Captures(w, "claiming")

\* Deferrals take seconds: only so many fit before a window closes or a deadline passes.
CaptureTooEarly(w) ==
    /\ OpenReceipts # {} /\ ~Hopeless
    /\ IF OutstandingAttempt # 0 THEN ~BatchOverdue ELSE ~MustFlush
    /\ pc[w] = "ready" /\ (Rearms(w) => generation[task[w].receipt] < MaxDeferrals)
    /\ Captures(w, "deferring")

\* The claim has nothing to do but to re-arm its input and to release the lease.
Leave(w) ==
    LET r == task[w].receipt
        rearmed == pc[w] = "deferring" /\ Rearms(w)
    IN  /\ pc[w] \in {"leaving", "deferring"}
        /\ outbox' = IF rearmed THEN [outbox EXCEPT ![r] = "pending"] ELSE outbox
        /\ generation' = IF rearmed THEN [generation EXCEPT ![r] = @ + 1] ELSE generation
        /\ lease' = ReleasedLease(w)
        /\ Succeed(w)
        /\ UNCHANGED <<rowVars, request, timeVars, tasks, faults>>

\* failEntries over all that was captured; the reservation found with it is closed at an
\* unknown cost and keeps its place.
FailCaptured(w) ==
    /\ pc[w] \in {"failing", "abandoning"}
    /\ FailEntries(captured[w])
    /\ Settle(attempt[w], "unknown", attempt[w] # 0 /\ outstanding[attempt[w]])
    /\ batch' = IF pc[w] = "abandoning" THEN [batch EXCEPT ![attempt[w]] = "unknown"]
                ELSE batch
    /\ lease' = ReleasedLease(w)
    /\ Succeed(w)
    /\ UNCHANGED <<committed, active, members, request, timeVars, generation, tasks, faults>>

\* Mutant: the UPDATE of the claim does not ask for `queued'.
AnyStatus(S) == TRUE

StillQueued(S) == \A r \in S : status[r] = "queued"

\* recordClaim: the run of receipts becomes one batch of a new attempt.
RecordClaim(w) ==
    LET S == Prefix(captured[w])
        a == First(S)
    IN  /\ pc[w] = "claiming"
        /\ StillQueued(S)
        /\ status' = [r \in Receipt |-> IF r \in S THEN "generating" ELSE status[r]]
        /\ active' = [r \in Receipt |-> IF r \in S THEN a ELSE active[r]]
        /\ batch' = [batch EXCEPT ![a] = "claimed"]
        /\ members' = [members EXCEPT ![a] = S]
        /\ expired' = IF a <= late THEN expired \cup {a} ELSE expired
        /\ attempt' = [attempt EXCEPT ![w] = a]
        /\ pc' = [pc EXCEPT ![w] = "claimed"]
        /\ UNCHANGED <<committed, budgetVars, request, late, lease, queueVars, task, token,
                       captured, result, faults>>

\* NARRATION_CLAIM_CONFLICT: rolled back, answered 503.
ClaimConflict(w) ==
    /\ pc[w] = "claiming"
    /\ ~StillQueued(Prefix(captured[w]))
    /\ Return(w)
    /\ UNCHANGED <<rowVars, request, timeVars, lease, queueVars, faults>>
-----------------------------------------------------------------------------
(* dispatchNarrationBatch.                                                 *)

\* reserveNarrationAttempt: lease, batch, deadline and entries are still the attempt's,
\* and no other narration request is outstanding (concurrent: 1).
ReserveNarrationAttempt(w) ==
    LET a == attempt[w] IN
    /\ pc[w] = "claimed"
    /\ Fenced(w)
    /\ batch[a] = "claimed"
    /\ a \notin expired
    /\ {r \in Receipt : active[r] = a /\ status[r] = "generating"} = members[a]
    /\ \A b \in Receipt : ~outstanding[b]
    /\ reservation' = [reservation EXCEPT ![a] = "reserved"]
    /\ outstanding' = [outstanding EXCEPT ![a] = TRUE]
    /\ batch' = [batch EXCEPT ![a] = "generating"]
    /\ pc' = [pc EXCEPT ![w] = "reserved"]
    /\ UNCHANGED <<entryVars, members, request, timeVars, lease, queueVars, task, token,
                   captured, attempt, result, faults>>

\* The clock is read again just before the request is sent.
SendRequest(w) ==
    /\ pc[w] = "reserved"
    /\ attempt[w] \notin expired
    /\ request' = [request EXCEPT ![attempt[w]] = "running"]
    /\ pc' = [pc EXCEPT ![w] = "waiting"]
    /\ UNCHANGED <<rowVars, timeVars, lease, queueVars, task, token, captured, attempt,
                   result, faults>>

Ends(w, how, next) ==
    /\ result' = [result EXCEPT ![w] = how]
    /\ pc' = [pc EXCEPT ![w] = next]
    /\ UNCHANGED <<rowVars, request, timeVars, lease, queueVars, task, token, captured,
                   attempt, faults>>

\* Not admitted (no billing proof, no budget, or a condition of the reservation), or
\* admitted and too late to send.
DispatchFails(w) ==
    \/ pc[w] = "claimed" /\ Ends(w, "unsent", "closed")
    \/ pc[w] = "reserved" /\ attempt[w] \in expired /\ Ends(w, "unsent", "closing")

\* The provider's answer in time: narratives for the whole batch, or nothing usable.
ReceiveAnswer(w) ==
    /\ pc[w] = "waiting"
    /\ request[attempt[w]] \in {"answered", "recorded"}
    /\ \/ attempt[w] \notin expired /\ Ends(w, "narratives", "closing")
       \/ Ends(w, "rejected", "closing")

\* The deadline passes first, or the transport breaks: whether the provider has ended
\* is not known.
GiveUpWaiting(w) ==
    /\ pc[w] = "waiting"
    /\ attempt[w] \in expired \/ request[attempt[w]] = "lost"
    /\ Ends(w, "unknown", "closing")

\* closeReservation by the worker.
CloseOwnReservation(w) ==
    /\ pc[w] = "closing"
    /\ CloseReservation(attempt[w], result[w] \in {"narratives", "rejected"},
                        result[w] # "unsent")
    /\ pc' = [pc EXCEPT ![w] = "closed"]
    /\ UNCHANGED <<entryVars, batchVars, request, timeVars, lease, queueVars, task, token,
                   captured, attempt, result, faults>>

\* The physical request ends with an answer, or nobody will know how, whether its worker
\* still waits for it or not.
RequestEnds(a) ==
    /\ request[a] = "running"
    /\ \E end \in {"answered", "lost"} : request' = [request EXCEPT ![a] = end]
    /\ UNCHANGED <<rowVars, timeVars, lease, queueVars, workerVars, faults>>

\* observeLateNarrationCompletion: its answer closes the reservation, and does no more.
ObserveLateCompletion(a) ==
    /\ request[a] = "answered"
    /\ request' = [request EXCEPT ![a] = "recorded"]
    /\ CloseReservation(a, TRUE, TRUE)
    /\ UNCHANGED <<entryVars, batchVars, timeVars, lease, queueVars, workerVars, faults>>
-----------------------------------------------------------------------------
(* publishNarrationBatch: one transaction, its first reads a step of their own. *)

\* requireFence; a worker that was overtaken writes nothing and answers `acknowledged'.
CheckFence(w) ==
    /\ pc[w] = "closed"
    /\ IF Fenced(w)
       THEN pc' = [pc EXCEPT ![w] = "fenced"]
            /\ UNCHANGED <<task, token, captured, attempt, result>>
       ELSE Succeed(w)
    /\ UNCHANGED <<rowVars, request, timeVars, lease, queueVars, faults>>

\* The entry UPDATEs of a batch name its attempt and `generating'.
StillGenerating(a) ==
    \A r \in members[a] : status[r] = "generating" /\ active[r] = a

\* publishClaimedEntries: entries, presentations, events and outbox rows of the batch.
PublishBatch(w) ==
    LET a == attempt[w]
        input == task[w].receipt
        rearmed == input \notin members[a] /\ Rearms(w)
    IN  /\ pc[w] = "fenced"
        /\ result[w] = "narratives"
        /\ StillGenerating(a)
        /\ status' = [r \in Receipt |-> IF r \in members[a] THEN "completed" ELSE status[r]]
        /\ active' = [r \in Receipt |-> IF r \in members[a] THEN 0 ELSE active[r]]
        /\ batch' = [batch EXCEPT ![a] = "completed"]
        /\ outbox' = [r \in Receipt |-> CASE r \in members[a] -> "completed"
                                          [] r = input /\ rearmed -> "pending"
                                          [] OTHER -> outbox[r]]
        /\ generation' = IF rearmed THEN [generation EXCEPT ![input] = @ + 1] ELSE generation
        /\ lease' = ReleasedLease(w)
        /\ Succeed(w)
        /\ UNCHANGED <<committed, members, budgetVars, request, timeVars, tasks, faults>>

\* NARRATION_STALE_ATTEMPT: the whole transaction is rolled back.
StaleAttempt(w) ==
    /\ pc[w] = "fenced"
    /\ result[w] = "narratives"
    /\ ~StillGenerating(attempt[w])
    /\ Return(w)
    /\ UNCHANGED <<rowVars, request, timeVars, lease, queueVars, faults>>

\* failClaimedBatch.  The entries were read before their claim, without an attempt, so
\* that its failEntries finds no reservation to close.
FailBatch(w) ==
    LET a == attempt[w] IN
    /\ pc[w] = "fenced"
    /\ result[w] # "narratives"
    /\ FailEntries(members[a])
    /\ batch' = [batch EXCEPT ![a] = IF result[w] = "unknown" THEN "unknown" ELSE "failed"]
    /\ lease' = ReleasedLease(w)
    /\ Succeed(w)
    /\ UNCHANGED <<committed, active, members, budgetVars, request, timeVars, generation,
                   tasks, faults>>

\* The answer 200 reaches Cloud Tasks, and the task is gone.
Answer(w) ==
    /\ pc[w] = "answering"
    /\ tasks' = tasks \ {task[w]}
    /\ Return(w)
    /\ UNCHANGED <<rowVars, request, timeVars, lease, outbox, generation, faults>>
-----------------------------------------------------------------------------
(* Time and faults.                                                        *)

\* Of the open receipts; no batch outlives the publication deadline of a receipt in it.
PublicationDeadlinePasses ==
    /\ OpenReceipts # {}
    /\ late < First(OpenReceipts)
    /\ late' = First(OpenReceipts)
    /\ expired' = expired \cup {a \in Receipt : members[a] \cap 1..late' # {}}
    /\ UNCHANGED <<rowVars, request, lease, queueVars, workerVars, faults>>

BatchDeadlinePasses(a) ==
    /\ batch[a] \in {"claimed", "generating"}
    /\ a \notin expired
    /\ expired' = expired \cup {a}
    /\ UNCHANGED <<rowVars, request, late, lease, queueVars, workerVars, faults>>

\* expires_at passes: the lease is five seconds longer than the deadline of a batch, so
\* only that of a worker that is gone, or that stalls.
LeaseExpires ==
    /\ lease.token # 0
    /\ lease.live
    /\ IF \A w \in Workers : ~OwnsLease(w) THEN UNCHANGED faults ELSE Fault("overrun")
    /\ lease' = [lease EXCEPT !.live = FALSE]
    /\ UNCHANGED <<rowVars, request, timeVars, queueVars, workerVars>>

\* The worker's process dies between two transactions, and with it whoever would learn
\* how its request ends.
Crash(w) ==
    /\ pc[w] # "idle"
    /\ Fault("crash")
    /\ request' = [a \in Receipt |->
                     IF /\ a = attempt[w]
                        /\ pc[w] \in {"waiting", "closing", "closed", "fenced"}
                        /\ request[a] \in {"running", "answered"}
                     THEN "lost" ELSE request[a]]
    /\ Return(w)
    /\ UNCHANGED <<rowVars, timeVars, lease, queueVars>>

LoseTask(t) ==
    /\ t \in tasks
    /\ Fault("loss")
    /\ tasks' = tasks \ {t}
    /\ UNCHANGED <<rowVars, request, timeVars, lease, outbox, generation, workerVars>>

\* Nothing is left to do (so that TLC reports a stuck pipeline as a deadlock).
Finished ==
    /\ committed = N
    /\ OpenReceipts = {}
    /\ tasks = {}
    /\ \A w \in Workers : pc[w] = "idle"
    /\ UNCHANGED vars
-----------------------------------------------------------------------------
WorkerStep(w) ==
    \/ LeaseBusy(w)
    \/ CaptureNothing(w) \/ CaptureHopeless(w) \/ CaptureOverdueBatch(w)
    \/ CaptureBatch(w) \/ CaptureTooEarly(w)
    \/ Leave(w) \/ FailCaptured(w) \/ RecordClaim(w) \/ ClaimConflict(w)
    \/ ReserveNarrationAttempt(w) \/ SendRequest(w) \/ DispatchFails(w)
    \/ ReceiveAnswer(w) \/ GiveUpWaiting(w) \/ CloseOwnReservation(w)
    \/ CheckFence(w) \/ PublishBatch(w) \/ StaleAttempt(w) \/ FailBatch(w)
    \/ Answer(w)

Next ==
    \/ EnqueueNarration
    \/ \E r \in Receipt : DispatchNarration(r) \/ RecoverStaleNarrationOutbox(r)
    \/ \E w \in Workers, t \in Task : StartDelivery(w, t)
    \/ \E w \in Workers : WorkerStep(w) \/ Crash(w)
    \/ \E a \in Receipt :
          RequestEnds(a) \/ ObserveLateCompletion(a) \/ BatchDeadlinePasses(a)
    \/ \E t \in Task : LoseTask(t)
    \/ PublicationDeadlinePasses \/ LeaseExpires
    \/ Finished

Spec == Init /\ [][Next]_vars

\* As in Narration; and deadlines pass.  Nothing is assumed of the provider.
Fairness ==
    /\ \A r \in Receipt :
          /\ WF_vars(DispatchNarration(r))
          /\ WF_vars(RecoverStaleNarrationOutbox(r))
          /\ WF_vars(BatchDeadlinePasses(r))
    /\ \A t \in Task : WF_vars(UNCHANGED faults /\ \E w \in Workers : StartDelivery(w, t))
    /\ \A w \in Workers : WF_vars(WorkerStep(w))
    /\ WF_vars(UNCHANGED faults /\ LeaseExpires)
    /\ WF_vars(PublicationDeadlinePasses)

FairSpec == Spec /\ Fairness
-----------------------------------------------------------------------------
RowsTypeOK ==
    /\ committed \in 0..N
    /\ status \in [Receipt -> {"absent"} \cup Open \cup Terminal]
    /\ active \in [Receipt -> 0..N]
    /\ batch \in [Receipt -> {"none", "claimed", "generating", "completed", "failed",
                              "unknown"}]
    /\ members \in [Receipt -> SUBSET Receipt]
    /\ reservation \in [Receipt -> {"none", "reserved", "unknown", "settled"}]
    /\ outstanding \in [Receipt -> BOOLEAN]
    /\ lease \in LeaseRow

QueueTypeOK ==
    /\ outbox \in [Receipt -> {"absent", "pending", "dispatched", "completed"}]
    /\ generation \in [Receipt -> 0..MaxGeneration]
    /\ tasks \subseteq Task

WorkerTypeOK ==
    /\ pc \in [Workers -> {"idle", "ready", "leaving", "deferring", "failing",
                           "abandoning", "claiming", "claimed", "reserved", "waiting",
                           "closing", "closed", "fenced", "answering"}]
    /\ task \in [Workers -> Task \cup {NoTask}]
    /\ token \in [Workers -> 0..MaxToken]
    /\ captured \in [Workers -> SUBSET Receipt]
    /\ attempt \in [Workers -> 0..N]
    /\ result \in [Workers -> {"none", "narratives", "rejected", "unsent", "unknown"}]

EnvironmentTypeOK ==
    /\ request \in [Receipt -> {"none", "running", "answered", "recorded", "lost"}]
    /\ late \in 0..N
    /\ expired \subseteq Receipt
    /\ faults \in 0..MaxFaults

\* The rows, the queue, the locals of the workers and the provider are well formed.
TypeOK == RowsTypeOK /\ QueueTypeOK /\ WorkerTypeOK /\ EnvironmentTypeOK

\* A reader never finds a hole in the story: before a receipt that has its text, every
\* receipt has one.  The failures of a batch are committed by one worker, while another
\* may have captured the receipts that follow (awareness-narration-worker-claim.ts:89,
\* awareness-narration-worker-publication.ts:45-49).
NoGapInStory ==
    \A e, r \in Receipt : e < r /\ status[r] = "completed" => status[e] = "completed"

\* The battle's budget is true to the provider: a request that runs occupies its place,
\* even when its worker has given it up or another worker has failed its receipts; one
\* whose end was recorded occupies none; and only a request that was never sent is
\* booked at no cost (awareness-narration-worker-dispatch.ts:39-45, 88,
\* awareness-narration-worker-lifecycle.ts:14-21, 44-53).
BudgetTrueToProvider ==
    \A a \in Receipt :
        /\ request[a] = "running" => outstanding[a]
        /\ request[a] = "recorded" => ~outstanding[a]
        /\ reservation[a] = "settled" => request[a] = "none"
=============================================================================
