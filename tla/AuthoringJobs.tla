---------------------------- MODULE AuthoringJobs ----------------------------
(***************************************************************************)
(* The authoring job queue of the environment                              *)
(* (backend/src/repositories/family-authoring-jobs.ts) and what carries    *)
(* work to it: the outbox and its dispatcher                               *)
(* (services/authoring-task-dispatch.ts), Cloud Tasks, and the worker's    *)
(* admission (services/character-authoring-jobs.ts).                       *)
(*                                                                         *)
(* One job row and one outbox row per authoring attempt, whatever its      *)
(* family; a claim takes the scheduler's row lock, so it is one step.      *)
(* Time is abstracted to whether the lease of a claimed row still runs.    *)
(* What a worker does between its claim and its end belongs to             *)
(* AssetAuthoring, which composes the two.                                 *)
(***************************************************************************)
EXTENDS Naturals, FiniteSets

CONSTANTS
    Attempts,        \* authoring attempts 1..n, in the order of their created_at
    Assets,          \* the assets they are about
    NoAsset,
    Workers,         \* task handlers that may run at a time
    Cap,             \* jobs that may be claimed at a time, over all families
    QueueConfigured, \* whether the Cloud Tasks queue is configured
    DeliveryLimit,   \* delivery_generation of an outbox row (bound)
    MaxFaults        \* bounded faults in a behaviour

ASSUME JobsAssumption ==
    /\ IsFiniteSet(Attempts) /\ Attempts = 1..Cardinality(Attempts)
    /\ NoAsset \notin Assets
    /\ Cap \in Nat \ {0}
    /\ QueueConfigured \in BOOLEAN
    /\ DeliveryLimit \in Nat
    /\ MaxFaults \in Nat

NoAttempt == 0
Deliveries == 0..DeliveryLimit

VARIABLES
    job,             \* the <family>_authoring_jobs row of each attempt
    outbox,          \* the asset_authoring_outbox row of each attempt
    tasks,           \* Cloud Tasks, by attempt and generation: unnamed, queued or gone
    posted,          \* outbox rows a dispatcher enqueued and has not marked yet
    worker,          \* each handler: where it is, its delivery, the fence it claimed
    faults           \* bounded faults so far

jobVars == <<job, outbox, tasks, posted, worker, faults>>

NoJob == [status |-> "none", asset |-> NoAsset, live |-> FALSE, fence |-> 0]

NoOutbox == [status |-> "none", gen |-> 0]

IdleWorker == [at |-> "idle", attempt |-> NoAttempt, gen |-> 0, fence |-> 0]

\* The stages of a handler that holds a claim.
RunStages == {"claimed", "starting", "generating", "saved", "failing", "cancelling"}

Stages == {"idle", "arrived", "recovering", "claiming", "closing", "deferring",
           "answering"} \cup RunStages

JobsTypeOK ==
    /\ job \in [Attempts -> [status : {"none", "pending", "claimed", "completed", "cancelled"},
                             asset : Assets \cup {NoAsset}, live : BOOLEAN, fence : Nat]]
    /\ outbox \in [Attempts -> [status : {"none", "pending", "dispatched", "completed"},
                                gen : Deliveries]]
    /\ tasks \in [Attempts -> [Deliveries -> {"unnamed", "queued", "gone"}]]
    /\ posted \subseteq Attempts
    /\ worker \in [Workers -> [at : Stages, attempt : Attempts \cup {NoAttempt},
                               gen : Deliveries, fence : Nat]]
    /\ faults \in 0..MaxFaults

JobsInit ==
    /\ job = [a \in Attempts |-> NoJob]
    /\ outbox = [a \in Attempts |-> NoOutbox]
    /\ tasks = [a \in Attempts |-> [g \in Deliveries |-> "unnamed"]]
    /\ posted = {}
    /\ worker = [w \in Workers |-> IdleWorker]
    /\ faults = 0

Fault == faults < MaxFaults /\ faults' = faults + 1
-----------------------------------------------------------------------------
(* The rows, as the statements that read them see them.                    *)

Open(a) == job[a].status \in {"pending", "claimed"}

Claimed == {a \in Attempts : job[a].status = "claimed"}

\* Mutant: the claim looks at the cap alone.
SiblingIgnored(a) == FALSE

\* Another job of this asset is claimed.
SiblingClaimed(a) == \E b \in Claimed : job[b].asset = job[a].asset

\* The lease of a claimed row has run out.
Lapsed(a) == job[a].status = "claimed" /\ ~job[a].live

\* Mutant: a claim is recognised without its fence.
HoldsSomeClaim(w) == LET row == job[worker[w].attempt] IN row.status = "claimed" /\ row.live

\* assertFamilyAuthoringFence: the row is claimed under this fence and the lease runs.
Holds(w) ==
    LET row == job[worker[w].attempt]
    IN row.status = "claimed" /\ row.live /\ row.fence = worker[w].fence

Goto(w, stage) == worker' = [worker EXCEPT ![w].at = stage]

\* A handler that found its fence stale: Cloud Tasks gets a 503 after the deferral, a
\* woken worker only logs the error.
StaleFence(w) ==
    /\ ~Holds(w)
    /\ worker' = [worker EXCEPT ![w] = IF QueueConfigured THEN [@ EXCEPT !.at = "deferring"]
                                       ELSE IdleWorker]
-----------------------------------------------------------------------------
(* What the transactions of an attempt do to its job and outbox rows.      *)

InsertFamilyAuthoringJob(a, asset) ==
    /\ job' = [job EXCEPT ![a] = [NoJob EXCEPT !.status = "pending", !.asset = asset]]
    /\ outbox' = [outbox EXCEPT ![a] = [status |-> "pending", gen |-> 0]]

\* A job that is not closed is left as it is; the delivery is always rearmed.
ReopenFamilyAuthoringJob(a) ==
    /\ outbox[a].gen < DeliveryLimit
    /\ job' = IF Open(a) THEN job ELSE [job EXCEPT ![a].status = "pending", ![a].live = FALSE]
    /\ outbox' = [outbox EXCEPT ![a] = [status |-> "pending", gen |-> @.gen + 1]]

FinishFamilyAuthoringJob(a, status) ==
    /\ job' = IF Open(a) THEN [job EXCEPT ![a].status = status, ![a].live = FALSE] ELSE job
    /\ outbox' = [outbox EXCEPT ![a].status = "completed"]
-----------------------------------------------------------------------------
(* The outbox: dispatchAuthoringOutbox reads a pending row, enqueues the   *)
(* task of its generation and marks the row in a statement of its own.     *)
(* Cloud Tasks answers 409 to a name it knows, which counts as success.    *)

EnqueueAuthoringTask(a) ==
    /\ QueueConfigured
    /\ outbox[a].status = "pending"
    /\ a \notin posted
    /\ tasks' = [tasks EXCEPT ![a][outbox[a].gen] = IF @ = "unnamed" THEN "queued" ELSE @]
    /\ posted' = posted \cup {a}
    /\ UNCHANGED <<job, outbox, worker, faults>>

MarkDispatched(a) ==
    /\ a \in posted
    /\ posted' = posted \ {a}
    /\ outbox' = IF outbox[a].status = "pending" THEN [outbox EXCEPT ![a].status = "dispatched"]
                 ELSE outbox
    /\ UNCHANGED <<job, tasks, worker, faults>>

DispatcherDies(a) ==
    /\ a \in posted
    /\ Fault
    /\ posted' = posted \ {a}
    /\ UNCHANGED <<job, outbox, tasks, worker>>

\* Mutant: a stale row is sent again under the generation it had.
RecoverSameGeneration(a) ==
    /\ QueueConfigured
    /\ outbox[a].status = "dispatched"
    /\ job[a].status = "pending" \/ Lapsed(a)
    /\ IF tasks[a][outbox[a].gen] = "queued" THEN Fault ELSE UNCHANGED faults
    /\ outbox' = [outbox EXCEPT ![a].status = "pending"]
    /\ UNCHANGED <<job, tasks, posted, worker>>

\* recoverStaleAuthoringOutbox: a row dispatched long ago whose job no live lease covers.
\* That the task itself is still queued is slowness of the queue, a fault here.
RecoverStaleAuthoringOutbox(a) ==
    /\ QueueConfigured
    /\ outbox[a].status = "dispatched"
    /\ job[a].status = "pending" \/ Lapsed(a)
    /\ outbox[a].gen < DeliveryLimit
    /\ IF tasks[a][outbox[a].gen] = "queued" THEN Fault ELSE UNCHANGED faults
    /\ outbox' = [outbox EXCEPT ![a] = [status |-> "pending", gen |-> @.gen + 1]]
    /\ UNCHANGED <<job, tasks, posted, worker>>

\* Cloud Tasks gives a task up after its last retry.
DropTask(a, g) ==
    /\ tasks[a][g] = "queued"
    /\ Fault
    /\ tasks' = [tasks EXCEPT ![a][g] = "gone"]
    /\ UNCHANGED <<job, outbox, posted, worker>>
-----------------------------------------------------------------------------
(* A handler up to its claim: processAuthoringTask, or a worker woken      *)
(* where no queue is configured.                                           *)

Handled(a, g) == \E v \in Workers : worker[v].at # "idle" /\ worker[v].attempt = a /\ worker[v].gen = g

\* At-least-once delivery: the task stays queued until it is answered with success, and
\* a second delivery of one being handled is a fault.
Deliver(w, a, g) ==
    /\ worker[w].at = "idle"
    /\ tasks[a][g] = "queued"
    /\ IF Handled(a, g) THEN Fault ELSE UNCHANGED faults
    /\ worker' = [worker EXCEPT ![w] = [at |-> "arrived", attempt |-> a, gen |-> g, fence |-> 0]]
    /\ UNCHANGED <<job, outbox, tasks, posted>>

\* getAuthoringOutboxDelivery.
InspectOutbox(w) ==
    LET a == worker[w].attempt IN
    /\ worker[w].at = "arrived"
    /\ Goto(w, IF outbox[a].status \in {"none", "completed"} \/ outbox[a].gen # worker[w].gen
               THEN "answering" ELSE "recovering")
    /\ UNCHANGED <<job, outbox, tasks, posted, faults>>

WakeAuthoringJobs(w) ==
    /\ ~QueueConfigured
    /\ worker[w].at = "idle"
    /\ Goto(w, "recovering")
    /\ UNCHANGED <<job, outbox, tasks, posted, faults>>

\* Mutant: expired claims are left to their workers.
RecoverNothing(w) ==
    /\ worker[w].at = "recovering"
    /\ Goto(w, "claiming")
    /\ UNCHANGED <<job, outbox, tasks, posted, faults>>

\* Statements of their own, before the claim's transaction and outside its lock.
RecoverExpiredFamilyAuthoringJobs(w) ==
    /\ worker[w].at = "recovering"
    /\ job' = [a \in Attempts |-> IF Lapsed(a) THEN [job[a] EXCEPT !.status = "pending"] ELSE job[a]]
    /\ Goto(w, "claiming")
    /\ UNCHANGED <<outbox, tasks, posted, faults>>

TakeClaim(w, a) ==
    /\ job' = [job EXCEPT ![a].status = "claimed", ![a].live = TRUE, ![a].fence = @ + 1]
    /\ worker' = [worker EXCEPT ![w].at = "claimed", ![w].attempt = a, ![w].fence = job[a].fence + 1]

\* claimFamilyAuthoringJob: terminal, busy, or a claim under a new fence.
ClaimFamilyAuthoringJob(w) ==
    LET a == worker[w].attempt
        free == job[a].status = "pending" /\ Cardinality(Claimed) < Cap /\ ~SiblingClaimed(a)
    IN
    /\ QueueConfigured
    /\ worker[w].at = "claiming"
    /\ \/ ~Open(a) /\ Goto(w, "closing") /\ UNCHANGED job
       \/ Open(a) /\ ~free /\ Goto(w, "deferring") /\ UNCHANGED job
       \/ free /\ TakeClaim(w, a)
    /\ UNCHANGED <<outbox, tasks, posted, faults>>

\* claimNextFamilyAuthoringJob: the oldest pending job whose asset has none claimed.
ClaimNextFamilyAuthoringJob(w) ==
    LET free == {a \in Attempts : job[a].status = "pending" /\ ~SiblingClaimed(a)}
    IN
    /\ ~QueueConfigured
    /\ worker[w].at = "claiming"
    /\ IF free = {} \/ Cardinality(Claimed) >= Cap
       THEN worker' = [worker EXCEPT ![w] = IdleWorker] /\ UNCHANGED job
       ELSE TakeClaim(w, CHOOSE a \in free : \A b \in free : a <= b)
    /\ UNCHANGED <<outbox, tasks, posted, faults>>

\* A terminal job: the delivery of this generation is completed.
CompleteAuthoringOutboxDelivery(w) ==
    LET a == worker[w].attempt IN
    /\ worker[w].at = "closing"
    /\ outbox' = IF outbox[a].gen = worker[w].gen THEN [outbox EXCEPT ![a].status = "completed"]
                 ELSE outbox
    /\ Goto(w, "answering")
    /\ UNCHANGED <<job, tasks, posted, faults>>

\* A busy job or a stale fence: the dispatched delivery becomes pending again and the
\* answer is 503, so that the task stays queued.
DeferAuthoringOutboxDelivery(w) ==
    LET a == worker[w].attempt IN
    /\ worker[w].at = "deferring"
    /\ outbox' = IF outbox[a] = [status |-> "dispatched", gen |-> worker[w].gen]
                 THEN [outbox EXCEPT ![a].status = "pending"] ELSE outbox
    /\ worker' = [worker EXCEPT ![w] = IdleWorker]
    /\ UNCHANGED <<job, tasks, posted, faults>>

\* The answer 200, upon which Cloud Tasks forgets the task but not its name.
Answer(w) ==
    /\ worker[w].at = "answering"
    /\ tasks' = IF QueueConfigured THEN [tasks EXCEPT ![worker[w].attempt][worker[w].gen] = "gone"]
                ELSE tasks
    /\ worker' = [worker EXCEPT ![w] = IdleWorker]
    /\ UNCHANGED <<job, outbox, posted, faults>>
-----------------------------------------------------------------------------
(* Leases and lost processes.                                              *)

\* A handler still runs under the fence of the row.
Attended(a) == \E w \in Workers : worker[w].at \in RunStages /\ worker[w].attempt = a
                                  /\ worker[w].fence = job[a].fence

\* claimed_until passes.  The heartbeat of a running handler renews a lease in time, so
\* that its lapse under one is a fault; a renewal never revives a lapsed lease.
LeaseLapses(a) ==
    /\ job[a].status = "claimed" /\ job[a].live
    /\ IF Attended(a) THEN Fault ELSE UNCHANGED faults
    /\ job' = [job EXCEPT ![a].live = FALSE]
    /\ UNCHANGED <<outbox, tasks, posted, worker>>

WorkerDies(w) ==
    /\ worker[w].at # "idle"
    /\ Fault
    /\ worker' = [worker EXCEPT ![w] = IdleWorker]
    /\ UNCHANGED <<job, outbox, tasks, posted>>

Dispatch(a) == EnqueueAuthoringTask(a) \/ MarkDispatched(a) \/ RecoverStaleAuthoringOutbox(a)

Admit(w) ==
    \/ InspectOutbox(w) \/ RecoverExpiredFamilyAuthoringJobs(w)
    \/ ClaimFamilyAuthoringJob(w) \/ ClaimNextFamilyAuthoringJob(w)
    \/ CompleteAuthoringOutboxDelivery(w) \/ DeferAuthoringOutboxDelivery(w) \/ Answer(w)

JobsNext ==
    \/ \E a \in Attempts : Dispatch(a) \/ DispatcherDies(a) \/ LeaseLapses(a)
    \/ \E a \in Attempts, g \in Deliveries : DropTask(a, g)
    \/ \E w \in Workers, a \in Attempts, g \in Deliveries : Deliver(w, a, g)
    \/ \E w \in Workers : Admit(w) \/ WakeAuthoringJobs(w) \/ WorkerDies(w)
=============================================================================
