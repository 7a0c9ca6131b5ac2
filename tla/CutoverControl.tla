--------------------------- MODULE CutoverControl ---------------------------
(***************************************************************************)
(* The shared cutover control and the operation permits it fences:         *)
(* repositories/cutover-control.ts, the runtime that asks for a permit     *)
(* before every side effect (services/cutover-admission.ts,                *)
(* cutover-http-response.ts and llm/provider-accounting.ts), and the       *)
(* operator's commands (scripts/cutover-control.ts).                       *)
(*                                                                         *)
(* Every repository operation locks the active pointer first and is one    *)
(* transaction, so it is one step here.  Everything between two of them    *)
(* interleaves: a process reads the control, reserves, starts, works and   *)
(* settles in transactions of their own, and the barrier command reads the *)
(* accounting in a statement before its transaction.                       *)
(*                                                                         *)
(* A command repeated under its operation id returns the row it made and   *)
(* writes nothing: it is a stuttering step.  So are a command whose        *)
(* expected revision is no longer the current one and a refused command.   *)
(***************************************************************************)
EXTENDS Naturals, FiniteSets, Sequences

CONSTANTS
    Attempts,             \* reservation attempts: one run of one operation
    Candidates,           \* the owner's two authoring attempts to confirm
    TaskRequests,         \* the tasks the trial is bound to
    ProviderRequests,     \* the provider calls the trial is bound to
    Deliveries,           \* task deliveries: an outbox row and a generation
    Jobs,                 \* authoring jobs that an operation may leave pending
    MaximumReservations,  \* the quota of a trial request
    LastRevision          \* bound: the control stops at this revision

ASSUME CutoverAssumption ==
    /\ MaximumReservations \in Nat \ {0}
    /\ LastRevision \in Nat \ {0}

VARIABLES
    revisions,   \* cutover_control_revisions; the active one is the last
    confirmed,   \* candidates whose confirmation made a current generation
    permit,      \* cutover_operation_permits, by reservation attempt
    runner,      \* where the process of each attempt is
    call,        \* what each attempt asks for, and the revision it read
    jobs,        \* unfinished authoring jobs
    accounting,  \* provider_operation_attempts, by attempt
    returned,    \* history: attempts whose operation ended in a known way
    barrier      \* the barrier command: the revision it expects, or 0

control == <<revisions, confirmed, barrier>>
process == <<runner, call, jobs, accounting, returned>>
vars == <<control, permit, process>>

Phases == {"closed", "trial", "open"}
Kinds == {"http", "task", "provider"}
SentBlocking == {"sending", "result-accounting-pending", "indeterminate"}
Active == SentBlocking \cup {"reserved-not-sent"}
PermitStates == Active \cup {"none", "settled", "cancelled-before-send"}

Requests == TaskRequests \cup ProviderRequests

(* A request of the open phase takes an id of its own: the attempt. *)
Bindings == Candidates \cup Requests \cup Deliveries \cup Attempts

Current == Len(revisions)
Phase == revisions[Current].phase
Barriered == revisions[Current].receipt

Init ==
    /\ revisions = <<[phase |-> "closed", receipt |-> FALSE,
                      mode |-> "snapshot-eligible"]>>
    /\ confirmed = {}
    /\ permit = [a \in Attempts |-> [state |-> "none", revision |-> 0,
                                    reconciled |-> FALSE]]
    /\ runner = [a \in Attempts |-> "idle"]
    /\ call = [a \in Attempts |->
                 [binding |-> a, kind |-> "http", revision |-> 0]]
    /\ jobs = {}
    /\ accounting = [a \in Attempts |-> "none"]
    /\ returned = {}
    /\ barrier = 0

-----------------------------------------------------------------------------
(* The operator's commands. *)

(* A slip the type invariant is to find: a state the table does not have. *)
CancelMisspelt ==
    permit' = [a \in Attempts |->
                 IF permit[a].state = "reserved-not-sent"
                 THEN [permit[a] EXCEPT !.state = "cancelled"]
                 ELSE permit[a]]

(* Both the closing transition and the barrier cancel what was not sent. *)
CancelReserved ==
    permit' = [a \in Attempts |->
                 IF permit[a].state = "reserved-not-sent"
                 THEN [permit[a] EXCEPT !.state = "cancelled-before-send"]
                 ELSE permit[a]]

NextMode(phase) ==
    IF phase = "trial" \/ revisions[Current].mode = "forward-only"
    THEN "forward-only" ELSE "snapshot-eligible"

AppendRevision(phase) ==
    /\ Current < LastRevision
    /\ revisions' = Append(revisions, [phase |-> phase, receipt |-> FALSE,
                                       mode |-> NextMode(Phase)])

CloseControl ==
    /\ UNCHANGED <<confirmed, barrier, process>>
    /\ Phase # "closed"
    /\ AppendRevision("closed")
    /\ CancelReserved

(* A confirmation counts once its permit is settled and its generation is
   the current one; a permit settles on a refused confirmation as well. *)
ConfirmationVerified(c) ==
    /\ c \in confirmed
    /\ \E a \in Attempts :
          call[a].binding = c /\ permit[a].state = "settled"

(* A slip: what was reserved and not sent is not counted. *)
NothingSentForTrial ==
    \A a \in Attempts : permit[a].state \notin SentBlocking

QuietForTrial == \A a \in Attempts : permit[a].state \notin Active

OpenTrial ==
    /\ UNCHANGED <<confirmed, barrier, permit, process>>
    /\ Phase = "closed" /\ Barriered
    /\ QuietForTrial
    /\ \A c \in Candidates : ConfirmationVerified(c)
    /\ AppendRevision("trial")

OpenPublic ==
    /\ UNCHANGED <<confirmed, barrier, permit, process>>
    /\ Phase = "trial"
    /\ AppendRevision("open")

Unresolved ==
    jobs # {} \/ \E a \in Attempts : accounting[a] = "reserved"

(* The barrier command of the script: the accounting is read first, in a
   statement of its own, and only then the repository is called. *)
BarrierAccounting ==
    /\ UNCHANGED <<revisions, confirmed, permit, process>>
    /\ barrier = 0 /\ Phase = "closed"
    /\ ~Unresolved
    /\ barrier' = Current

(* A slip: a result that is still to be accounted for is not counted. *)
BlockedBySending ==
    \E a \in Attempts : permit[a].state \in {"sending", "indeterminate"}

Blocked == \E a \in Attempts : permit[a].state \in SentBlocking

RecordBarrier ==
    /\ UNCHANGED <<confirmed, process>>
    /\ barrier # 0 /\ barrier' = 0
    /\ Phase = "closed" /\ Current = barrier /\ ~Blocked
    /\ Current < LastRevision
    /\ CancelReserved
    /\ revisions' = Append(revisions, [phase |-> "closed", receipt |-> TRUE,
                                       mode |-> revisions[Current].mode])

RefuseBarrier ==
    /\ UNCHANGED <<revisions, confirmed, permit, process>>
    /\ barrier # 0 /\ barrier' = 0
    /\ Phase # "closed" \/ Current # barrier \/ Blocked

Reconcile(a) ==
    /\ UNCHANGED <<control, process>>
    /\ permit[a].state = "indeterminate"
    /\ permit' = [permit EXCEPT ![a].state = "settled",
                                ![a].reconciled = TRUE]

-----------------------------------------------------------------------------
(* The runtime: beginCutoverOperation. *)

Shapes ==
    [binding : Candidates, kind : {"http"}]
    \cup [binding : TaskRequests \cup Deliveries, kind : {"task"}]
    \cup [binding : ProviderRequests, kind : {"provider"}]

(* The caller reads the control and names the operation.  The phase that
   made it choose the shape may have been read earlier still, so any shape
   meets any revision. *)
ReadControl(a) ==
    /\ UNCHANGED <<control, permit, jobs, accounting, returned>>
    /\ runner[a] = "idle"
    /\ runner' = [runner EXCEPT ![a] = "read"]
    /\ \E shape \in Shapes
                 \cup [binding : {a}, kind : {"http", "provider"}] :
          call' = [call EXCEPT ![a] = [binding |-> shape.binding,
                                       kind |-> shape.kind,
                                       revision |-> Current]]

(* reserveAdmission: what each phase lets in. *)
Admitted(a) ==
    CASE Phase = "closed" -> call[a].binding \in Candidates
      [] Phase = "trial" -> call[a].binding \in Requests
      [] Phase = "open" -> TRUE

SameBinding(a) == {b \in Attempts \ {a} : permit[b].state # "none"
                                /\ call[b].binding = call[a].binding}

(* A slip: an unknown outcome counts as an end. *)
AlreadySending(a) ==
    \E b \in SameBinding(a) :
        permit[b].state \in Active \ {"indeterminate"}

AlreadyActive(a) ==
    \E b \in SameBinding(a) : permit[b].state \in Active

(* A slip: the quota counts only what is under way. *)
QuotaOfActive(a) ==
    Phase = "trial" =>
        Cardinality({b \in SameBinding(a) : permit[b].state \in Active})
          < MaximumReservations

(* The quota counts every permit of the binding that was not cancelled. *)
QuotaLeft(a) ==
    Phase = "trial" =>
        Cardinality({b \in SameBinding(a) :
                        permit[b].state # "cancelled-before-send"})
          < MaximumReservations

Reservable(a) ==
    /\ call[a].revision = Current
    /\ Admitted(a) /\ ~AlreadyActive(a) /\ QuotaLeft(a)

Reserve(a) ==
    /\ UNCHANGED <<control, call, jobs, accounting, returned>>
    /\ runner[a] = "read"
    /\ IF Reservable(a)
       THEN /\ permit' = [permit EXCEPT ![a] =
                            [state |-> "reserved-not-sent",
                             revision |-> Current, reconciled |-> FALSE]]
            /\ runner' = [runner EXCEPT ![a] = "reserved"]
       ELSE /\ runner' = [runner EXCEPT ![a] = "gone"]
            /\ UNCHANGED permit

(* A slip: only a repeated start is looked for. *)
StartNotRepeated(a) == permit[a].state # "sending"

StartAllowed(a) ==
    /\ permit[a].state = "reserved-not-sent"
    /\ Phase = "closed" => permit[a].revision = Current

Start(a) ==
    /\ UNCHANGED <<control, call, jobs, accounting, returned>>
    /\ runner[a] = "reserved"
    /\ IF StartAllowed(a)
       THEN /\ permit' = [permit EXCEPT ![a].state = "sending"]
            /\ runner' = [runner EXCEPT ![a] = "running"]
       ELSE /\ runner' = [runner EXCEPT ![a] = "gone"]
            /\ UNCHANGED permit

-----------------------------------------------------------------------------
(* The runtime: the operation and its settlement. *)

(* settleCutoverOperation: only a sent permit, and a pending one only to
   settled; anything else throws and changes nothing. *)
Settles(a, outcome) ==
    \/ permit[a].state = "sending"
    \/ permit[a].state = "result-accounting-pending" /\ outcome = "settled"

Settle(a, outcome) ==
    permit' = IF Settles(a, outcome)
              THEN [permit EXCEPT ![a].state = outcome] ELSE permit

Moves(a, from, to) ==
    runner[a] = from /\ runner' = [runner EXCEPT ![a] = to]

(* What an admitted operation does to the work the barrier asks about. *)
LeaveJob(a) ==
    /\ UNCHANGED <<control, permit, runner, call, accounting, returned>>
    /\ runner[a] = "running" /\ call[a].kind = "http"
    /\ call[a].binding \notin Candidates
    /\ \E j \in Jobs \ jobs : jobs' = jobs \cup {j}

FinishJob(a) ==
    /\ UNCHANGED <<control, permit, runner, call, accounting, returned>>
    /\ runner[a] = "running" /\ call[a].binding \in Deliveries
    /\ \E j \in jobs : jobs' = jobs \ {j}

Confirm(a) ==
    /\ UNCHANGED <<revisions, barrier, permit, process>>
    /\ runner[a] = "running" /\ call[a].binding \in Candidates
    /\ confirmed' = confirmed \cup {call[a].binding}

(* An http handler or a task ends with an answer, or with an error (a
   status of 500 and above, a stream cut short, an exception). *)
Return(a) ==
    /\ UNCHANGED <<control, permit, call, jobs, accounting>>
    /\ call[a].kind # "provider"
    /\ Moves(a, "running", "returned")
    /\ returned' = returned \cup {a}

Throw(a) ==
    /\ UNCHANGED <<control, permit, call, jobs, accounting, returned>>
    /\ call[a].kind # "provider"
    /\ Moves(a, "running", "thrown")

FinishSettled(a) ==
    /\ UNCHANGED <<control, call, jobs, accounting, returned>>
    /\ Moves(a, "returned", "gone")
    /\ Settle(a, "settled")

(* runCutoverOperation: the settlement is inside the try, so its failure,
   before or after the write, is answered by an indeterminate one. *)
FinishFails(a) ==
    /\ UNCHANGED <<control, call, jobs, accounting, returned>>
    /\ call[a].kind = "task"
    /\ Moves(a, "returned", "thrown")
    /\ Settle(a, "settled") \/ UNCHANGED permit

(* A slip: the error path settles like the other one. *)
FinishAlways(a) ==
    /\ UNCHANGED <<control, call, jobs, accounting, returned>>
    /\ Moves(a, "thrown", "gone")
    /\ Settle(a, "settled")

FinishIndeterminate(a) ==
    /\ UNCHANGED <<control, call, jobs, accounting, returned>>
    /\ Moves(a, "thrown", "gone")
    /\ Settle(a, "indeterminate")

(* executeProviderOperationAttempt: the attempt row is reserved, or refused
   (and the permit settled, nothing having been sent).  A call outside a
   provider run has no such row and otherwise takes the same steps. *)
ReserveAccounting(a) ==
    /\ UNCHANGED <<control, permit, call, jobs, returned>>
    /\ call[a].kind = "provider"
    /\ Moves(a, "running", "sent")
    /\ accounting' = [accounting EXCEPT ![a] = "reserved"]

RefuseAccounting(a) ==
    /\ UNCHANGED <<control, permit, call, jobs, accounting>>
    /\ call[a].kind = "provider"
    /\ Moves(a, "running", "returned")
    /\ returned' = returned \cup {a}

(* No response: the attempt is completed as failed, or that write fails
   too; either way the permit becomes indeterminate. *)
ProviderSilent(a) ==
    /\ UNCHANGED <<control, permit, call, jobs, returned>>
    /\ Moves(a, "sent", "thrown")
    /\ accounting' = [accounting EXCEPT ![a] = "done"]
          \/ UNCHANGED accounting

(* A slip: the permit is settled before the accounting is written. *)
SettlesOnResponse(a) ==
    /\ UNCHANGED <<control, call, jobs, accounting, returned>>
    /\ Moves(a, "sent", "counting")
    /\ Settle(a, "settled")

(* A response, good or bad: pending until the accounting is written. *)
ProviderResponds(a) ==
    /\ UNCHANGED <<control, call, jobs, accounting, returned>>
    /\ Moves(a, "sent", "counting")
    /\ Settle(a, "result-accounting-pending")

CompleteAccounting(a) ==
    /\ UNCHANGED <<control, permit, call, jobs>>
    /\ Moves(a, "counting", "returned")
    /\ accounting' = [accounting EXCEPT ![a] = "done"]
    /\ returned' = returned \cup {a}

(* The process dies, or a statement fails where nothing catches it: the
   permit stays as it is. *)
Die(a) ==
    /\ UNCHANGED <<control, permit, call, jobs, accounting, returned>>
    /\ runner[a] \notin {"idle", "gone"}
    /\ runner' = [runner EXCEPT ![a] = "gone"]

Operator ==
    \/ CloseControl \/ OpenTrial \/ OpenPublic
    \/ BarrierAccounting \/ RecordBarrier \/ RefuseBarrier
    \/ \E a \in Attempts : Reconcile(a)

Runtime(a) ==
    \/ ReadControl(a) \/ Reserve(a) \/ Start(a)
    \/ LeaveJob(a) \/ FinishJob(a) \/ Confirm(a)
    \/ Return(a) \/ Throw(a)
    \/ FinishSettled(a) \/ FinishFails(a) \/ FinishIndeterminate(a)
    \/ ReserveAccounting(a) \/ RefuseAccounting(a)
    \/ ProviderSilent(a) \/ ProviderResponds(a) \/ CompleteAccounting(a)
    \/ Die(a)

Next == Operator \/ \E a \in Attempts : Runtime(a)

Spec == Init /\ [][Next]_vars

-----------------------------------------------------------------------------
(* Properties. *)

(* The values of every variable. *)
TypeOK ==
    /\ revisions \in Seq([phase : Phases, receipt : BOOLEAN,
                           mode : {"snapshot-eligible", "forward-only"}])
    /\ Current \in 1..LastRevision
    /\ confirmed \subseteq Candidates
    /\ permit \in [Attempts -> [state : PermitStates,
                                revision : 0..LastRevision,
                                reconciled : BOOLEAN]]
    /\ runner \in [Attempts -> {"idle", "read", "reserved", "running",
                                "returned", "thrown", "sent", "counting",
                                "gone"}]
    /\ call \in [Attempts -> [binding : Bindings, kind : Kinds,
                              revision : 0..LastRevision]]
    /\ jobs \subseteq Jobs
    /\ accounting \in [Attempts -> {"none", "reserved", "done"}]
    /\ returned \subseteq Attempts
    /\ barrier \in 0..LastRevision

(* An operation admitted before the control closed does not start after it:
   only the owner's confirmations begin under a closed control, whatever the
   order of the reading, the reservation, the closing and the start
   (startCutoverOperation, and the cancellation of the closing). *)
ClosedStartsOnlyConfirms ==
    [][\A a \in Attempts :
          (Phase = "closed" /\ runner'[a] = "running" /\ runner[a] # "running")
             => call[a].binding \in Candidates]_vars

(* While a stopped barrier is current, nothing that was sent is still under
   way except confirmations that were admitted after it. *)
BarrierHolds ==
    Barriered => \A a \in Attempts :
        permit[a].state \in SentBlocking =>
            call[a].binding \in Candidates /\ permit[a].revision = Current

(* The trial runs alone: a permit that is under way in it was reserved in it,
   by a bound request. *)
TrialRunsAlone ==
    Phase = "trial" => \A a \in Attempts :
        permit[a].state \in Active =>
            call[a].binding \in Requests /\ permit[a].revision = Current

(* One operation is never under way twice: while an attempt is in flight or
   its outcome is unknown, no redelivery or retry of it gets a permit. *)
OneActivePerBinding ==
    \A a, b \in Attempts :
        (a # b /\ permit[a].state \in Active /\ permit[b].state \in Active)
            => call[a].binding # call[b].binding

(* No trial sends a bound request more often than its quota, over however
   many retries, dead processes and trials. *)
TrialQuotaKept ==
    \A r \in Requests :
        Cardinality({a \in Attempts :
            /\ permit[a].state \in SentBlocking \cup {"settled"}
            /\ revisions[permit[a].revision].phase = "trial"
            /\ call[a].binding = r}) <= MaximumReservations

(* An unknown outcome is never written as a known one: a settled permit's
   operation returned, or an operator reconciled it. *)
SettledIsKnown ==
    \A a \in Attempts : permit[a].state = "settled" =>
        a \in returned \/ permit[a].reconciled

(* A provider attempt that is still to be accounted for keeps its permit in
   the way of the barrier until an operator answers for it. *)
UnaccountedBlocks ==
    \A a \in Attempts : accounting[a] = "reserved" =>
        permit[a].state \in SentBlocking \/ permit[a].reconciled
=============================================================================
