---------------------------- MODULE CutoverProofs ----------------------------
(* Theorems about CutoverControl for any sets of attempts, candidates,        *)
(* requests, deliveries and jobs, any quota and any number of revisions.      *)
EXTENDS CutoverControl, SequenceTheorems, FiniteSetTheorems, TLAPS

-----------------------------------------------------------------------------
(* The inductive invariant.                                                  *)

RevisionRow == [phase : Phases, receipt : BOOLEAN,
                mode : {"snapshot-eligible", "forward-only"}]

\* What one attempt's permit, its process and its accounting say of each other.
RowOK(a) ==
    /\ permit[a].state # "none" => permit[a].revision \in 1..Current
    /\ runner[a] \in {"idle", "read"} => permit[a].state = "none"
    /\ runner[a] \in {"running", "sent"} => permit[a].state = "sending"
    /\ runner[a] = "returned" => a \in returned /\ accounting[a] # "reserved"
    /\ runner[a] \in {"idle", "read", "reserved", "running"} => accounting[a] = "none"
    /\ permit[a].state = "settled" => a \in returned \/ permit[a].reconciled
    /\ accounting[a] = "reserved" =>
          permit[a].state \in SentBlocking \/ permit[a].reconciled

RowsOK == \A a \in Attempts : RowOK(a)

\* A receipt is of a closed revision; under a closed control only what the current
\* revision admitted may still start.
ClosedFence ==
    /\ Barriered => Phase = "closed"
    /\ Phase = "closed" => \A a \in Attempts :
          permit[a].state = "reserved-not-sent" =>
             call[a].binding \in Candidates /\ permit[a].revision = Current

\* The permits a trial granted to a binding and that were not cancelled: what the
\* quota of a reservation counts, and more than what was ever sent.
TrialPermits(r) ==
    {a \in Attempts : /\ permit[a].state \notin {"none", "cancelled-before-send"}
                      /\ revisions[permit[a].revision].phase = "trial"
                      /\ call[a].binding = r}

Reserved == {a \in Attempts : permit[a].state # "none"}

QuotaInv ==
    /\ IsFiniteSet(Reserved)
    /\ \A r \in Requests : Cardinality(TrialPermits(r)) <= MaximumReservations

Fences ==
    ClosedFence /\ BarrierHolds /\ TrialRunsAlone /\ OneActivePerBinding /\ QuotaInv

CutoverInv == TypeOK /\ RowsOK /\ Fences
-----------------------------------------------------------------------------
(* Type correctness.                                                         *)

PermitRow == [state : PermitStates, revision : 0..LastRevision, reconciled : BOOLEAN]

CallRow == [binding : Bindings, kind : Kinds, revision : 0..LastRevision]

Runners == {"idle", "read", "reserved", "running", "returned", "thrown", "sent",
            "counting", "gone"}

\* A revision is appended: the history of the others stands.
LEMMA RevisionAppended ==
    ASSUME TypeOK, Current < LastRevision, NEW x \in RevisionRow,
           revisions' = Append(revisions, x)
    PROVE  /\ revisions' \in Seq(RevisionRow)
           /\ Current' = Current + 1 /\ Current' \in 1..LastRevision
           /\ Phase' = x.phase /\ Barriered' = x.receipt
           /\ \A k \in 1..Current : revisions'[k] = revisions[k]
<1>1. revisions \in Seq(RevisionRow) /\ Current \in Nat
    BY CutoverAssumption DEF TypeOK, RevisionRow
<1>2. /\ revisions' \in Seq(RevisionRow)
      /\ Len(revisions') = Len(revisions) + 1
      /\ revisions'[Len(revisions) + 1] = x
      /\ \A k \in 1..Len(revisions) : revisions'[k] = revisions[k]
    BY <1>1, AppendProperties
<1>3. Current' \in 1..LastRevision
    BY <1>1, <1>2, CutoverAssumption DEF Current
<1> QED
    BY <1>1, <1>2, <1>3 DEF Current, Phase, Barriered

\* The row of the current revision.
LEMMA CurrentRow ==
    ASSUME TypeOK
    PROVE  /\ Current \in Nat \ {0} /\ Current \in 1..LastRevision
           /\ Phase \in Phases /\ Barriered \in BOOLEAN
           /\ revisions[Current].mode \in {"snapshot-eligible", "forward-only"}
<1>1. Current \in Nat \ {0} /\ Current \in 1..LastRevision
    BY CutoverAssumption DEF TypeOK
<1>2. revisions[Current] \in RevisionRow
    <2>1. revisions \in Seq(RevisionRow) /\ Current \in 1..Len(revisions)
        BY <1>1 DEF TypeOK, RevisionRow, Current
    <2> QED
        BY <2>1, ElementOfSeq
<1> QED
    BY <1>1, <1>2 DEF Phase, Barriered, RevisionRow

\* The rows an operator's command appends.
LEMMA AppendedRow ==
    ASSUME TypeOK, NEW phase \in Phases, NEW r \in BOOLEAN
    PROVE  /\ [phase |-> phase, receipt |-> r, mode |-> NextMode(Phase)] \in RevisionRow
           /\ [phase |-> phase, receipt |-> r, mode |-> revisions[Current].mode] \in RevisionRow
BY CurrentRow DEF NextMode, RevisionRow

\* Cancelling touches only the permits that were not sent.
LEMMA Cancelled ==
    ASSUME TypeOK, CancelReserved
    PROVE  /\ permit' \in [Attempts -> PermitRow]
           /\ \A a \in Attempts :
                 /\ permit'[a].revision = permit[a].revision
                 /\ permit'[a].reconciled = permit[a].reconciled
                 /\ permit'[a].state = IF permit[a].state = "reserved-not-sent"
                                       THEN "cancelled-before-send" ELSE permit[a].state
<1>1. permit \in [Attempts -> PermitRow]
    BY DEF TypeOK, PermitRow
<1>2. \A a \in Attempts : permit'[a] =
            IF permit[a].state = "reserved-not-sent"
            THEN [permit[a] EXCEPT !.state = "cancelled-before-send"] ELSE permit[a]
    BY DEF CancelReserved
<1>3. \A a \in Attempts : permit'[a] \in PermitRow
    BY <1>1, <1>2 DEF PermitRow, PermitStates
<1>4. permit' \in [Attempts -> PermitRow]
    BY <1>3 DEF CancelReserved
<1> QED
    BY <1>1, <1>2, <1>4 DEF PermitRow

Outcomes == {"settled", "indeterminate", "result-accounting-pending"}

\* A settlement writes an outcome over a permit that was sent, or nothing.
LEMMA Settlement ==
    ASSUME TypeOK, NEW a \in Attempts, NEW o \in Outcomes,
           Settle(a, o) \/ UNCHANGED permit
    PROVE  /\ permit' \in [Attempts -> PermitRow]
           /\ \A b \in Attempts \ {a} : permit'[b] = permit[b]
           /\ permit'[a].revision = permit[a].revision
           /\ permit'[a].reconciled = permit[a].reconciled
           /\ \/ permit'[a].state = permit[a].state
              \/ permit[a].state \in {"sending", "result-accounting-pending"}
                    /\ permit'[a].state = o
           /\ Settle(a, o) /\ permit[a].state = "sending" => permit'[a].state = o
<1>1. permit \in [Attempts -> PermitRow]
    BY DEF TypeOK, PermitRow
<1>2. CASE permit' = [permit EXCEPT ![a].state = o] /\ Settles(a, o)
    BY <1>1, <1>2 DEF PermitRow, PermitStates, Settles, Outcomes, Active, SentBlocking
<1>3. CASE UNCHANGED permit /\ ~(Settle(a, o) /\ permit[a].state = "sending")
    BY <1>1, <1>3
<1> QED
    BY <1>2, <1>3 DEF Settle, Settles

LEMMA TypeInit == Init => TypeOK
<1> SUFFICES ASSUME Init PROVE TypeOK
    OBVIOUS
<1>1. [phase |-> "closed", receipt |-> FALSE, mode |-> "snapshot-eligible"] \in RevisionRow
    BY DEF RevisionRow, Phases
<1>2. revisions \in Seq(RevisionRow) /\ Len(revisions) = 1
    BY <1>1 DEF Init
<1> QED
    BY <1>2, CutoverAssumption
    DEF Init, TypeOK, RevisionRow, Current, PermitStates, Kinds, Bindings

\* The operator's commands.
LEMMA OperatorTypes == TypeOK /\ Operator => TypeOK'
<1> SUFFICES ASSUME TypeOK, Operator PROVE TypeOK'
    OBVIOUS
<1> USE DEF RevisionRow, PermitRow
<1>1. ASSUME NEW phase \in Phases, AppendRevision(phase),
             CancelReserved \/ UNCHANGED permit, UNCHANGED <<confirmed, barrier, process>>
      PROVE  TypeOK'
    <2>1. revisions' \in Seq(RevisionRow) /\ Current' \in 1..LastRevision
        BY <1>1, AppendedRow, RevisionAppended DEF AppendRevision
    <2>2. permit' \in [Attempts -> PermitRow]
        BY <1>1, Cancelled DEF TypeOK
    <2> QED
        BY <1>1, <2>1, <2>2 DEF TypeOK, process
<1>2. CASE RecordBarrier
    <2>1. revisions' \in Seq(RevisionRow) /\ Current' \in 1..LastRevision
        <3>1. [phase |-> "closed", receipt |-> TRUE, mode |-> revisions[Current].mode]
                \in RevisionRow
            BY AppendedRow DEF Phases
        <3> QED
            BY <1>2, <3>1, RevisionAppended DEF RecordBarrier
    <2>2. permit' \in [Attempts -> PermitRow]
        BY <1>2, Cancelled DEF RecordBarrier
    <2> QED
        BY <1>2, <2>1, <2>2, CutoverAssumption DEF TypeOK, RecordBarrier, process
<1>3. CASE BarrierAccounting \/ RefuseBarrier
    BY <1>3, CutoverAssumption, CurrentRow
    DEF TypeOK, BarrierAccounting, RefuseBarrier, process, Current
<1>4. ASSUME NEW a \in Attempts, Reconcile(a) PROVE TypeOK'
    <2>1. permit' \in [Attempts -> PermitRow]
        <3>1. permit \in [Attempts -> PermitRow]
            BY DEF TypeOK
        <3>2. permit' = [permit EXCEPT ![a] = [permit[a] EXCEPT !.state = "settled",
                                                                !.reconciled = TRUE]]
            BY <1>4, <3>1 DEF Reconcile
        <3>3. [permit[a] EXCEPT !.state = "settled", !.reconciled = TRUE] \in PermitRow
            BY <3>1 DEF PermitStates
        <3> QED
            BY <3>1, <3>2, <3>3
    <2> QED
        BY <1>4, <2>1 DEF TypeOK, Reconcile, process, control, Current
<1> QED
    BY <1>1, <1>2, <1>3, <1>4
    DEF Operator, CloseControl, OpenTrial, OpenPublic, Phases

\* What a process may ask for.
LEMMA ShapeType ==
    ASSUME NEW a \in Attempts,
           NEW shape \in Shapes \cup [binding : {a}, kind : {"http", "provider"}]
    PROVE  shape.binding \in Bindings /\ shape.kind \in Kinds
BY DEF Shapes, Bindings, Kinds, Requests

LEMMA RuntimeTypes == ASSUME TypeOK, NEW a \in Attempts, Runtime(a) PROVE TypeOK'
<1> USE DEF RevisionRow, PermitRow
<1>0. permit \in [Attempts -> PermitRow] /\ runner \in [Attempts -> Runners]
    BY DEF TypeOK, Runners
<1>1. ASSUME permit' \in [Attempts -> PermitRow], runner' \in [Attempts -> Runners],
             UNCHANGED <<control, call, jobs, accounting, returned>>
      PROVE  TypeOK'
    BY <1>1 DEF TypeOK, control, Current, Runners
<1>2. ASSUME NEW from, NEW to \in Runners, Moves(a, from, to)
      PROVE  runner' \in [Attempts -> Runners]
    BY <1>0, <1>2 DEF Moves
<1>3. CASE ReadControl(a)
    <2>1. PICK shape \in Shapes \cup [binding : {a}, kind : {"http", "provider"}] :
             call' = [call EXCEPT ![a] = [binding |-> shape.binding, kind |-> shape.kind,
                                          revision |-> Current]]
        BY <1>3 DEF ReadControl
    <2>2. [binding |-> shape.binding, kind |-> shape.kind, revision |-> Current] \in CallRow
        BY <2>1, ShapeType, CurrentRow DEF CallRow
    <2>3. call' \in [Attempts -> CallRow]
        BY <2>1, <2>2 DEF TypeOK, CallRow
    <2>4. runner' \in [Attempts -> Runners]
        BY <1>0, <1>3 DEF ReadControl, Runners
    <2> QED
        BY <1>3, <2>3, <2>4 DEF ReadControl, TypeOK, control, Current, CallRow, Runners
<1>4. CASE Reserve(a) \/ Start(a)
    <2>1. Current \in 0..LastRevision
        BY CurrentRow, CutoverAssumption
    <2>2. permit' \in [Attempts -> PermitRow]
        <3>1. [state |-> "reserved-not-sent", revision |-> Current, reconciled |-> FALSE]
                \in PermitRow
            BY <2>1 DEF PermitStates, Active
        <3>2. [permit[a] EXCEPT !.state = "sending"] \in PermitRow
            BY <1>0 DEF PermitStates, Active, SentBlocking
        <3>3. \/ UNCHANGED permit
              \/ permit' = [permit EXCEPT ![a] = [state |-> "reserved-not-sent",
                                                 revision |-> Current, reconciled |-> FALSE]]
              \/ permit' = [permit EXCEPT ![a] = [permit[a] EXCEPT !.state = "sending"]]
            BY <1>0, <1>4 DEF Reserve, Start
        <3> QED
            BY <1>0, <3>1, <3>2, <3>3
    <2>3. runner' \in [Attempts -> Runners]
        BY <1>0, <1>4 DEF Reserve, Start, Runners
    <2> QED
        BY <1>1, <1>4, <2>2, <2>3 DEF Reserve, Start
<1>5. CASE LeaveJob(a) \/ FinishJob(a) \/ Confirm(a)
    BY <1>5 DEF LeaveJob, FinishJob, Confirm, TypeOK, control, process, Current
<1>6. CASE Throw(a) \/ Die(a)
    <2>1. runner' \in [Attempts -> Runners]
        BY <1>0, <1>6 DEF Throw, Moves, Die, Runners
    <2> QED
        BY <1>0, <1>1, <1>6, <2>1 DEF Throw, Die, control
<1>7. CASE FinishSettled(a) \/ FinishFails(a) \/ FinishIndeterminate(a) \/ ProviderResponds(a)
    <2>1. permit' \in [Attempts -> PermitRow]
        BY <1>7, Settlement
        DEF FinishSettled, FinishFails, FinishIndeterminate, ProviderResponds, Outcomes
    <2>2. runner' \in [Attempts -> Runners]
        BY <1>2, <1>7
        DEF FinishSettled, FinishFails, FinishIndeterminate, ProviderResponds, Runners
    <2> QED
        BY <1>1, <1>7, <2>1, <2>2
        DEF FinishSettled, FinishFails, FinishIndeterminate, ProviderResponds
<1>8. CASE \/ Return(a) \/ RefuseAccounting(a) \/ ReserveAccounting(a)
           \/ ProviderSilent(a) \/ CompleteAccounting(a)
    <2>1. runner' \in [Attempts -> Runners]
        BY <1>2, <1>8
        DEF Return, RefuseAccounting, ReserveAccounting, ProviderSilent,
            CompleteAccounting, Runners
    <2>2. /\ accounting' \in [Attempts -> {"none", "reserved", "done"}]
          /\ returned' \subseteq Attempts
          /\ UNCHANGED <<control, permit, call, jobs>>
        BY <1>8
        DEF Return, RefuseAccounting, ReserveAccounting, ProviderSilent,
            CompleteAccounting, TypeOK
    <2> QED
        BY <2>1, <2>2 DEF TypeOK, control, Current, Runners
<1> QED
    BY <1>3, <1>4, <1>5, <1>6, <1>7, <1>8 DEF Runtime

LEMMA TypeStep == TypeOK /\ [Next]_vars => TypeOK'
<1>1. CASE UNCHANGED vars
    BY <1>1 DEF vars, control, process, TypeOK, Current
<1> QED
    BY <1>1, OperatorTypes, RuntimeTypes DEF Next

\* Every variable keeps its type.
THEOREM CutoverTypes == Spec => []TypeOK
BY TypeInit, TypeStep, PTL DEF Spec

-----------------------------------------------------------------------------
(* The rows of one attempt.                                                  *)

\* What a process does changes no row but its own, and no revision.
LEMMA OthersKept ==
    ASSUME TypeOK, NEW a \in Attempts, Runtime(a)
    PROVE  /\ \A b \in Attempts \ {a} :
                 /\ permit'[b] = permit[b] /\ runner'[b] = runner[b]
                 /\ call'[b] = call[b] /\ accounting'[b] = accounting[b]
                 /\ b \in returned' <=> b \in returned
           /\ UNCHANGED <<revisions, Current, Phase, Barriered>>
<1> DEFINE Kept == /\ \A b \in Attempts \ {a} :
                         /\ permit'[b] = permit[b] /\ runner'[b] = runner[b]
                         /\ call'[b] = call[b] /\ accounting'[b] = accounting[b]
                         /\ b \in returned' <=> b \in returned
                   /\ UNCHANGED revisions
<1>0. /\ permit \in [Attempts -> PermitRow] /\ DOMAIN runner = Attempts
      /\ DOMAIN call = Attempts /\ DOMAIN accounting = Attempts
    BY DEF TypeOK, PermitRow
<1>1. ASSUME ReadControl(a) PROVE Kept
    BY <1>0, <1>1 DEF ReadControl, control
<1>2. ASSUME Reserve(a) \/ Start(a) PROVE Kept
    BY <1>0, <1>2 DEF Reserve, Start, control
<1>3. ASSUME LeaveJob(a) \/ FinishJob(a) \/ Confirm(a) PROVE Kept
    BY <1>3 DEF LeaveJob, FinishJob, Confirm, control, process
<1>4. ASSUME Throw(a) \/ Die(a) PROVE Kept
    BY <1>0, <1>4 DEF Throw, Die, Moves, control
<1>5. ASSUME FinishSettled(a) \/ FinishFails(a) \/ FinishIndeterminate(a) \/ ProviderResponds(a) PROVE Kept
    <2>1. \A b \in Attempts \ {a} : permit'[b] = permit[b]
        BY <1>5, Settlement
        DEF FinishSettled, FinishFails, FinishIndeterminate, ProviderResponds, Outcomes
    <2> QED
        BY <1>0, <1>5, <2>1
        DEF FinishSettled, FinishFails, FinishIndeterminate, ProviderResponds, Moves, control
<1>6. ASSUME \/ Return(a) \/ RefuseAccounting(a) \/ ReserveAccounting(a)
             \/ ProviderSilent(a) \/ CompleteAccounting(a)
      PROVE  Kept
    BY <1>0, <1>6
    DEF Return, RefuseAccounting, ReserveAccounting, ProviderSilent, CompleteAccounting,
        Moves, control
<1>7. Kept
    BY <1>1, <1>2, <1>3, <1>4, <1>5, <1>6 DEF Runtime
<1> QED
    BY <1>7 DEF Current, Phase, Barriered

\* A row that does not change stays consistent while revisions are appended.
LEMMA RowKept ==
    ASSUME TypeOK, NEW a \in Attempts, RowOK(a), Current' \in Nat, Current <= Current',
           permit'[a] = permit[a], runner'[a] = runner[a], accounting'[a] = accounting[a],
           a \in returned' <=> a \in returned
    PROVE  RowOK(a)'
<1>1. Current \in Nat
    BY CurrentRow
<1>2. permit[a] \in PermitRow
    BY DEF TypeOK, PermitRow
<1>3. permit[a].revision \in 1..Current => permit[a].revision \in 1..Current'
    BY <1>1, <1>2 DEF PermitRow
<1> QED
    BY <1>3 DEF RowOK

LEMMA RuntimeRows ==
    ASSUME TypeOK, RowsOK, NEW a \in Attempts, Runtime(a) PROVE RowsOK'
<1>0. /\ permit \in [Attempts -> PermitRow] /\ runner \in [Attempts -> Runners]
      /\ accounting \in [Attempts -> {"none", "reserved", "done"}]
      /\ Current \in Nat \ {0} /\ Current' = Current
    BY CurrentRow, OthersKept DEF TypeOK, PermitRow, Runners
<1>1. RowOK(a)
    BY DEF RowsOK
<1>2. ASSUME NEW b \in Attempts \ {a} PROVE RowOK(b)'
    <2>1. RowOK(b) /\ Current' \in Nat /\ Current <= Current'
        BY <1>0 DEF RowsOK
    <2> QED
        BY <1>2, <2>1, OthersKept, RowKept
<1>3. CASE ReadControl(a)
    <2>1. /\ UNCHANGED <<permit, accounting, returned>>
          /\ runner[a] = "idle" /\ runner'[a] = "read"
        BY <1>0, <1>3 DEF ReadControl
    <2> QED
        BY <1>0, <1>1, <1>2, <2>1 DEF RowOK, RowsOK
<1>4. CASE Reserve(a)
    <2>1. /\ UNCHANGED <<accounting, returned>>
          /\ runner[a] = "read" /\ runner'[a] \in {"reserved", "gone"}
          /\ \/ permit'[a] = [state |-> "reserved-not-sent", revision |-> Current,
                              reconciled |-> FALSE]
             \/ permit'[a] = permit[a]
        BY <1>0, <1>4 DEF Reserve
    <2> QED
        BY <1>0, <1>1, <1>2, <2>1 DEF RowOK, RowsOK
<1>5. CASE Start(a)
    <2>1. /\ UNCHANGED <<accounting, returned>>
          /\ runner[a] = "reserved"
          /\ \/ permit'[a] = [permit[a] EXCEPT !.state = "sending"]
                  /\ runner'[a] = "running" /\ permit[a].state = "reserved-not-sent"
             \/ permit'[a] = permit[a] /\ runner'[a] = "gone"
        BY <1>0, <1>5 DEF Start, StartAllowed
    <2>2. permit[a] \in PermitRow
        BY <1>0
    <2> QED
        BY <1>0, <1>1, <1>2, <2>1, <2>2 DEF RowOK, RowsOK, SentBlocking, PermitRow
<1>6. CASE LeaveJob(a) \/ FinishJob(a) \/ Confirm(a)
    <2>1. UNCHANGED <<permit, runner, accounting, returned>>
        BY <1>6 DEF LeaveJob, FinishJob, Confirm, process
    <2> QED
        BY <1>0, <1>1, <1>2, <2>1 DEF RowOK, RowsOK
<1>7. CASE Throw(a) \/ Die(a)
    <2>1. UNCHANGED <<permit, accounting, returned>> /\ runner'[a] \in {"thrown", "gone"}
        BY <1>0, <1>7 DEF Throw, Die, Moves
    <2> QED
        BY <1>0, <1>1, <1>2, <2>1 DEF RowOK, RowsOK
<1>8. CASE Return(a) \/ RefuseAccounting(a)
    <2>1. /\ UNCHANGED <<permit, accounting>> /\ a \in returned'
          /\ runner[a] = "running" /\ runner'[a] = "returned"
        BY <1>0, <1>8 DEF Return, RefuseAccounting, Moves
    <2> QED
        BY <1>0, <1>1, <1>2, <2>1 DEF RowOK, RowsOK
<1>9. CASE ReserveAccounting(a)
    <2>1. /\ UNCHANGED <<permit, returned>> /\ accounting'[a] = "reserved"
          /\ runner[a] = "running" /\ runner'[a] = "sent"
        BY <1>0, <1>9 DEF ReserveAccounting, Moves
    <2> QED
        BY <1>0, <1>1, <1>2, <2>1 DEF RowOK, RowsOK, SentBlocking
<1>10. CASE ProviderSilent(a)
    <2>1. /\ UNCHANGED <<permit, returned>> /\ accounting'[a] \in {"done", accounting[a]}
          /\ runner[a] = "sent" /\ runner'[a] = "thrown"
        BY <1>0, <1>10 DEF ProviderSilent, Moves
    <2> QED
        BY <1>0, <1>1, <1>2, <2>1 DEF RowOK, RowsOK
<1>11. CASE CompleteAccounting(a)
    <2>1. /\ UNCHANGED permit /\ accounting'[a] = "done" /\ a \in returned'
          /\ runner'[a] = "returned"
        BY <1>0, <1>11 DEF CompleteAccounting, Moves
    <2> QED
        BY <1>0, <1>1, <1>2, <2>1 DEF RowOK, RowsOK
<1>12. CASE FinishSettled(a) \/ FinishFails(a)
    <2>1. /\ UNCHANGED <<accounting, returned>>
          /\ runner[a] = "returned" /\ runner'[a] \in {"gone", "thrown"}
          /\ Settle(a, "settled") \/ UNCHANGED permit
        BY <1>0, <1>12 DEF FinishSettled, FinishFails, Moves
    <2>2. /\ permit'[a].revision = permit[a].revision
          /\ permit'[a].reconciled = permit[a].reconciled
          /\ \/ permit'[a].state = permit[a].state
             \/ permit[a].state # "none" /\ permit'[a].state = "settled"
        BY <2>1, Settlement DEF Outcomes
    <2> QED
        BY <1>0, <1>1, <1>2, <2>1, <2>2 DEF RowOK, RowsOK
<1>13. CASE FinishIndeterminate(a) \/ ProviderResponds(a)
    <2>1. /\ UNCHANGED <<accounting, returned>>
          /\ \/ runner[a] = "thrown" /\ runner'[a] = "gone"
             \/ runner[a] = "sent" /\ runner'[a] = "counting"
          /\ Settle(a, "indeterminate") \/ Settle(a, "result-accounting-pending")
        BY <1>0, <1>13 DEF FinishIndeterminate, ProviderResponds, Moves
    <2>2. /\ permit'[a].revision = permit[a].revision
          /\ permit'[a].reconciled = permit[a].reconciled
          /\ \/ permit'[a].state = permit[a].state
             \/ permit[a].state # "none" /\ permit'[a].state \in SentBlocking
        BY <2>1, Settlement DEF Outcomes, SentBlocking
    <2> QED
        BY <1>0, <1>1, <1>2, <2>1, <2>2 DEF RowOK, RowsOK, SentBlocking
<1> QED
    BY <1>3, <1>4, <1>5, <1>6, <1>7, <1>8, <1>9, <1>10, <1>11, <1>12, <1>13 DEF Runtime

LEMMA OperatorRows == TypeOK /\ RowsOK /\ Operator => RowsOK'
<1> SUFFICES ASSUME TypeOK, RowsOK, Operator, NEW a \in Attempts PROVE RowOK(a)'
    BY DEF RowsOK
<1>0. RowOK(a) /\ Current \in Nat \ {0} /\ permit \in [Attempts -> PermitRow]
    BY CurrentRow DEF RowsOK, TypeOK, PermitRow
<1>1. ASSUME UNCHANGED <<runner, accounting, returned>>, CancelReserved \/ UNCHANGED permit,
             Current' = Current + 1
      PROVE  RowOK(a)'
    <2>1. /\ permit'[a].revision = permit[a].revision
          /\ permit'[a].reconciled = permit[a].reconciled
          /\ permit'[a].state = permit[a].state
                \/ /\ permit[a].state = "reserved-not-sent"
                   /\ permit'[a].state = "cancelled-before-send"
        BY <1>1, Cancelled
    <2>2. permit[a].revision \in 1..Current => permit[a].revision \in 1..Current'
        BY <1>0, <1>1
    <2> QED
        BY <1>0, <1>1, <2>1, <2>2 DEF RowOK, SentBlocking
<1>2. ASSUME NEW phase \in Phases, AppendRevision(phase),
             CancelReserved \/ UNCHANGED permit, UNCHANGED <<confirmed, barrier, process>>
      PROVE  RowOK(a)'
    <2>1. Current' = Current + 1
        BY <1>2, AppendedRow, RevisionAppended DEF AppendRevision
    <2> QED
        BY <1>1, <1>2, <2>1 DEF process
<1>3. CASE RecordBarrier
    <2>1. [phase |-> "closed", receipt |-> TRUE, mode |-> revisions[Current].mode]
            \in RevisionRow
        BY AppendedRow DEF Phases
    <2>2. Current' = Current + 1
        BY <1>3, <2>1, RevisionAppended DEF RecordBarrier
    <2> QED
        BY <1>1, <1>3, <2>2 DEF RecordBarrier, process
<1>4. CASE BarrierAccounting \/ RefuseBarrier
    BY <1>0, <1>4, RowKept DEF BarrierAccounting, RefuseBarrier, process, Current
<1>5. ASSUME NEW b \in Attempts, Reconcile(b) PROVE RowOK(a)'
    <2>1. UNCHANGED <<runner, accounting, returned, Current>>
        BY <1>5 DEF Reconcile, process, control, Current
    <2>2. /\ permit'[a].revision = permit[a].revision
          /\ \/ permit'[a] = permit[a]
             \/ /\ permit[a].state = "indeterminate"
                /\ permit'[a].state = "settled" /\ permit'[a].reconciled
        BY <1>0, <1>5 DEF Reconcile, PermitRow
    <2> QED
        BY <1>0, <2>1, <2>2 DEF RowOK
<1> QED
    BY <1>2, <1>3, <1>4, <1>5 DEF Operator, CloseControl, OpenTrial, OpenPublic, Phases

LEMMA RowsStep == TypeOK /\ RowsOK /\ [Next]_vars => RowsOK'
<1>1. TypeOK /\ RowsOK /\ UNCHANGED vars => RowsOK'
    BY DEF vars, control, process, Current, RowsOK, RowOK
<1> QED
    BY <1>1, OperatorRows, RuntimeRows DEF Next

LEMMA RowsInit == Init => RowsOK
BY DEF Init, RowsOK, RowOK

LEMMA RowsAlways == Spec => [](TypeOK /\ RowsOK)
BY TypeInit, TypeStep, RowsInit, RowsStep, PTL DEF Spec

\* A permit is settled only over an operation whose end is known: one that returned,
\* or whose outcome an operator looked up.  Neither an error path, nor a failed
\* settlement, nor a death of the process turns an unknown outcome into a known one.
THEOREM UnknownNeverSettles == Spec => []SettledIsKnown
<1>1. RowsOK => SettledIsKnown
    BY DEF RowsOK, RowOK, SettledIsKnown
<1> QED
    BY <1>1, RowsAlways, PTL

\* A provider call whose attempt row is still to be completed keeps its permit
\* before the barrier, whichever of its writes failed or was never reached.
THEOREM UnaccountedKeepsPermit == Spec => []UnaccountedBlocks
<1>1. RowsOK => UnaccountedBlocks
    BY DEF RowsOK, RowOK, UnaccountedBlocks
<1> QED
    BY <1>1, RowsAlways, PTL

-----------------------------------------------------------------------------
(* The fences between attempts.                                              *)

\* What a step may make of attempt a's permit and of what it asks for.
Unmoved(a) ==
    /\ call'[a] = call[a]
    /\ permit'[a].state = permit[a].state
    /\ permit'[a].revision = permit[a].revision

Asks(a) == permit[a].state = "none" /\ permit'[a].state = "none"

Granted(a) ==
    /\ call'[a] = call[a]
    /\ permit[a].state = "none" /\ permit'[a].state = "reserved-not-sent"
    /\ permit'[a].revision = Current
    /\ Reservable(a)

Started(a) ==
    /\ call'[a] = call[a]
    /\ permit[a].state = "reserved-not-sent" /\ permit'[a].state = "sending"
    /\ permit'[a].revision = permit[a].revision

Ended(a) ==
    /\ call'[a] = call[a]
    /\ permit[a].state \in SentBlocking
    /\ permit'[a].state \in SentBlocking \cup {"settled"}
    /\ permit'[a].revision = permit[a].revision

PermitStep(a) ==
    /\ UNCHANGED <<revisions, Current, Phase, Barriered>>
    /\ \A b \in Attempts \ {a} : call'[b] = call[b] /\ permit'[b] = permit[b]
    /\ Unmoved(a) \/ Asks(a) \/ Granted(a) \/ Started(a) \/ Ended(a)

LEMMA RuntimePermits ==
    ASSUME TypeOK, RowsOK, NEW a \in Attempts, Runtime(a) PROVE PermitStep(a)
<1> DEFINE Goal == Unmoved(a) \/ Asks(a) \/ Granted(a) \/ Started(a) \/ Ended(a)
<1>0. permit \in [Attempts -> PermitRow] /\ DOMAIN call = Attempts /\ RowOK(a)
    BY DEF TypeOK, PermitRow, RowsOK
<1>1. ASSUME ReadControl(a) PROVE Goal
    BY <1>0, <1>1 DEF ReadControl, Asks, RowOK
<1>2. ASSUME Reserve(a) PROVE Goal
    BY <1>0, <1>2 DEF Reserve, Granted, Unmoved, RowOK
<1>3. ASSUME Start(a) PROVE Goal
    BY <1>0, <1>3 DEF Start, StartAllowed, Started, Unmoved, PermitRow
<1>4. ASSUME UNCHANGED <<permit, call>> PROVE Goal
    BY <1>4 DEF Unmoved
<1>5. ASSUME NEW o \in Outcomes, Settle(a, o) \/ UNCHANGED permit, UNCHANGED call PROVE Goal
    <2>1. Outcomes \subseteq SentBlocking \cup {"settled"}
        BY DEF Outcomes, SentBlocking
    <2>2. {"sending", "result-accounting-pending"} \subseteq SentBlocking
        BY DEF SentBlocking
    <2> QED
        BY <1>5, <2>1, <2>2, Settlement DEF Unmoved, Ended
<1>6. Goal
    <2>1. CASE \/ LeaveJob(a) \/ FinishJob(a) \/ Confirm(a) \/ Throw(a) \/ Die(a) \/ Return(a)
               \/ RefuseAccounting(a) \/ ReserveAccounting(a) \/ ProviderSilent(a)
               \/ CompleteAccounting(a)
        BY <1>4, <2>1
        DEF LeaveJob, FinishJob, Confirm, Throw, Die, Return, RefuseAccounting,
            ReserveAccounting, ProviderSilent, CompleteAccounting, process
    <2>2. CASE FinishSettled(a) \/ FinishFails(a) \/ FinishIndeterminate(a) \/ ProviderResponds(a)
        BY <1>5, <2>2
        DEF FinishSettled, FinishFails, FinishIndeterminate, ProviderResponds, Outcomes
    <2> QED
        BY <1>1, <1>2, <1>3, <2>1, <2>2 DEF Runtime
<1> QED
    BY <1>6, OthersKept DEF PermitStep

LEMMA ReconcilePermits ==
    ASSUME TypeOK, NEW a \in Attempts, Reconcile(a) PROVE PermitStep(a)
<1>1. permit \in [Attempts -> PermitRow]
    BY DEF TypeOK, PermitRow
<1>2. UNCHANGED <<revisions, call>>
    BY DEF Reconcile, control, process
<1>3. Ended(a) /\ \A b \in Attempts \ {a} : permit'[b] = permit[b]
    BY <1>1, <1>2 DEF Reconcile, Ended, SentBlocking, PermitRow
<1> QED
    BY <1>2, <1>3 DEF PermitStep, Current, Phase, Barriered

\* Only a grant makes a permit active.
LEMMA NoNewActive ==
    ASSUME NEW a \in Attempts, PermitStep(a), ~Granted(a), NEW b \in Attempts,
           permit'[b].state \in Active
    PROVE  /\ permit[b].state \in Active /\ call'[b] = call[b]
           /\ permit'[b].revision = permit[b].revision
BY DEF PermitStep, Unmoved, Asks, Started, Ended, Active, SentBlocking

LEMMA PermitClosedFence ==
    ASSUME TypeOK, ClosedFence, NEW a \in Attempts, PermitStep(a) PROVE ClosedFence'
<1>1. (Barriered => Phase = "closed")'
    BY DEF PermitStep, ClosedFence
<1>2. ASSUME Phase = "closed", NEW b \in Attempts, permit'[b].state = "reserved-not-sent"
      PROVE  call'[b].binding \in Candidates /\ permit'[b].revision = Current
    <2>1. CASE b # a \/ Unmoved(a)
        BY <1>2, <2>1 DEF PermitStep, Unmoved, ClosedFence
    <2>2. CASE b = a /\ Granted(a)
        BY <1>2, <2>2 DEF Granted, Reservable, Admitted
    <2> QED
        BY <1>2, <2>1, <2>2 DEF PermitStep, Asks, Started, Ended, SentBlocking
<1> QED
    BY <1>1, <1>2 DEF PermitStep, ClosedFence

LEMMA PermitBarrier ==
    ASSUME ClosedFence, BarrierHolds, NEW a \in Attempts, PermitStep(a) PROVE BarrierHolds'
<1> SUFFICES ASSUME Barriered, NEW b \in Attempts, permit'[b].state \in SentBlocking
             PROVE  call'[b].binding \in Candidates /\ permit'[b].revision = Current
    BY DEF BarrierHolds, PermitStep
<1>1. CASE permit[b].state \in SentBlocking
    <2>1. call'[b] = call[b] /\ permit'[b].revision = permit[b].revision
        BY <1>1 DEF PermitStep, Unmoved, Asks, Granted, Started, Ended, SentBlocking
    <2> QED
        BY <1>1, <2>1 DEF BarrierHolds
<1>2. CASE permit[b].state \notin SentBlocking
    <2>1. b = a /\ Started(a)
        BY <1>2 DEF PermitStep, Unmoved, Asks, Granted, Ended, SentBlocking
    <2> QED
        BY <2>1 DEF Started, ClosedFence
<1> QED
    BY <1>1, <1>2

LEMMA PermitTrial ==
    ASSUME TrialRunsAlone, NEW a \in Attempts, PermitStep(a) PROVE TrialRunsAlone'
<1> SUFFICES ASSUME Phase = "trial", NEW b \in Attempts, permit'[b].state \in Active
             PROVE  call'[b].binding \in Requests /\ permit'[b].revision = Current
    BY DEF TrialRunsAlone, PermitStep
<1>1. CASE b = a /\ Granted(a)
    BY <1>1 DEF Granted, Reservable, Admitted
<1>2. CASE ~Granted(a)
    BY <1>2, NoNewActive DEF TrialRunsAlone
<1>3. CASE b # a
    BY <1>3 DEF PermitStep, TrialRunsAlone
<1> QED
    BY <1>1, <1>2, <1>3

LEMMA PermitBindings ==
    ASSUME OneActivePerBinding, NEW a \in Attempts, PermitStep(a) PROVE OneActivePerBinding'
<1> SUFFICES ASSUME NEW b \in Attempts, NEW c \in Attempts, b # c,
                    permit'[b].state \in Active, permit'[c].state \in Active
             PROVE  call'[b].binding # call'[c].binding
    BY DEF OneActivePerBinding
<1>1. CASE ~Granted(a)
    BY <1>1, NoNewActive DEF OneActivePerBinding
<1>2. CASE Granted(a)
    <2>1. ASSUME NEW d \in Attempts \ {a}, permit'[d].state \in Active
          PROVE  call'[d].binding # call'[a].binding
        <3>1. permit[d].state \in Active /\ call'[d] = call[d] /\ call'[a] = call[a]
            BY <1>2, <2>1 DEF PermitStep, Granted
        <3>2. permit[d].state # "none"
            BY <3>1 DEF Active, SentBlocking
        <3> QED
            BY <1>2, <3>1, <3>2 DEF Granted, Reservable, AlreadyActive, SameBinding
    <2>2. CASE b # a /\ c # a
        BY <2>2 DEF PermitStep, OneActivePerBinding
    <2> QED
        BY <2>1, <2>2
<1> QED
    BY <1>1, <1>2

\* What one more element can add to a set.
LEMMA OneMore ==
    ASSUME NEW S, NEW T, NEW x, IsFiniteSet(S), T \subseteq S \cup {x}
    PROVE  Cardinality(T) \in Nat /\ Cardinality(T) <= Cardinality(S) + 1
<1>1. Cardinality(S) \in Nat
    BY FS_CardinalityType
<1>2. /\ IsFiniteSet(S \cup {x})
      /\ Cardinality(S \cup {x}) = Cardinality(S)
            \/ Cardinality(S \cup {x}) = Cardinality(S) + 1
    BY FS_AddElement
<1>3. IsFiniteSet(T) /\ Cardinality(T) <= Cardinality(S \cup {x})
    BY <1>2, FS_Subset
<1>4. Cardinality(T) \in Nat
    BY <1>3, FS_CardinalityType
<1> QED
    BY <1>1, <1>2, <1>3, <1>4

\* Only a grant under a trial adds to the permits the quota counts.
LEMMA PermitQuota ==
    ASSUME TypeOK, RowsOK, QuotaInv, NEW a \in Attempts, PermitStep(a) PROVE QuotaInv'
<1>1. IsFiniteSet(Reserved')
    <2>1. Reserved' \subseteq Reserved \cup {a}
        BY DEF Reserved, PermitStep
    <2> QED
        BY <2>1, FS_AddElement, FS_Subset DEF QuotaInv
<1>2. ASSUME NEW r \in Requests PROVE Cardinality(TrialPermits(r)') <= MaximumReservations
    <2>1. TrialPermits(r) \subseteq Reserved
        BY DEF TrialPermits, Reserved
    <2>2. IsFiniteSet(TrialPermits(r)) /\ Cardinality(TrialPermits(r)) \in Nat
        BY <2>1, FS_Subset, FS_CardinalityType DEF QuotaInv
    <2>3. CASE Granted(a) /\ Phase = "trial" /\ call[a].binding = r
        <3> DEFINE Counted == {b \in SameBinding(a) : permit[b].state # "cancelled-before-send"}
        <3>1. Cardinality(Counted) < MaximumReservations
            BY <2>3 DEF Granted, Reservable, QuotaLeft
        <3>2. Counted \subseteq Reserved
            BY DEF SameBinding, Reserved
        <3>3. TrialPermits(r) \subseteq Counted
            BY <2>3 DEF TrialPermits, SameBinding, Granted
        <3>4. TrialPermits(r)' \subseteq Counted \cup {a}
            BY <2>3, <3>3 DEF TrialPermits, PermitStep
        <3> HIDE DEF Counted
        <3>5. IsFiniteSet(Counted) /\ Cardinality(Counted) \in Nat
            BY <3>2, FS_Subset, FS_CardinalityType DEF QuotaInv
        <3>6. /\ Cardinality(TrialPermits(r)') \in Nat
              /\ Cardinality(TrialPermits(r)') <= Cardinality(Counted) + 1
            BY <3>4, <3>5, OneMore
        <3> QED
            BY <3>1, <3>5, <3>6, CutoverAssumption
    <2>4. CASE ~(Granted(a) /\ Phase = "trial" /\ call[a].binding = r)
        <3>1. ASSUME NEW b \in TrialPermits(r)' PROVE b \in TrialPermits(r)
            <4>1. CASE b # a
                BY <3>1, <4>1 DEF TrialPermits, PermitStep
            <4>2. CASE b = a /\ Granted(a)
                BY <2>4, <3>1, <4>2 DEF TrialPermits, PermitStep, Granted, Phase
            <4>3. CASE b = a /\ ~Granted(a)
                BY <3>1, <4>3
                DEF TrialPermits, PermitStep, Unmoved, Asks, Started, Ended, SentBlocking
            <4> QED
                BY <4>1, <4>2, <4>3
        <3>2. /\ TrialPermits(r)' \subseteq TrialPermits(r)
              /\ IsFiniteSet(TrialPermits(r)')
              /\ Cardinality(TrialPermits(r)') <= Cardinality(TrialPermits(r))
            BY <2>2, <3>1, FS_Subset
        <3>3. Cardinality(TrialPermits(r)') \in Nat
            BY <3>2, FS_CardinalityType
        <3>4. Cardinality(TrialPermits(r)) <= MaximumReservations
            BY DEF QuotaInv
        <3> QED
            BY <2>2, <3>2, <3>3, <3>4, CutoverAssumption
    <2> QED
        BY <2>3, <2>4
<1> QED
    BY <1>1, <1>2 DEF QuotaInv

LEMMA FencesPermit ==
    ASSUME TypeOK, RowsOK, Fences, NEW a \in Attempts, PermitStep(a) PROVE Fences'
BY PermitClosedFence, PermitBarrier, PermitTrial, PermitBindings, PermitQuota DEF Fences

\* An operator's revision: what is reserved stands or is cancelled, and the history
\* of the revisions before it stands.
NewRevision(x) ==
    /\ UNCHANGED call
    /\ Current' = Current + 1
    /\ Phase' = x.phase /\ Barriered' = x.receipt
    /\ \A k \in 1..Current : revisions'[k] = revisions[k]
    /\ \A a \in Attempts :
          /\ permit'[a].revision = permit[a].revision
          /\ \/ permit'[a].state = permit[a].state
             \/ /\ permit[a].state = "reserved-not-sent"
                /\ permit'[a].state = "cancelled-before-send"

LEMMA Revised ==
    ASSUME TypeOK, NEW phase \in Phases, AppendRevision(phase),
           CancelReserved \/ UNCHANGED permit, UNCHANGED process
    PROVE  NewRevision([phase |-> phase, receipt |-> FALSE, mode |-> NextMode(Phase)])
<1>1. [phase |-> phase, receipt |-> FALSE, mode |-> NextMode(Phase)] \in RevisionRow
    BY AppendedRow
<1> QED
    BY <1>1, RevisionAppended, Cancelled DEF AppendRevision, NewRevision, process

LEMMA RevisedByBarrier ==
    ASSUME TypeOK, RecordBarrier
    PROVE  NewRevision([phase |-> "closed", receipt |-> TRUE, mode |-> revisions[Current].mode])
<1>1. [phase |-> "closed", receipt |-> TRUE, mode |-> revisions[Current].mode] \in RevisionRow
    BY AppendedRow DEF Phases
<1> QED
    BY <1>1, RevisionAppended, Cancelled DEF RecordBarrier, NewRevision, process

\* No permit becomes active by a new revision, and none moves to a trial it was not
\* granted in.
LEMMA RevisionQuota ==
    ASSUME TypeOK, RowsOK, QuotaInv, NEW x, NewRevision(x) PROVE QuotaInv'
<1>1. Reserved' \subseteq Reserved /\ \A r \in Requests : TrialPermits(r) \subseteq Reserved
    BY DEF Reserved, TrialPermits, NewRevision
<1>2. IsFiniteSet(Reserved')
    BY <1>1, FS_Subset DEF QuotaInv
<1>3. ASSUME NEW r \in Requests PROVE TrialPermits(r)' \subseteq TrialPermits(r)
    <2> SUFFICES ASSUME NEW a \in Attempts, a \in TrialPermits(r)' PROVE a \in TrialPermits(r)
        BY DEF TrialPermits
    <2>1. permit[a].state \notin {"none", "cancelled-before-send"}
        BY DEF TrialPermits, NewRevision
    <2>2. permit[a].revision \in 1..Current
        BY <2>1 DEF RowsOK, RowOK
    <2>3. revisions'[permit'[a].revision] = revisions[permit[a].revision]
        BY <2>2 DEF NewRevision
    <2> QED
        BY <2>1, <2>3 DEF TrialPermits, NewRevision
<1>4. ASSUME NEW r \in Requests PROVE Cardinality(TrialPermits(r)') <= MaximumReservations
    <2>1. IsFiniteSet(TrialPermits(r)) /\ TrialPermits(r)' \subseteq TrialPermits(r)
        BY <1>1, <1>3, FS_Subset DEF QuotaInv
    <2>2. IsFiniteSet(TrialPermits(r)') /\ Cardinality(TrialPermits(r)') <= Cardinality(TrialPermits(r))
        BY <2>1, FS_Subset
    <2>3. Cardinality(TrialPermits(r)) \in Nat /\ Cardinality(TrialPermits(r)') \in Nat
        BY <2>1, <2>2, FS_CardinalityType
    <2>4. Cardinality(TrialPermits(r)) <= MaximumReservations
        BY DEF QuotaInv
    <2> QED
        BY <2>2, <2>3, <2>4, CutoverAssumption
<1> QED
    BY <1>2, <1>4 DEF QuotaInv

LEMMA RevisionBindings ==
    ASSUME OneActivePerBinding, NEW x, NewRevision(x) PROVE OneActivePerBinding'
<1>1. \A a \in Attempts : permit'[a].state \in Active => permit[a].state \in Active
    BY DEF NewRevision, Active, SentBlocking
<1> QED
    BY <1>1 DEF OneActivePerBinding, NewRevision

\* What each kind of revision asks of the permits it finds or cancels.
LEMMA RevisionFences ==
    ASSUME TypeOK, RowsOK, Fences, NEW x, NewRevision(x),
           x.receipt => x.phase = "closed" /\ ~Blocked,
           x.phase = "closed" =>
              \A a \in Attempts : permit'[a].state # "reserved-not-sent",
           x.phase = "trial" => QuietForTrial
    PROVE  Fences'
<1>1. ClosedFence'
    BY DEF NewRevision, ClosedFence
<1>2. BarrierHolds'
    BY DEF NewRevision, BarrierHolds, Blocked, SentBlocking
<1>3. TrialRunsAlone'
    BY DEF NewRevision, TrialRunsAlone, QuietForTrial, Active, SentBlocking
<1> QED
    BY <1>1, <1>2, <1>3, RevisionQuota, RevisionBindings DEF Fences

LEMMA NoneReserved ==
    ASSUME TypeOK, CancelReserved
    PROVE  \A a \in Attempts : permit'[a].state # "reserved-not-sent"
BY Cancelled

LEMMA FencesOperator == TypeOK /\ RowsOK /\ Fences /\ Operator => Fences'
<1> SUFFICES ASSUME TypeOK, RowsOK, Fences, Operator PROVE Fences'
    OBVIOUS
<1>1. CASE CloseControl
    <2>1. NewRevision([phase |-> "closed", receipt |-> FALSE, mode |-> NextMode(Phase)])
        BY <1>1, Revised DEF CloseControl, Phases
    <2> QED
        BY <1>1, <2>1, NoneReserved, RevisionFences DEF CloseControl
<1>2. CASE OpenTrial
    <2>1. NewRevision([phase |-> "trial", receipt |-> FALSE, mode |-> NextMode(Phase)])
        BY <1>2, Revised DEF OpenTrial, Phases
    <2> QED
        BY <1>2, <2>1, RevisionFences DEF OpenTrial
<1>3. CASE OpenPublic
    <2>1. NewRevision([phase |-> "open", receipt |-> FALSE, mode |-> NextMode(Phase)])
        BY <1>3, Revised DEF OpenPublic, Phases
    <2> QED
        BY <2>1, RevisionFences
<1>4. CASE RecordBarrier
    <2>1. NewRevision([phase |-> "closed", receipt |-> TRUE, mode |-> revisions[Current].mode])
        BY <1>4, RevisedByBarrier
    <2> QED
        BY <1>4, <2>1, NoneReserved, RevisionFences DEF RecordBarrier
<1>5. CASE BarrierAccounting \/ RefuseBarrier
    <2>1. UNCHANGED <<revisions, permit, call>>
        BY <1>5 DEF BarrierAccounting, RefuseBarrier, process
    <2> QED
        BY <2>1
        DEF Fences, ClosedFence, BarrierHolds, TrialRunsAlone, OneActivePerBinding, QuotaInv,
            Reserved, TrialPermits, Phase, Barriered, Current
<1>6. ASSUME NEW a \in Attempts, Reconcile(a) PROVE Fences'
    BY <1>6, ReconcilePermits, FencesPermit
<1> QED
    BY <1>1, <1>2, <1>3, <1>4, <1>5, <1>6 DEF Operator

LEMMA FencesStep == TypeOK /\ RowsOK /\ Fences /\ [Next]_vars => Fences'
<1>1. ASSUME Fences, UNCHANGED vars PROVE Fences'
    BY <1>1
    DEF vars, control, process, Fences, ClosedFence, BarrierHolds, TrialRunsAlone,
        OneActivePerBinding, QuotaInv, Reserved, TrialPermits, Phase, Barriered, Current
<1> QED
    BY <1>1, FencesOperator, RuntimePermits, FencesPermit DEF Next

LEMMA FencesInit == Init => Fences
<1> SUFFICES ASSUME Init PROVE Fences
    OBVIOUS
<1>1. \A a \in Attempts : permit[a].state = "none"
    BY DEF Init
<1>2. Phase = "closed" /\ ~Barriered
    BY DEF Init, Phase, Barriered, Current
<1>3. Reserved = {} /\ \A r \in Requests : TrialPermits(r) = {}
    BY <1>1 DEF Reserved, TrialPermits
<1>4. QuotaInv
    BY <1>3, FS_EmptySet, CutoverAssumption DEF QuotaInv
<1> QED
    BY <1>1, <1>2, <1>4
    DEF Fences, ClosedFence, BarrierHolds, TrialRunsAlone, OneActivePerBinding, Active, SentBlocking

LEMMA CutoverAlways == Spec => []CutoverInv
<1>1. CutoverInv /\ [Next]_vars => CutoverInv'
    BY TypeStep, RowsStep, FencesStep DEF CutoverInv
<1>2. Init => CutoverInv
    BY TypeInit, RowsInit, FencesInit DEF CutoverInv
<1> QED
    BY <1>1, <1>2, PTL DEF Spec

\* While a barrier's receipt is current, no operation admitted before it is still
\* on its way: the barrier refuses what was sent and cancels what was not, and a
\* process that reserved earlier finds its permit cancelled or of another revision.
THEOREM BarrierIsQuiet == Spec => []BarrierHolds
<1>1. CutoverInv => BarrierHolds
    BY DEF CutoverInv, Fences
<1> QED
    BY <1>1, CutoverAlways, PTL

\* A trial shares the control with nothing that an earlier phase admitted.
THEOREM TrialIsAlone == Spec => []TrialRunsAlone
<1>1. CutoverInv => TrialRunsAlone
    BY DEF CutoverInv, Fences
<1> QED
    BY <1>1, CutoverAlways, PTL

\* Retries, redeliveries and dead processes never put one operation under way twice.
THEOREM OneAttemptUnderWay == Spec => []OneActivePerBinding
<1>1. CutoverInv => OneActivePerBinding
    BY DEF CutoverInv, Fences
<1> QED
    BY <1>1, CutoverAlways, PTL

\* Over all trials, a bound request is sent at most as often as its quota: what was
\* sent is among the permits the reservation counted.
THEOREM QuotaOverAllTrials == Spec => []TrialQuotaKept
<1>1. ASSUME TypeOK, QuotaInv, NEW r \in Requests
      PROVE  Cardinality({a \in Attempts :
                /\ permit[a].state \in SentBlocking \cup {"settled"}
                /\ revisions[permit[a].revision].phase = "trial"
                /\ call[a].binding = r}) <= MaximumReservations
    <2> DEFINE Sent == {a \in Attempts :
                /\ permit[a].state \in SentBlocking \cup {"settled"}
                /\ revisions[permit[a].revision].phase = "trial"
                /\ call[a].binding = r}
    <2>1. Sent \subseteq TrialPermits(r) /\ TrialPermits(r) \subseteq Reserved
        BY DEF TrialPermits, Reserved, SentBlocking
    <2> HIDE DEF Sent
    <2>2. IsFiniteSet(TrialPermits(r))
        BY <1>1, <2>1, FS_Subset DEF QuotaInv
    <2>3. IsFiniteSet(Sent) /\ Cardinality(Sent) <= Cardinality(TrialPermits(r))
        BY <2>1, <2>2, FS_Subset
    <2>4. Cardinality(Sent) \in Nat /\ Cardinality(TrialPermits(r)) \in Nat
        BY <2>2, <2>3, FS_CardinalityType
    <2>5. Cardinality(TrialPermits(r)) <= MaximumReservations
        BY <1>1 DEF QuotaInv
    <2>6. Cardinality(Sent) <= MaximumReservations
        BY <2>3, <2>4, <2>5, CutoverAssumption
    <2> QED
        BY <2>6 DEF Sent
<1>2. CutoverInv => TrialQuotaKept
    BY <1>1 DEF CutoverInv, Fences, TrialQuotaKept
<1> QED
    BY <1>2, CutoverAlways, PTL

\* Under a closed control only an owner's confirmation starts, whenever it was read,
\* reserved or overtaken by the closing.
THEOREM ClosedStartsConfirmations == Spec => ClosedStartsOnlyConfirms
<1> DEFINE Fenced == \A a \in Attempts :
                (Phase = "closed" /\ runner'[a] = "running" /\ runner[a] # "running")
                   => call[a].binding \in Candidates
<1>1. ASSUME CutoverInv, [Next]_vars PROVE [Fenced]_vars
    <2>1. ASSUME Operator \/ UNCHANGED vars PROVE Fenced
        BY <2>1
        DEF Operator, CloseControl, OpenTrial, OpenPublic, BarrierAccounting, RecordBarrier,
            RefuseBarrier, Reconcile, process, vars
    <2>2. ASSUME NEW b \in Attempts, Runtime(b) PROVE Fenced
        <3> SUFFICES ASSUME NEW a \in Attempts, Phase = "closed",
                            runner'[a] = "running", runner[a] # "running"
                     PROVE  call[a].binding \in Candidates
            OBVIOUS
        <3>1. a = b
            BY <1>1, <2>2, OthersKept DEF CutoverInv
        <3>2. runner \in [Attempts -> Runners]
            BY <1>1 DEF CutoverInv, TypeOK, Runners
        <3>3. Start(b)
            BY <2>2, <3>1, <3>2
            DEF Runtime, ReadControl, Reserve, LeaveJob, FinishJob, Confirm, Return, Throw,
                FinishSettled, FinishFails, FinishIndeterminate, ReserveAccounting,
                RefuseAccounting, ProviderSilent, ProviderResponds, CompleteAccounting, Die,
                Moves, process
        <3>4. StartAllowed(b)
            BY <3>1, <3>2, <3>3 DEF Start
        <3> QED
            BY <1>1, <3>1, <3>4 DEF StartAllowed, CutoverInv, Fences, ClosedFence
    <2> QED
        BY <1>1, <2>1, <2>2 DEF Next
<1>2. CutoverInv /\ [Next]_vars => [Fenced]_vars
    BY <1>1
<1> QED
    BY <1>2, CutoverAlways, PTL DEF Spec, ClosedStartsOnlyConfirms
=============================================================================
