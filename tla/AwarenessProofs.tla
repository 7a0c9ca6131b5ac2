---------------------------- MODULE AwarenessProofs ----------------------------
(* Theorems about AwarenessNarration for any receipts, scenes, workers, bounds *)
(* and faults.                                                                 *)
EXTENDS AwarenessRefinement, NaturalsInduction, WellFoundedInduction, TLAPS

-----------------------------------------------------------------------------
(* The inductive invariant.                                                  *)

\* The committed receipts have an entry; an entry that ended has its outbox row closed,
\* and the entries before it have ended as well.
EntriesOK ==
    /\ \A r \in Receipt : status[r] = "absent" <=> r > committed
    /\ \A r \in Receipt : status[r] \in Terminal => outbox[r] = "completed"
    /\ \A e, r \in Receipt : e < r /\ status[r] \in Terminal => status[e] \in Terminal

\* A task is about the head of the line, or about one that ended, under a generation that
\* its row has, or had.
TaskOK(t) ==
    /\ t.receipt <= committed
    /\ HeadOfLine(t.receipt)
    /\ t.generation <= generation[t.receipt]
    /\ t.generation = generation[t.receipt] => outbox[t.receipt] \in {"dispatched", "completed"}

TasksOK == \A t \in tasks : TaskOK(t)

\* The members of a batch follow one another from the receipt that names its attempt on,
\* and each receipt before that one has its text.
BatchOK(a) ==
    members[a] # {} =>
        /\ a \in members[a]
        /\ \A r \in members[a] : /\ a <= r /\ r <= committed
                                 /\ status[r] # "queued"
                                 /\ \A e \in Receipt : a <= e /\ e < r => e \in members[a]
        /\ \A e \in Receipt : e < a => status[e] = "completed"

BatchesOK == \A a \in Receipt : BatchOK(a)

\* Only a batch that was claimed costs anything, and only once it has been reserved.
BudgetOK ==
    \A a \in Receipt :
        /\ members[a] = {} \/ batch[a] = "claimed" =>
              request[a] = "none" /\ reservation[a] = "none" /\ ~outstanding[a]
        /\ request[a] # "none" => reservation[a] \in {"reserved", "unknown"}

\* The stages of a delivery that has captured the open receipts, and has an attempt.
CaptureStages == {"claiming", "failing", "abandoning"}

OwnStages == {"claimed", "reserved", "waiting", "closing", "closed", "fenced"}

\* What a delivery captured is a run of receipts with nothing open before it; a delivery
\* that goes on to claim found no failure among those.
CaptureOK(w) ==
    /\ captured[w] \subseteq 1..committed
    /\ \A r \in captured[w], e \in Receipt :
          e < r => e \in captured[w] \/ status[e] \in Terminal
    /\ pc[w] = "claiming" =>
          /\ captured[w] # {}
          /\ \A r \in captured[w], e \in Receipt :
                e < r => e \in captured[w] \/ status[e] = "completed"

\* The attempt of a delivery, and what its request has come to.
OwnOK(w) ==
    LET a == attempt[w] IN
    /\ a \in Receipt /\ members[a] # {}
    /\ pc[w] = "reserved" =>
          request[a] = "none" /\ outstanding[a] /\ reservation[a] \in {"reserved", "unknown"}
    /\ pc[w] = "closing" /\ result[w] = "unsent" => request[a] = "none"
    /\ pc[w] = "closing" /\ result[w] \in {"narratives", "rejected"} =>
          request[a] \in {"answered", "recorded"}

WorkerOK(w) ==
    /\ pc[w] # "idle" => task[w] \in Task /\ TaskOK(task[w])
    /\ pc[w] = "deferring" /\ Rearms(w) => generation[task[w].receipt] < MaxDeferrals
    /\ pc[w] \in CaptureStages => CaptureOK(w)
    /\ pc[w] \in OwnStages => OwnOK(w)

WorkersOK ==
    /\ \A w \in Workers : WorkerOK(w)
    /\ \A v, w \in Workers :
          pc[v] \in OwnStages /\ pc[w] \in OwnStages /\ attempt[v] = attempt[w] => v = w

AwarenessInv ==
    /\ TypeOK /\ EntriesOK /\ TasksOK /\ BatchesOK /\ BudgetOK /\ WorkersOK
    /\ NoGapInStory /\ BudgetTrueToProvider

-----------------------------------------------------------------------------
(* Receipts.                                                                 *)

USE DEF Open, Terminal

LEMMA ReceiptNumbers ==
    /\ N \in Nat /\ Receipt \subseteq Nat /\ 0 \notin Receipt
    /\ \A r \in Receipt : r <= N
    /\ NoTask \notin Task
BY AwarenessAssumption DEF Receipt, Task, NoTask

\* Among some receipts one is the first.
LEMMA FirstOf ==
    ASSUME NEW S \in SUBSET Receipt, S # {}
    PROVE  First(S) \in S /\ \A s \in S : First(S) <= s
<1> DEFINE less == OpToRel(<, Nat)
<1>s. S \subseteq Nat
    BY ReceiptNumbers
<1>1. \E a \in S : \A b \in S : <<b, a>> \notin less
    <2>1. IsWellFoundedOn(less, Nat)
        BY NatLessThanWellFounded
    <2> HIDE DEF less
    <2> QED
        BY <1>s, <2>1, WFMin
<1>2. PICK a \in S : \A b \in S : <<b, a>> \notin less
    BY <1>1
<1>3. ASSUME NEW b \in S PROVE a <= b
    <2>1. <<b, a>> \in Nat \X Nat /\ <<b, a>> \notin less
        BY <1>2, <1>s
    <2>2. ~(b < a)
        BY <2>1 DEF OpToRel
    <2> QED
        BY <1>s, <2>2
<1> QED
    BY <1>3 DEF First

\* A batch starts with the first receipt captured, and leaves none out.
LEMMA PrefixOf ==
    ASSUME NEW S \in SUBSET Receipt, S # {}
    PROVE  /\ Prefix(S) \subseteq S /\ First(S) \in Prefix(S)
           /\ First(Prefix(S)) = First(S)
           /\ \A r \in Prefix(S) :
                 /\ First(S) <= r
                 /\ \A e \in Receipt : First(S) <= e /\ e < r => e \in Prefix(S)
<1> DEFINE f == First(S)
           limit == IF Scene[f] \in Combat THEN 3 ELSE 1
           P == {r \in S : /\ r < f + limit
                           /\ \A e \in f..r : e \in S /\ Scene[e] = Scene[f]}
<1>1. f \in S /\ (\A s \in S : f <= s) /\ S \subseteq Nat
    BY FirstOf, ReceiptNumbers
<1>2. Prefix(S) = P
    BY DEF Prefix
<1>3. limit \in {1, 3}
    OBVIOUS
<1>4. P \subseteq S /\ f \in P
    <2>1. f \in Nat
        BY <1>1
    <2> HIDE DEF f, limit
    <2>2. \A e \in f..f : e = f
        BY <2>1
    <2> QED
        BY <1>1, <1>3, <2>1, <2>2
<1>5. ASSUME NEW r \in P, NEW e \in Receipt, f <= e, e < r PROVE e \in P
    <2> HIDE DEF f, limit
    <2>1. f \in Nat /\ e \in Nat /\ r \in Nat /\ limit \in Nat /\ r < f + limit
        BY <1>1, <1>3, ReceiptNumbers
    <2>2. e \in f..r /\ e < f + limit /\ f..e \subseteq f..r
        BY <1>5, <2>1
    <2> QED
        BY <2>2
<1>6. First(P) = f
    <2>1. First(P) \in P /\ \A s \in P : First(P) <= s
        BY <1>4, FirstOf
    <2>2. First(P) \in S /\ First(P) <= f
        BY <1>4, <2>1
    <2>3. f \in Nat /\ First(P) \in Nat /\ f <= First(P)
        BY <1>1, <2>2
    <2> HIDE DEF f, P
    <2> QED
        BY <2>2, <2>3
<1> HIDE DEF P
<1> QED
    BY <1>1, <1>2, <1>4, <1>5, <1>6

-----------------------------------------------------------------------------
(* What the steps write.                                                     *)

\* The types of the rows, as the proofs use them.
RowFuns ==
    /\ committed \in 0..N
    /\ status \in [Receipt -> {"absent", "queued", "generating", "completed", "failed"}]
    /\ batch \in [Receipt -> {"none", "claimed", "generating", "completed", "failed", "unknown"}]
    /\ members \in [Receipt -> SUBSET Receipt]
    /\ reservation \in [Receipt -> {"none", "reserved", "unknown", "settled"}]
    /\ outstanding \in [Receipt -> BOOLEAN]
    /\ outbox \in [Receipt -> {"absent", "pending", "dispatched", "completed"}]
    /\ generation \in [Receipt -> 0..MaxGeneration]
    /\ request \in [Receipt -> {"none", "running", "answered", "recorded", "lost"}]

LEMMA RowTypes == TypeOK => RowFuns
BY DEF TypeOK, RowsTypeOK, QueueTypeOK, EnvironmentTypeOK, RowFuns

LocalFuns ==
    /\ pc \in [Workers -> {"idle", "ready", "leaving", "deferring", "failing",
                           "abandoning", "claiming", "claimed", "reserved", "waiting",
                           "closing", "closed", "fenced", "answering"}]
    /\ task \in [Workers -> Task \cup {NoTask}]
    /\ captured \in [Workers -> SUBSET Receipt]
    /\ attempt \in [Workers -> 0..N]
    /\ result \in [Workers -> {"none", "narratives", "rejected", "unsent", "unknown"}]

LEMMA LocalTypes == TypeOK => LocalFuns
BY DEF TypeOK, WorkerTypeOK, LocalFuns

\* The steps that write the entries.
LEMMA EntryWriters ==
    ASSUME [Next]_vars
    PROVE  \/ UNCHANGED <<committed, status, members>>
           \/ EnqueueNarration
           \/ \E w \in Workers : RecordClaim(w) \/ PublishBatch(w) \/ FailBatch(w) \/ FailCaptured(w)
<1> DEFINE Same == UNCHANGED <<committed, status, members>>
<1> USE DEF rowVars, entryVars, batchVars
<1>1. ASSUME NEW r \in Receipt, DispatchNarration(r) \/ RecoverStaleNarrationOutbox(r) PROVE Same
    BY <1>1 DEF DispatchNarration, RecoverStaleNarrationOutbox
<1>2. ASSUME NEW w \in Workers, NEW t \in Task, StartDelivery(w, t) PROVE Same
    BY <1>2 DEF StartDelivery
<1>3. ASSUME NEW w \in Workers, WorkerStep(w) \/ Crash(w),
             ~(RecordClaim(w) \/ PublishBatch(w) \/ FailBatch(w) \/ FailCaptured(w))
      PROVE  Same
    <2>1. CASE LeaseBusy(w) \/ ClaimConflict(w) \/ StaleAttempt(w) \/ Answer(w) \/ Crash(w)
        BY <2>1 DEF LeaseBusy, ClaimConflict, StaleAttempt, Answer, Crash
    <2>2. CASE \/ CaptureNothing(w) \/ CaptureHopeless(w) \/ CaptureOverdueBatch(w)
               \/ CaptureBatch(w) \/ CaptureTooEarly(w)
        BY <2>2 DEF CaptureNothing, CaptureHopeless, CaptureOverdueBatch, CaptureBatch,
                    CaptureTooEarly, Captures
    <2>3. CASE Leave(w) \/ ReserveNarrationAttempt(w) \/ SendRequest(w) \/ CloseOwnReservation(w)
               \/ CheckFence(w)
        BY <2>3 DEF Leave, ReserveNarrationAttempt, SendRequest, CloseOwnReservation, CheckFence
    <2>4. CASE DispatchFails(w) \/ ReceiveAnswer(w) \/ GiveUpWaiting(w)
        BY <2>4 DEF DispatchFails, ReceiveAnswer, GiveUpWaiting, Ends
    <2> QED
        BY <1>3, <2>1, <2>2, <2>3, <2>4 DEF WorkerStep
<1>4. ASSUME NEW a \in Receipt, RequestEnds(a) \/ ObserveLateCompletion(a) \/ BatchDeadlinePasses(a)
      PROVE  Same
    BY <1>4 DEF RequestEnds, ObserveLateCompletion, BatchDeadlinePasses
<1>5. ASSUME NEW t \in Task, LoseTask(t) PROVE Same
    BY <1>5 DEF LoseTask
<1>6. CASE PublicationDeadlinePasses \/ LeaseExpires \/ Finished \/ UNCHANGED vars
    BY <1>6 DEF PublicationDeadlinePasses, LeaseExpires, Finished, vars
<1> QED
    BY <1>1, <1>2, <1>3, <1>4, <1>5, <1>6 DEF Next

\* A claim makes one batch of a run of queued receipts, the first of which names it.
Claims(w, a, S) ==
    /\ S \subseteq Receipt /\ a \in S
    /\ \A r \in S : /\ a <= r /\ r <= committed /\ status[r] = "queued"
                    /\ \A e \in Receipt : a <= e /\ e < r => e \in S
    /\ \A e \in Receipt : e < a => status[e] = "completed"
    /\ members[a] = {}
    /\ status' = [r \in Receipt |-> IF r \in S THEN "generating" ELSE status[r]]
    /\ members' = [members EXCEPT ![a] = S]
    /\ batch' = [batch EXCEPT ![a] = "claimed"]
    /\ attempt' = [attempt EXCEPT ![w] = a]
    /\ UNCHANGED <<committed, outbox, generation>>

LEMMA ClaimEffect ==
    ASSUME AwarenessInv, NEW w \in Workers, RecordClaim(w)
    PROVE  \E a \in Receipt, S \in SUBSET Receipt : Claims(w, a, S)
<1> DEFINE C == captured[w]
           S == Prefix(C)
           a == First(S)
<1>1. /\ C \in SUBSET Receipt /\ C # {} /\ C \subseteq 1..committed
      /\ \A r \in C, e \in Receipt : e < r => e \in C \/ status[e] = "completed"
    <2>1. C \in SUBSET Receipt
        BY LocalTypes DEF AwarenessInv, LocalFuns
    <2> QED
        BY <2>1 DEF RecordClaim, AwarenessInv, WorkersOK, WorkerOK, CaptureOK, CaptureStages
<1>2. /\ S \subseteq C /\ a \in S /\ First(C) = a /\ a \in C /\ \A r \in C : a <= r
      /\ \A r \in S : a <= r /\ \A e \in Receipt : a <= e /\ e < r => e \in S
    <2>1. C \in SUBSET Receipt /\ C # {}
        BY <1>1
    <2> HIDE DEF C
    <2> QED
        BY <2>1, PrefixOf, FirstOf
<1>3. \A r \in S : status[r] = "queued"
    BY DEF RecordClaim, StillQueued
<1>4. \A r \in S : r <= committed
    <2>1. committed \in Nat
        BY RowTypes, ReceiptNumbers DEF AwarenessInv, RowFuns
    <2> QED
        BY <1>1, <1>2, <2>1
<1>5. \A e \in Receipt : e < a => status[e] = "completed"
    <2>1. a \in Nat /\ Receipt \subseteq Nat
        BY <1>1, <1>2, ReceiptNumbers
    <2> HIDE DEF a
    <2> QED
        BY <1>1, <1>2, <2>1
<1>6. members[a] = {}
    BY <1>1, <1>2, <1>3 DEF AwarenessInv, BatchesOK, BatchOK
<1>7. /\ status' = [r \in Receipt |-> IF r \in S THEN "generating" ELSE status[r]]
      /\ members' = [members EXCEPT ![a] = S]
      /\ batch' = [batch EXCEPT ![a] = "claimed"]
      /\ attempt' = [attempt EXCEPT ![w] = a]
      /\ UNCHANGED <<committed, outbox, generation>>
    BY DEF RecordClaim, queueVars
<1>8. a \in Receipt /\ S \in SUBSET Receipt
    BY <1>1, <1>2
<1>9. Claims(w, a, S)
    <2> HIDE DEF C, S, a
    <2> QED
        BY <1>2, <1>3, <1>4, <1>5, <1>6, <1>7, <1>8 DEF Claims
<1> HIDE DEF C, S, a
<1> QED
    BY <1>8, <1>9

\* The text of a batch: none of its members has ended, and each receipt before it has one.
Publishes(a) ==
    /\ members[a] # {}
    /\ \A r \in members[a] : status[r] = "generating"
    /\ status' = [r \in Receipt |-> IF r \in members[a] THEN "completed" ELSE status[r]]
    /\ outbox' = [r \in Receipt |-> IF r \in members[a] THEN "completed" ELSE outbox[r]]
    /\ batch' = [batch EXCEPT ![a] = "completed"]
    /\ UNCHANGED <<committed, members, generation>>

\* The task of a delivery that publishes is about a member of its batch, or is settled:
\* the row it would re-arm heads the line, and so does the batch.
LEMMA PublishEffect ==
    ASSUME AwarenessInv, NEW w \in Workers, PublishBatch(w)
    PROVE  attempt[w] \in Receipt /\ Publishes(attempt[w])
<1> DEFINE a == attempt[w]
           input == task[w].receipt
<1>r. RowFuns
    BY RowTypes DEF AwarenessInv
<1>1. a \in Receipt /\ members[a] # {}
    BY DEF PublishBatch, AwarenessInv, WorkersOK, WorkerOK, OwnStages, OwnOK
<1>2. \A r \in members[a] : status[r] = "generating"
    BY DEF PublishBatch, StillGenerating
<1>3. /\ input \in Receipt /\ input <= committed /\ HeadOfLine(input)
    <2>1. pc[w] = "fenced"
        BY DEF PublishBatch
    <2>2. task[w] \in Task /\ TaskOK(task[w])
        BY <2>1 DEF AwarenessInv, WorkersOK, WorkerOK
    <2> QED
        BY <2>2 DEF Task, TaskOK
<1>4. ~(input \notin members[a] /\ Rearms(w))
    <2> SUFFICES ASSUME input \notin members[a], outbox[input] = "dispatched" PROVE FALSE
        BY DEF Rearms
    <2>1. status[input] \in Open
        <3>0. committed \in Nat /\ input \in Nat /\ input <= committed
            <4>1. committed \in Nat
                BY <1>r, ReceiptNumbers DEF RowFuns
            <4>2. input \in Nat
                <5> HIDE DEF input
                <5> QED
                    BY <1>3, ReceiptNumbers
            <4> QED
                BY <1>3, <4>1, <4>2
        <3>1. ~(input > committed)
            <4> HIDE DEF input
            <4> QED
                BY <3>0
        <3>2. status[input] # "absent" /\ status[input] \notin Terminal
            BY <1>3, <3>1 DEF AwarenessInv, EntriesOK
        <3> QED
            BY <1>3, <1>r, <3>2 DEF RowFuns
    <2>2. a \in members[a] /\ \A e \in Receipt : e < a => status[e] = "completed"
        BY <1>1 DEF AwarenessInv, BatchesOK, BatchOK
    <2>3. ~(input < a) /\ ~(a < input)
        BY <1>1, <1>2, <1>3, <2>1, <2>2 DEF HeadOfLine
    <2>4. input = a
        <3>1. input \in Nat /\ a \in Nat
            BY <1>1, <1>3, ReceiptNumbers
        <3> HIDE DEF input, a
        <3> QED
            BY <2>3, <3>1
    <2> QED
        BY <2>2, <2>4
<1>5. /\ status' = [r \in Receipt |-> IF r \in members[a] THEN "completed" ELSE status[r]]
      /\ batch' = [batch EXCEPT ![a] = "completed"]
      /\ UNCHANGED <<committed, members>>
    BY DEF PublishBatch
<1>6. UNCHANGED generation
    BY <1>4 DEF PublishBatch
<1>7. outbox' = [r \in Receipt |-> IF r \in members[a] THEN "completed" ELSE outbox[r]]
    <2>1. outbox' = [r \in Receipt |-> CASE r \in members[a] -> "completed"
                          [] r = input /\ input \notin members[a] /\ Rearms(w) -> "pending"
                          [] OTHER -> outbox[r]]
        BY DEF PublishBatch
    <2>2. \A r \in Receipt : r = input /\ input \notin members[a] /\ Rearms(w) <=> FALSE
        BY <1>4
    <2> QED
        BY <2>1, <2>2
<1> HIDE DEF a
<1> QED
    BY <1>1, <1>2, <1>5, <1>6, <1>7 DEF Publishes, a

\* What a failure takes with it: a run of receipts with nothing open before it.
Fails(S) ==
    /\ S \subseteq 1..committed
    /\ \A r \in S, e \in Receipt : e < r => e \in S \/ status[e] \in Terminal
    /\ FailEntries(S)
    /\ UNCHANGED <<committed, members, generation>>

LEMMA FailEffect ==
    ASSUME AwarenessInv, NEW w \in Workers, FailBatch(w) \/ FailCaptured(w)
    PROVE  \E S \in SUBSET Receipt : Fails(S)
<1>r. RowFuns /\ LocalFuns
    BY RowTypes, LocalTypes DEF AwarenessInv
<1>1. CASE FailBatch(w)
    <2> DEFINE a == attempt[w]
    <2>1. a \in Receipt /\ members[a] # {}
        BY <1>1 DEF FailBatch, AwarenessInv, WorkersOK, WorkerOK, OwnStages, OwnOK
    <2>2. members[a] \in SUBSET Receipt
        BY <1>r, <2>1 DEF RowFuns
    <2>3. FailEntries(members[a]) /\ UNCHANGED <<committed, members, generation>>
        BY <1>1 DEF FailBatch
    <2>4. /\ \A r \in members[a] : a <= r /\ r <= committed
          /\ \A r \in members[a], e \in Receipt : a <= e /\ e < r => e \in members[a]
          /\ \A e \in Receipt : e < a => status[e] = "completed"
        BY <2>1 DEF AwarenessInv, BatchesOK, BatchOK
    <2>5. members[a] \subseteq 1..committed
        <3>1. committed \in Nat
            BY <1>r, ReceiptNumbers DEF RowFuns
        <3> QED
            BY <2>2, <2>4, <3>1, ReceiptNumbers DEF Receipt
    <2>6. ASSUME NEW r \in members[a], NEW e \in Receipt, e < r
          PROVE  e \in members[a] \/ status[e] \in Terminal
        <3>1. a \in Nat /\ e \in Nat
            BY <2>1, ReceiptNumbers
        <3>2. a <= e \/ e < a
            <4> HIDE DEF a
            <4> QED
                BY <3>1
        <3> QED
            BY <2>4, <2>6, <3>2
    <2> HIDE DEF a
    <2>7. Fails(members[a])
        BY <2>3, <2>5, <2>6 DEF Fails
    <2> QED
        BY <2>2, <2>7
<1>2. CASE FailCaptured(w)
    <2>1. captured[w] \in SUBSET Receipt
        BY <1>r DEF LocalFuns
    <2>2. CaptureOK(w)
        BY <1>2 DEF FailCaptured, AwarenessInv, WorkersOK, WorkerOK, CaptureStages
    <2>3. Fails(captured[w])
        BY <1>2, <2>2 DEF FailCaptured, CaptureOK, Fails
    <2> QED
        BY <2>1, <2>3
<1> QED
    BY <1>1, <1>2

\* What became of the entries.
LEMMA EntryChanges ==
    ASSUME AwarenessInv, [Next]_vars
    PROVE  \/ UNCHANGED <<committed, status, members>>
           \/ EnqueueNarration
           \/ \E w \in Workers, a \in Receipt, S \in SUBSET Receipt : RecordClaim(w) /\ Claims(w, a, S)
           \/ \E a \in Receipt : Publishes(a)
           \/ \E S \in SUBSET Receipt : Fails(S)
BY EntryWriters, ClaimEffect, PublishEffect, FailEffect

-----------------------------------------------------------------------------
(* The entries.                                                              *)

\* What no step takes back: receipts stay committed, an entry that ended stays as it is,
\* nothing is queued or opened again, and the members of a batch stay.
Onward ==
    /\ committed <= committed'
    /\ \A r \in Receipt : /\ status[r] \in Terminal => status'[r] = status[r]
                          /\ r <= committed /\ status'[r] \in Open => status[r] \in Open
                          /\ r <= committed /\ status'[r] = "queued" => status[r] = "queued"
    /\ \A a \in Receipt : members[a] # {} => members'[a] = members[a]

LEMMA CommittedNumbers ==
    ASSUME TypeOK
    PROVE  committed \in Nat /\ committed <= N
<1>1. committed \in 0..N
    BY RowTypes DEF RowFuns
<1> QED
    BY <1>1, ReceiptNumbers

\* An enqueued receipt is the next one.
LEMMA EnqueueEffect ==
    ASSUME AwarenessInv, EnqueueNarration
    PROVE  /\ committed + 1 \in Receipt /\ committed' = committed + 1
           /\ status[committed + 1] = "absent"
           /\ status' = [status EXCEPT ![committed + 1] = "queued"]
           /\ outbox' = [outbox EXCEPT ![committed + 1] = "pending"]
           /\ UNCHANGED <<members, generation>>
<1>1. committed \in Nat /\ N \in Nat /\ committed < N
    BY CommittedNumbers, ReceiptNumbers DEF AwarenessInv, EnqueueNarration
<1>2. committed + 1 \in Receipt /\ committed + 1 > committed
    BY <1>1 DEF Receipt
<1>3. status[committed + 1] = "absent"
    BY <1>2 DEF AwarenessInv, EntriesOK
<1> QED
    BY <1>2, <1>3 DEF EnqueueNarration, batchVars

LEMMA EntriesGoOn ==
    ASSUME AwarenessInv, [Next]_vars
    PROVE  Onward
<1>r. /\ status \in [Receipt -> {"absent", "queued", "generating", "completed", "failed"}]
      /\ members \in [Receipt -> SUBSET Receipt]
      /\ committed \in Nat
    BY RowTypes, CommittedNumbers DEF AwarenessInv, RowFuns
<1>1. CASE UNCHANGED <<committed, status, members>>
    BY <1>1, <1>r DEF Onward
<1>2. CASE EnqueueNarration
    <2>1. PICK c \in Nat : c = committed
        BY <1>r
    <2>2. \A r \in Receipt : r <= c => r # c + 1
        BY ReceiptNumbers
    <2>3. /\ c + 1 \in Receipt /\ committed' = c + 1 /\ status[c + 1] = "absent"
          /\ status' = [status EXCEPT ![c + 1] = "queued"] /\ members' = members
        BY <1>2, <2>1, EnqueueEffect
    <2>4. \A r \in Receipt : status'[r] = IF r = c + 1 THEN "queued" ELSE status[r]
        BY <1>r, <2>3
    <2>5. committed <= committed'
        BY <2>1, <2>3
    <2> QED
        BY <2>1, <2>2, <2>3, <2>4, <2>5 DEF Onward
<1>3. ASSUME NEW w \in Workers, NEW a \in Receipt, NEW S \in SUBSET Receipt, Claims(w, a, S)
      PROVE  Onward
    <2>1. \A r \in Receipt : status'[r] = IF r \in S THEN "generating" ELSE status[r]
        BY <1>3 DEF Claims
    <2>2. \A r \in S : status[r] = "queued"
        BY <1>3 DEF Claims
    <2>3. /\ committed' = committed /\ members[a] = {}
          /\ \A b \in Receipt : b # a => members'[b] = members[b]
        BY <1>3, <1>r DEF Claims
    <2> QED
        BY <1>r, <2>1, <2>2, <2>3 DEF Onward
<1>4. ASSUME NEW a \in Receipt, Publishes(a) PROVE Onward
    <2>1. \A r \in Receipt : status'[r] = IF r \in members[a] THEN "completed" ELSE status[r]
        BY <1>4 DEF Publishes
    <2>2. (\A r \in members[a] : status[r] = "generating") /\ UNCHANGED <<committed, members>>
        BY <1>4 DEF Publishes
    <2> QED
        BY <1>r, <2>1, <2>2 DEF Onward
<1>5. ASSUME NEW S \in SUBSET Receipt, Fails(S) PROVE Onward
    <2>1. /\ \A r \in Receipt : status'[r] = IF r \in S /\ status[r] \in Open THEN "failed"
                                             ELSE status[r]
          /\ UNCHANGED <<committed, members>>
        BY <1>5 DEF Fails, FailEntries
    <2> QED
        BY <1>r, <2>1 DEF Onward
<1> QED
    BY <1>1, <1>2, <1>3, <1>4, <1>5, EntryChanges

\* The story has no hole, and results are public in order.
LEMMA StoryStep ==
    ASSUME AwarenessInv, [Next]_vars
    PROVE  /\ NoGapInStory'
           /\ \A e, r \in Receipt : e < r /\ status'[r] \in Terminal => status'[e] \in Terminal
           /\ \A r \in Receipt : status'[r] = "absent" <=> r > committed'
<1> DEFINE Goal ==
        /\ NoGapInStory'
        /\ \A e, r \in Receipt : e < r /\ status'[r] \in Terminal => status'[e] \in Terminal
        /\ \A r \in Receipt : status'[r] = "absent" <=> r > committed'
<1>r. /\ status \in [Receipt -> {"absent", "queued", "generating", "completed", "failed"}]
      /\ members \in [Receipt -> SUBSET Receipt]
      /\ committed \in Nat
    BY RowTypes, CommittedNumbers DEF AwarenessInv, RowFuns
<1>i. /\ NoGapInStory
      /\ \A e, r \in Receipt : e < r /\ status[r] \in Terminal => status[e] \in Terminal
      /\ \A r \in Receipt : status[r] = "absent" <=> r > committed
    BY DEF AwarenessInv, EntriesOK
<1>1. CASE UNCHANGED <<committed, status, members>>
    BY <1>1, <1>i DEF NoGapInStory
<1>2. CASE EnqueueNarration
    <2>1. PICK c \in Nat : c = committed
        BY <1>r
    <2>2. \A r \in Receipt : r > c + 1 <=> r > c /\ r # c + 1
        BY ReceiptNumbers
    <2>3. /\ c + 1 \in Receipt /\ committed' = c + 1 /\ status[c + 1] = "absent"
          /\ status' = [status EXCEPT ![c + 1] = "queued"]
        BY <1>2, <2>1, EnqueueEffect
    <2>4. \A r \in Receipt : status'[r] = IF r = c + 1 THEN "queued" ELSE status[r]
        BY <1>r, <2>3
    <2>5. \A r \in Receipt : status'[r] \in Terminal => status[r] = status'[r]
        BY <2>4
    <2>6. \A r \in Receipt : status[r] \in Terminal => status[r] = status'[r]
        BY <2>3, <2>4
    <2>7. \A r \in Receipt : status'[r] = "absent" <=> r > committed'
        BY <1>i, <2>1, <2>2, <2>3, <2>4
    <2> QED
        BY <1>i, <2>5, <2>6, <2>7 DEF NoGapInStory
<1>3. ASSUME NEW w \in Workers, NEW a \in Receipt, NEW S \in SUBSET Receipt, Claims(w, a, S)
      PROVE  Goal
    <2>1. /\ \A r \in Receipt : status'[r] = IF r \in S THEN "generating" ELSE status[r]
          /\ \A r \in S : status[r] = "queued"
          /\ committed' = committed
        BY <1>3 DEF Claims
    <2>2. \A r \in Receipt : /\ status'[r] \in Terminal <=> status[r] \in Terminal
                             /\ status'[r] \in Terminal => status'[r] = status[r]
                             /\ status'[r] = "absent" <=> status[r] = "absent"
        BY <2>1
    <2> QED
        BY <1>i, <2>1, <2>2 DEF NoGapInStory
<1>4. ASSUME NEW a \in Receipt, Publishes(a) PROVE Goal
    <2>1. /\ \A r \in Receipt : status'[r] = IF r \in members[a] THEN "completed" ELSE status[r]
          /\ \A r \in members[a] : status[r] = "generating"
          /\ committed' = committed
        BY <1>4 DEF Publishes
    <2>2. /\ \A r \in members[a], e \in Receipt : a <= e /\ e < r => e \in members[a]
          /\ \A e \in Receipt : e < a => status[e] = "completed"
        BY <1>4 DEF Publishes, AwarenessInv, BatchesOK, BatchOK
    <2>3. \A e, b \in Receipt : e < b \/ b <= e
        BY ReceiptNumbers
    <2>4. ASSUME NEW e \in Receipt, NEW r \in members[a], e < r PROVE status'[e] = "completed"
        BY <2>1, <2>2, <2>3, <2>4
    <2>5. \A r \in Receipt : status'[r] = "absent" <=> status[r] = "absent"
        BY <2>1
    <2>6. ASSUME NEW e \in Receipt, NEW r \in Receipt, e < r, status'[r] \in Terminal
          PROVE  /\ status'[e] \in Terminal
                 /\ status'[r] = "completed" => status'[e] = "completed"
        <3>1. CASE r \in members[a]
            BY <2>4, <2>6, <3>1
        <3>2. CASE r \notin members[a]
            <4>1. status'[r] = status[r]
                BY <2>1, <3>2
            <4>2. /\ status[e] \in Terminal
                  /\ status[r] = "completed" => status[e] = "completed"
                BY <1>i, <2>6, <4>1 DEF NoGapInStory
            <4> QED
                BY <2>1, <4>1, <4>2
        <3> QED
            BY <3>1, <3>2
    <2> QED
        BY <1>i, <2>1, <2>5, <2>6 DEF NoGapInStory
<1>5. ASSUME NEW S \in SUBSET Receipt, Fails(S) PROVE Goal
    <2>1. /\ \A r \in Receipt : status'[r] = IF r \in S /\ status[r] \in Open THEN "failed"
                                             ELSE status[r]
          /\ committed' = committed
          /\ \A r \in S, e \in Receipt : e < r => e \in S \/ status[e] \in Terminal
        BY <1>5 DEF Fails, FailEntries
    <2>2. \A r \in Receipt : /\ status'[r] = "absent" <=> status[r] = "absent"
                             /\ status'[r] = "completed" <=> status[r] = "completed"
                             /\ status[r] \in Terminal => status'[r] \in Terminal
        BY <2>1
    <2>3. ASSUME NEW e \in Receipt, NEW r \in Receipt, e < r, status'[r] \in Terminal
          PROVE  status'[e] \in Terminal
        <3>1. CASE status[r] \in Terminal
            BY <1>i, <2>2, <2>3, <3>1
        <3>2. CASE status[r] \notin Terminal
            <4>1. r \in S /\ status[r] \in Open
                BY <2>1, <2>3, <3>2
            <4>2. e \in S \/ status[e] \in Terminal
                BY <2>1, <2>3, <4>1
            <4>3. status[e] # "absent"
                <5>1. /\ status[r] # "absent" /\ e \in Nat /\ r \in Nat
                    BY <4>1, ReceiptNumbers
                <5>2. ~(r > committed)
                    BY <1>i, <5>1
                <5>3. ~(e > committed)
                    BY <1>r, <2>3, <5>1, <5>2
                <5> QED
                    BY <1>i, <5>3
            <4> QED
                BY <1>r, <2>1, <2>2, <4>2, <4>3
        <3> QED
            BY <3>1, <3>2
    <2> QED
        BY <1>i, <2>1, <2>2, <2>3 DEF NoGapInStory
<1> QED
    BY <1>1, <1>2, <1>3, <1>4, <1>5, EntryChanges

-----------------------------------------------------------------------------
(* The outbox and the tasks.                                                 *)

\* A dispatched row is re-armed under the next generation.
Rearmed(r) ==
    /\ outbox[r] = "dispatched"
    /\ generation[r] < MaxGeneration
    /\ outbox' = [outbox EXCEPT ![r] = "pending"]
    /\ generation' = [generation EXCEPT ![r] = generation[r] + 1]
    /\ UNCHANGED <<committed, status>>

\* The receipt of a delivery, and its task.
LEMMA DeliveredTask ==
    ASSUME AwarenessInv, NEW w \in Workers, pc[w] # "idle"
    PROVE  task[w] \in Task /\ TaskOK(task[w]) /\ task[w].receipt \in Receipt
BY DEF AwarenessInv, WorkersOK, WorkerOK, Task

LEMMA LeaveEffect ==
    ASSUME AwarenessInv, NEW w \in Workers, Leave(w)
    PROVE  \/ UNCHANGED <<outbox, generation, committed, status>>
           \/ \E r \in Receipt : Rearmed(r)
<1>1. PICK r \in Receipt : r = task[w].receipt
    BY DeliveredTask DEF Leave
<1>2. UNCHANGED <<committed, status>>
    BY DEF Leave, rowVars, entryVars
<1>3. CASE pc[w] = "deferring" /\ Rearms(w)
    <2>1. generation[r] < MaxDeferrals
        BY <1>1, <1>3 DEF AwarenessInv, WorkersOK, WorkerOK
    <2>2. MaxDeferrals \in Nat /\ MaxDeferrals <= MaxGeneration /\ MaxGeneration \in Nat
        BY AwarenessAssumption
    <2>3. generation[r] \in 0..MaxGeneration
        BY RowTypes DEF AwarenessInv, RowFuns
    <2>4. generation[r] < MaxGeneration
        BY <2>1, <2>2, <2>3
    <2>5. Rearmed(r)
        BY <1>1, <1>2, <1>3, <2>4 DEF Leave, Rearms, Rearmed
    <2> QED
        BY <2>5
<1>4. CASE ~(pc[w] = "deferring" /\ Rearms(w))
    BY <1>2, <1>4 DEF Leave
<1> QED
    BY <1>3, <1>4

LEMMA RecoverEffect ==
    ASSUME NEW r \in Receipt, RecoverStaleNarrationOutbox(r)
    PROVE  Rearmed(r)
BY DEF RecoverStaleNarrationOutbox, Rearmed, rowVars, entryVars

\* The steps that write the outbox.
LEMMA OutboxWriters ==
    ASSUME AwarenessInv, [Next]_vars
    PROVE  \/ UNCHANGED <<outbox, generation, committed, status>>
           \/ EnqueueNarration
           \/ \E r \in Receipt : DispatchNarration(r) \/ Rearmed(r)
           \/ \E w \in Workers, a \in Receipt, S \in SUBSET Receipt : Claims(w, a, S)
           \/ \E a \in Receipt : Publishes(a)
           \/ \E S \in SUBSET Receipt : Fails(S)
<1> DEFINE Same == UNCHANGED <<outbox, generation, committed, status>>
<1>2. ASSUME NEW w \in Workers, NEW t \in Task, StartDelivery(w, t) PROVE Same
    BY <1>2 DEF StartDelivery, rowVars, entryVars
<1>3. ASSUME NEW w \in Workers, WorkerStep(w) \/ Crash(w), ~Leave(w),
             ~(RecordClaim(w) \/ PublishBatch(w) \/ FailBatch(w) \/ FailCaptured(w))
      PROVE  Same
    <2> USE DEF rowVars, entryVars, queueVars
    <2>1. CASE LeaseBusy(w) \/ ClaimConflict(w) \/ StaleAttempt(w) \/ Answer(w) \/ Crash(w)
        BY <2>1 DEF LeaseBusy, ClaimConflict, StaleAttempt, Answer, Crash
    <2>2. CASE \/ CaptureNothing(w) \/ CaptureHopeless(w) \/ CaptureOverdueBatch(w)
               \/ CaptureBatch(w) \/ CaptureTooEarly(w)
        BY <2>2 DEF CaptureNothing, CaptureHopeless, CaptureOverdueBatch, CaptureBatch,
                    CaptureTooEarly, Captures
    <2>3. CASE ReserveNarrationAttempt(w) \/ SendRequest(w) \/ CloseOwnReservation(w)
               \/ CheckFence(w)
        BY <2>3 DEF ReserveNarrationAttempt, SendRequest, CloseOwnReservation, CheckFence
    <2>4. CASE DispatchFails(w) \/ ReceiveAnswer(w) \/ GiveUpWaiting(w)
        BY <2>4 DEF DispatchFails, ReceiveAnswer, GiveUpWaiting, Ends
    <2> QED
        BY <1>3, <2>1, <2>2, <2>3, <2>4 DEF WorkerStep
<1>4. ASSUME NEW a \in Receipt, RequestEnds(a) \/ ObserveLateCompletion(a) \/ BatchDeadlinePasses(a)
      PROVE  Same
    BY <1>4 DEF RequestEnds, ObserveLateCompletion, BatchDeadlinePasses, rowVars, entryVars, queueVars
<1>5. ASSUME NEW t \in Task, LoseTask(t) PROVE Same
    BY <1>5 DEF LoseTask, rowVars, entryVars
<1>6. CASE PublicationDeadlinePasses \/ LeaseExpires \/ Finished \/ UNCHANGED vars
    BY <1>6 DEF PublicationDeadlinePasses, LeaseExpires, Finished, vars, rowVars, entryVars, queueVars
<1> QED
    BY <1>2, <1>3, <1>4, <1>5, <1>6, LeaveEffect, RecoverEffect, ClaimEffect, PublishEffect,
       FailEffect
    DEF Next

\* The generation of a row never falls; under one generation a row that was dispatched
\* stays so or is closed, and a closed row stays closed.
LEMMA OutboxGoesOn ==
    ASSUME AwarenessInv, [Next]_vars
    PROVE  /\ outbox' \in [Receipt -> {"absent", "pending", "dispatched", "completed"}]
           /\ generation' \in [Receipt -> 0..MaxGeneration]
           /\ \A r \in Receipt :
                 /\ status'[r] \in Terminal => outbox'[r] = "completed"
                 /\ generation[r] <= generation'[r]
                 /\ r <= committed /\ outbox[r] = "completed" => outbox'[r] = "completed"
                 /\ (r <= committed /\ outbox[r] = "dispatched" /\ generation'[r] = generation[r])
                       => outbox'[r] \in {"dispatched", "completed"}
<1> DEFINE Row(r) ==
        /\ outbox'[r] \in {"absent", "pending", "dispatched", "completed"}
        /\ generation'[r] \in 0..MaxGeneration
        /\ status'[r] \in Terminal => outbox'[r] = "completed"
        /\ generation[r] <= generation'[r]
        /\ r <= committed /\ outbox[r] = "completed" => outbox'[r] = "completed"
        /\ (r <= committed /\ outbox[r] = "dispatched" /\ generation'[r] = generation[r])
              => outbox'[r] \in {"dispatched", "completed"}
    Goal == /\ DOMAIN outbox' = Receipt /\ DOMAIN generation' = Receipt
            /\ outbox' = [r \in Receipt |-> outbox'[r]]
            /\ generation' = [r \in Receipt |-> generation'[r]]
            /\ \A r \in Receipt : Row(r)
<1>r. /\ status \in [Receipt -> {"absent", "queued", "generating", "completed", "failed"}]
      /\ outbox \in [Receipt -> {"absent", "pending", "dispatched", "completed"}]
      /\ generation \in [Receipt -> 0..MaxGeneration]
      /\ committed \in Nat /\ MaxGeneration \in Nat
    BY RowTypes, CommittedNumbers, AwarenessAssumption DEF AwarenessInv, RowFuns
<1>n. \A r \in Receipt : generation[r] <= generation[r]
    BY <1>r
<1>i. \A r \in Receipt : status[r] \in Terminal => outbox[r] = "completed"
    BY DEF AwarenessInv, EntriesOK
<1>1. CASE UNCHANGED <<outbox, generation, committed, status>>
    BY <1>1, <1>r, <1>n, <1>i
<1>2. CASE EnqueueNarration
    <2>1. PICK c \in Nat : c = committed
        BY <1>r
    <2>2. \A r \in Receipt : r <= c => r # c + 1
        BY ReceiptNumbers
    <2>3. /\ c + 1 \in Receipt /\ status' = [status EXCEPT ![c + 1] = "queued"]
          /\ outbox' = [outbox EXCEPT ![c + 1] = "pending"] /\ generation' = generation
        BY <1>2, <2>1, EnqueueEffect
    <2>4. ASSUME NEW r \in Receipt PROVE Row(r)
        <3>1. CASE r = c + 1
            BY <1>r, <1>n, <2>1, <2>2, <2>3, <3>1
        <3>2. CASE r # c + 1
            BY <1>r, <1>n, <1>i, <2>3, <3>2
        <3> QED
            BY <3>1, <3>2
    <2> QED
        BY <1>r, <2>3, <2>4
<1>3. ASSUME NEW r \in Receipt, DispatchNarration(r) PROVE Goal
    <2>1. /\ outbox' = [outbox EXCEPT ![r] = "dispatched"] /\ outbox[r] = "pending"
          /\ status[r] \in Open /\ UNCHANGED <<status, generation>>
        BY <1>3 DEF DispatchNarration, rowVars, entryVars
    <2> QED
        BY <1>r, <1>n, <1>i, <2>1
<1>4. ASSUME NEW r \in Receipt, Rearmed(r) PROVE Goal
    <2>1. PICK g \in Nat : g = generation[r] /\ g < MaxGeneration
        BY <1>4, <1>r DEF Rearmed
    <2>2. g + 1 \in 0..MaxGeneration /\ g <= g + 1 /\ g + 1 # g
        BY <1>r, <2>1
    <2>3. /\ outbox' = [outbox EXCEPT ![r] = "pending"] /\ outbox[r] = "dispatched"
          /\ generation' = [generation EXCEPT ![r] = g + 1] /\ status' = status
        BY <1>4, <2>1 DEF Rearmed
    <2>4. ASSUME NEW e \in Receipt PROVE Row(e)
        <3>1. CASE e = r
            BY <1>r, <1>i, <2>1, <2>2, <2>3, <3>1
        <3>2. CASE e # r
            BY <1>r, <1>n, <1>i, <2>3, <3>2
        <3> QED
            BY <3>1, <3>2
    <2> QED
        BY <1>r, <2>3, <2>4
<1>5. ASSUME NEW w \in Workers, NEW a \in Receipt, NEW S \in SUBSET Receipt, Claims(w, a, S)
      PROVE  Goal
    <2>1. /\ \A r \in Receipt : status'[r] = IF r \in S THEN "generating" ELSE status[r]
          /\ UNCHANGED <<outbox, generation>>
        BY <1>5 DEF Claims
    <2> QED
        BY <1>r, <1>n, <1>i, <2>1
<1>6. ASSUME NEW a \in Receipt, Publishes(a) PROVE Goal
    <2>1. /\ \A r \in Receipt : status'[r] = IF r \in members[a] THEN "completed" ELSE status[r]
          /\ outbox' = [r \in Receipt |-> IF r \in members[a] THEN "completed" ELSE outbox[r]]
          /\ generation' = generation
        BY <1>6 DEF Publishes
    <2> QED
        BY <1>r, <1>n, <1>i, <2>1
<1>7. ASSUME NEW S \in SUBSET Receipt, Fails(S) PROVE Goal
    <2>1. /\ \A r \in Receipt : status'[r] = IF r \in S /\ status[r] \in Open THEN "failed"
                                             ELSE status[r]
          /\ outbox' = [r \in Receipt |-> IF r \in S THEN "completed" ELSE outbox[r]]
          /\ generation' = generation
        BY <1>7 DEF Fails, FailEntries
    <2> QED
        BY <1>r, <1>n, <1>i, <2>1
<1>8. Goal
    BY <1>1, <1>2, <1>3, <1>4, <1>5, <1>6, <1>7, OutboxWriters
<1> QED
    BY <1>8

\* A task that was about the head of the line still is.
LEMMA TaskStays ==
    ASSUME AwarenessInv, [Next]_vars, NEW t \in Task, TaskOK(t)
    PROVE  TaskOK(t)'
<1>1. PICK r \in Receipt, g \in Nat : r = t.receipt /\ g = t.generation
    BY DEF Task
<1>2. /\ r <= committed /\ HeadOfLine(r) /\ g <= generation[r]
      /\ g = generation[r] => outbox[r] \in {"dispatched", "completed"}
    BY <1>1 DEF TaskOK
<1>3. committed \in Nat /\ committed' >= committed /\ committed' \in Nat
    <2>1. committed' = committed \/ committed' = committed + 1
        BY EntryWriters, EnqueueEffect
        DEF RecordClaim, PublishBatch, FailBatch, FailCaptured
    <2> QED
        BY <2>1, CommittedNumbers DEF AwarenessInv
<1>4. r <= committed'
    BY <1>2, <1>3, ReceiptNumbers
<1>5. HeadOfLine(r)'
    <2> SUFFICES ASSUME NEW e \in Receipt, e < r PROVE status'[e] \notin Open
        BY DEF HeadOfLine
    <2>1. e <= committed
        BY <1>2, <1>3, ReceiptNumbers
    <2>2. status[e] \notin Open
        BY <1>2 DEF HeadOfLine
    <2> QED
        BY <2>1, <2>2, EntriesGoOn DEF Onward
<1>6. /\ g <= generation'[r]
      /\ g = generation'[r] => outbox'[r] \in {"dispatched", "completed"}
    <2>1. /\ generation[r] \in Nat /\ generation'[r] \in Nat /\ generation[r] <= generation'[r]
        BY OutboxGoesOn, RowTypes, AwarenessAssumption DEF AwarenessInv, RowFuns
    <2>2. g = generation'[r] => g = generation[r]
        BY <1>2, <2>1
    <2> QED
        BY <1>2, <2>1, <2>2, OutboxGoesOn
<1> QED
    BY <1>1, <1>4, <1>5, <1>6 DEF TaskOK, HeadOfLine

\* The steps that write the tasks.
LEMMA TaskWriters ==
    ASSUME AwarenessInv, [Next]_vars
    PROVE  \/ tasks' \subseteq tasks
           \/ \E r \in Receipt : DispatchNarration(r)
<1> USE DEF queueVars
<1>1. ASSUME NEW r \in Receipt, RecoverStaleNarrationOutbox(r) PROVE tasks' = tasks
    BY <1>1 DEF RecoverStaleNarrationOutbox
<1>2. ASSUME NEW w \in Workers, NEW t \in Task, StartDelivery(w, t) PROVE tasks' \subseteq tasks
    BY <1>2 DEF StartDelivery
<1>3. ASSUME NEW w \in Workers, WorkerStep(w) \/ Crash(w) PROVE tasks' \subseteq tasks
    <2>1. CASE LeaseBusy(w) \/ ClaimConflict(w) \/ StaleAttempt(w) \/ Answer(w) \/ Crash(w)
        BY <2>1 DEF LeaseBusy, ClaimConflict, StaleAttempt, Answer, Crash
    <2>2. CASE \/ CaptureNothing(w) \/ CaptureHopeless(w) \/ CaptureOverdueBatch(w)
               \/ CaptureBatch(w) \/ CaptureTooEarly(w)
        BY <2>2 DEF CaptureNothing, CaptureHopeless, CaptureOverdueBatch, CaptureBatch,
                    CaptureTooEarly, Captures
    <2>3. CASE ReserveNarrationAttempt(w) \/ SendRequest(w) \/ CloseOwnReservation(w)
               \/ CheckFence(w)
        BY <2>3 DEF ReserveNarrationAttempt, SendRequest, CloseOwnReservation, CheckFence
    <2>4. CASE DispatchFails(w) \/ ReceiveAnswer(w) \/ GiveUpWaiting(w)
        BY <2>4 DEF DispatchFails, ReceiveAnswer, GiveUpWaiting, Ends
    <2>5. CASE Leave(w) \/ RecordClaim(w) \/ PublishBatch(w) \/ FailBatch(w) \/ FailCaptured(w)
        BY <2>5 DEF Leave, RecordClaim, PublishBatch, FailBatch, FailCaptured
    <2> QED
        BY <1>3, <2>1, <2>2, <2>3, <2>4, <2>5 DEF WorkerStep
<1>4. ASSUME NEW a \in Receipt, RequestEnds(a) \/ ObserveLateCompletion(a) \/ BatchDeadlinePasses(a)
      PROVE  tasks' = tasks
    BY <1>4 DEF RequestEnds, ObserveLateCompletion, BatchDeadlinePasses
<1>5. ASSUME NEW t \in Task, LoseTask(t) PROVE tasks' \subseteq tasks
    BY <1>5 DEF LoseTask
<1>6. CASE \/ PublicationDeadlinePasses \/ LeaseExpires \/ Finished \/ UNCHANGED vars
           \/ EnqueueNarration
    BY <1>6 DEF PublicationDeadlinePasses, LeaseExpires, Finished, vars, EnqueueNarration
<1> QED
    BY <1>1, <1>2, <1>3, <1>4, <1>5, <1>6 DEF Next

LEMMA TasksStep ==
    ASSUME AwarenessInv, [Next]_vars
    PROVE  tasks' \subseteq Task /\ TasksOK'
<1>0. tasks \subseteq Task /\ \A t \in tasks : TaskOK(t)
    BY DEF AwarenessInv, TypeOK, QueueTypeOK, TasksOK
<1>1. \A t \in tasks : TaskOK(t)'
    BY <1>0, TaskStays
<1>2. CASE tasks' \subseteq tasks
    BY <1>0, <1>1, <1>2 DEF TasksOK
<1>3. ASSUME NEW r \in Receipt, DispatchNarration(r) PROVE tasks' \subseteq Task /\ TasksOK'
    <2> DEFINE new == [receipt |-> r, generation |-> generation[r]]
    <2>1. /\ outbox[r] = "pending" /\ status[r] \in Open /\ HeadOfLine(r)
          /\ outbox' = [outbox EXCEPT ![r] = "dispatched"]
          /\ tasks' = tasks \cup {new}
          /\ UNCHANGED <<committed, status, generation>>
        BY <1>3 DEF DispatchNarration, rowVars, entryVars
    <2>2. generation[r] \in 0..MaxGeneration /\ outbox \in [Receipt -> {"absent", "pending",
                                                            "dispatched", "completed"}]
        BY RowTypes DEF AwarenessInv, RowFuns
    <2>3. new \in Task /\ new.receipt = r /\ new.generation = generation[r]
        BY <2>2 DEF Task
    <2>4. r <= committed
        <3>1. ~(r > committed)
            BY <2>1 DEF AwarenessInv, EntriesOK
        <3> QED
            BY <3>1, CommittedNumbers, ReceiptNumbers DEF AwarenessInv
    <2>5. generation'[r] <= generation'[r]
        BY <2>1, <2>2, AwarenessAssumption
    <2>6. ASSUME NEW t \in Task, t = new PROVE TaskOK(t)'
        BY <2>1, <2>2, <2>3, <2>4, <2>5, <2>6 DEF TaskOK, HeadOfLine
    <2> HIDE DEF new
    <2>7. tasks' \subseteq Task
        BY <1>0, <2>1, <2>3
    <2>8. ASSUME NEW t \in tasks' PROVE TaskOK(t)'
        <3>1. t \in tasks \/ t = new
            BY <2>1
        <3> QED
            BY <1>1, <2>3, <2>6, <3>1
    <2> QED
        BY <2>7, <2>8 DEF TasksOK
<1> QED
    BY <1>2, <1>3, TaskWriters

-----------------------------------------------------------------------------
(* The batches.                                                              *)

LEMMA BatchesStep ==
    ASSUME AwarenessInv, [Next]_vars
    PROVE  members' \in [Receipt -> SUBSET Receipt] /\ BatchesOK'
<1>r. /\ members \in [Receipt -> SUBSET Receipt]
      /\ committed \in Nat
    BY RowTypes, CommittedNumbers DEF AwarenessInv, RowFuns
<1>o. Onward
    BY EntriesGoOn
<1>c. \A r \in Receipt : r <= committed => r <= committed'
    <2>1. committed' = committed \/ committed' = committed + 1
        BY EntryWriters, EnqueueEffect
        DEF RecordClaim, PublishBatch, FailBatch, FailCaptured
    <2> QED
        BY <1>r, <2>1, ReceiptNumbers
\* A batch whose members stay.
<1>1. ASSUME NEW a \in Receipt, members'[a] = members[a] PROVE BatchOK(a)'
    <2> SUFFICES ASSUME members[a] # {}
                 PROVE  /\ a \in members[a]
                        /\ \A r \in members[a] :
                              /\ a <= r /\ r <= committed'
                              /\ status'[r] # "queued"
                              /\ \A e \in Receipt : a <= e /\ e < r => e \in members[a]
                        /\ \A e \in Receipt : e < a => status'[e] = "completed"
        BY <1>1 DEF BatchOK
    <2>1. BatchOK(a)
        BY DEF AwarenessInv, BatchesOK
    <2>2. members[a] \subseteq Receipt
        BY <1>r
    <2>3. \A r \in members[a] : status'[r] # "queued" /\ r <= committed'
        BY <1>o, <1>c, <2>1, <2>2 DEF BatchOK, Onward
    <2>4. \A e \in Receipt : e < a => status'[e] = "completed"
        BY <1>o, <2>1 DEF BatchOK, Onward
    <2> QED
        BY <2>1, <2>3, <2>4 DEF BatchOK
<1>2. CASE members' = members
    BY <1>1, <1>2, <1>r DEF BatchesOK
<1>3. ASSUME NEW w \in Workers, NEW a \in Receipt, NEW S \in SUBSET Receipt, Claims(w, a, S)
      PROVE  members' \in [Receipt -> SUBSET Receipt] /\ BatchesOK'
    <2>1. members' = [members EXCEPT ![a] = S] /\ a \in S /\ UNCHANGED committed
        BY <1>3 DEF Claims
    <2>2. \A b \in Receipt : b # a => BatchOK(b)'
        BY <1>1, <1>r, <2>1
    <2>3. \A r \in S : status'[r] = "generating"
        BY <1>3 DEF Claims
    <2>4. \A e \in Receipt : e < a => status'[e] = "completed"
        BY <1>3, <1>o DEF Claims, Onward
    <2>5. \A r \in S : /\ a <= r /\ r <= committed
                       /\ \A e \in Receipt : a <= e /\ e < r => e \in S
        BY <1>3 DEF Claims
    <2>6. BatchOK(a)'
        BY <1>r, <2>1, <2>3, <2>4, <2>5 DEF BatchOK
    <2> QED
        BY <1>r, <2>1, <2>2, <2>6 DEF BatchesOK
<1> QED
    BY <1>2, <1>3, EntryChanges, EnqueueEffect DEF Publishes, Fails

-----------------------------------------------------------------------------
(* The budget and the provider.                                              *)

\* What an attempt costs, and what its request has come to.
CostOK(a) ==
    /\ members[a] = {} \/ batch[a] = "claimed" =>
          request[a] = "none" /\ reservation[a] = "none" /\ ~outstanding[a]
    /\ request[a] # "none" => reservation[a] \in {"reserved", "unknown"}
    /\ request[a] = "running" => outstanding[a]
    /\ request[a] = "recorded" => ~outstanding[a]
    /\ reservation[a] = "settled" => request[a] = "none"

CostFuns ==
    /\ batch \in [Receipt -> {"none", "claimed", "generating", "completed", "failed", "unknown"}]
    /\ reservation \in [Receipt -> {"none", "reserved", "unknown", "settled"}]
    /\ outstanding \in [Receipt -> BOOLEAN]
    /\ request \in [Receipt -> {"none", "running", "answered", "recorded", "lost"}]

CostSame(a) ==
    /\ members'[a] = members[a] /\ batch'[a] = batch[a] /\ request'[a] = request[a]
    /\ reservation'[a] = reservation[a] /\ outstanding'[a] = outstanding[a]

LEMMA CostOfRow ==
    AwarenessInv => /\ CostFuns /\ members \in [Receipt -> SUBSET Receipt]
                    /\ \A a \in Receipt : CostOK(a)
BY RowTypes DEF AwarenessInv, RowFuns, CostFuns, BudgetOK, BudgetTrueToProvider, CostOK

\* A settlement is about one attempt.
LEMMA SettleEffect ==
    ASSUME CostFuns, NEW a, NEW x \in {"unknown", "settled"}, NEW y \in BOOLEAN, Settle(a, x, y)
    PROVE  /\ reservation' \in [Receipt -> {"none", "reserved", "unknown", "settled"}]
           /\ outstanding' \in [Receipt -> BOOLEAN]
           /\ \A b \in Receipt : b # a => /\ reservation'[b] = reservation[b]
                                          /\ outstanding'[b] = outstanding[b]
           /\ a \in Receipt =>
                 IF reservation[a] \in {"none", "settled"}
                 THEN reservation'[a] = reservation[a] /\ outstanding'[a] = outstanding[a]
                 ELSE reservation'[a] = x /\ outstanding'[a] = y
<1>1. CASE a \in Receipt /\ reservation[a] \notin {"none", "settled"}
    <2>1. /\ reservation' = [reservation EXCEPT ![a] = x]
          /\ outstanding' = [outstanding EXCEPT ![a] = y]
        BY <1>1 DEF Settle
    <2> QED
        BY <1>1, <2>1 DEF CostFuns
<1>2. CASE ~(a \in Receipt /\ reservation[a] \notin {"none", "settled"})
    BY <1>2 DEF Settle, CostFuns, budgetVars
<1> QED
    BY <1>1, <1>2

\* One attempt's row changes.
LEMMA CostChange ==
    ASSUME AwarenessInv, NEW a \in Receipt, CostOK(a)',
           \A b \in Receipt : b # a => CostSame(b)
    PROVE  \A b \in Receipt : CostOK(b)'
BY CostOfRow DEF CostOK, CostSame

LEMMA CostStep ==
    ASSUME AwarenessInv, [Next]_vars
    PROVE  \A b \in Receipt : CostOK(b)'
<1> DEFINE Goal == \A b \in Receipt : CostOK(b)'
<1> USE DEF rowVars, entryVars, batchVars, budgetVars
<1>r. CostFuns /\ members \in [Receipt -> SUBSET Receipt] /\ \A a \in Receipt : CostOK(a)
    BY CostOfRow
<1>0. CASE UNCHANGED <<members, batch, request, reservation, outstanding>>
    BY <1>0, <1>r DEF CostOK
<1>a. ASSUME NEW w \in Workers, pc[w] \in OwnStages
      PROVE  attempt[w] \in Receipt /\ members[attempt[w]] # {} /\ OwnOK(w)
    BY <1>a DEF AwarenessInv, WorkersOK, WorkerOK, OwnOK
<1>1. ASSUME NEW r \in Receipt, DispatchNarration(r) \/ RecoverStaleNarrationOutbox(r) PROVE Goal
    BY <1>0, <1>1 DEF DispatchNarration, RecoverStaleNarrationOutbox
<1>2. ASSUME NEW w \in Workers, NEW t \in Task, StartDelivery(w, t) PROVE Goal
    BY <1>0, <1>2 DEF StartDelivery
<1>3. ASSUME NEW w \in Workers, RecordClaim(w) PROVE Goal
    <2>1. PICK a \in Receipt, S \in SUBSET Receipt : Claims(w, a, S)
        BY <1>3, ClaimEffect
    <2>2. /\ members[a] = {} /\ batch' = [batch EXCEPT ![a] = "claimed"]
          /\ members' = [members EXCEPT ![a] = S]
          /\ UNCHANGED <<request, reservation, outstanding>>
        BY <1>3, <2>1 DEF Claims, RecordClaim
    <2>3. CostOK(a)'
        BY <1>r, <2>2 DEF CostOK
    <2>4. \A b \in Receipt : b # a => CostSame(b)
        BY <1>r, <2>2 DEF CostSame, CostFuns
    <2> QED
        BY <2>3, <2>4, CostChange
<1>4. ASSUME NEW w \in Workers, ReserveNarrationAttempt(w) PROVE Goal
    <2>1. PICK a \in Receipt : a = attempt[w]
        BY <1>4, <1>a DEF ReserveNarrationAttempt, OwnStages
    <2>2. members[a] # {}
        BY <1>4, <1>a, <2>1 DEF ReserveNarrationAttempt, OwnStages
    <2>3. /\ batch[a] = "claimed" /\ batch' = [batch EXCEPT ![a] = "generating"]
          /\ reservation' = [reservation EXCEPT ![a] = "reserved"]
          /\ outstanding' = [outstanding EXCEPT ![a] = TRUE]
          /\ UNCHANGED <<members, request>>
        BY <1>4, <2>1 DEF ReserveNarrationAttempt
    <2>4. CostOK(a)'
        BY <1>r, <2>2, <2>3 DEF CostOK, CostFuns
    <2>5. \A b \in Receipt : b # a => CostSame(b)
        BY <1>r, <2>3 DEF CostSame, CostFuns
    <2> QED
        BY <2>4, <2>5, CostChange
<1>5. ASSUME NEW w \in Workers, SendRequest(w) PROVE Goal
    <2>1. PICK a \in Receipt : a = attempt[w]
        BY <1>5, <1>a DEF SendRequest, OwnStages
    <2>2. members[a] # {} /\ outstanding[a] /\ reservation[a] \in {"reserved", "unknown"}
        BY <1>5, <1>a, <2>1 DEF SendRequest, OwnStages, OwnOK
    <2>3. /\ request' = [request EXCEPT ![a] = "running"]
          /\ UNCHANGED <<members, batch, reservation, outstanding>>
        BY <1>5, <2>1 DEF SendRequest
    <2>4. CostOK(a)'
        BY <1>r, <2>2, <2>3 DEF CostOK, CostFuns
    <2>5. \A b \in Receipt : b # a => CostSame(b)
        BY <1>r, <2>3 DEF CostSame, CostFuns
    <2> QED
        BY <2>4, <2>5, CostChange
<1>6. ASSUME NEW w \in Workers, CloseOwnReservation(w) PROVE Goal
    <2>1. PICK a \in Receipt : a = attempt[w]
        BY <1>6, <1>a DEF CloseOwnReservation, OwnStages
    <2>2. members[a] # {} /\ OwnOK(w) /\ pc[w] = "closing"
        BY <1>6, <1>a, <2>1 DEF CloseOwnReservation, OwnStages
    <2>3. result[w] \in {"none", "narratives", "rejected", "unsent", "unknown"}
        BY LocalTypes DEF AwarenessInv, LocalFuns
    <2>4. PICK x \in {"unknown", "settled"} : x = IF result[w] # "unsent" THEN "unknown" ELSE "settled"
        OBVIOUS
    <2>5. PICK y \in BOOLEAN : y <=> outstanding[a] /\ result[w] \notin {"narratives", "rejected"}
                                        /\ result[w] # "unsent"
        OBVIOUS
    <2>6. Settle(a, x, y) /\ UNCHANGED <<members, batch, request>>
        BY <1>6, <2>1, <2>4, <2>5 DEF CloseOwnReservation, CloseReservation, Settle
    <2>7. /\ result[w] = "unsent" => request[a] = "none"
          /\ result[w] \in {"narratives", "rejected"} => request[a] \in {"answered", "recorded"}
        BY <2>1, <2>2 DEF OwnOK
    <2>8. CostOK(a)'
        <3>1. IF reservation[a] \in {"none", "settled"}
              THEN reservation'[a] = reservation[a] /\ outstanding'[a] = outstanding[a]
              ELSE reservation'[a] = x /\ outstanding'[a] = y
            BY <1>r, <2>6, SettleEffect
        <3> QED
            BY <1>r, <2>2, <2>4, <2>5, <2>6, <2>7, <3>1 DEF CostOK
    <2>9. \A b \in Receipt : b # a => CostSame(b)
        BY <1>r, <2>6, SettleEffect DEF CostSame
    <2> QED
        BY <2>8, <2>9, CostChange
<1>7. ASSUME NEW a \in Receipt, RequestEnds(a) PROVE Goal
    <2>1. PICK x \in {"answered", "lost"} : request' = [request EXCEPT ![a] = x]
        BY <1>7 DEF RequestEnds
    <2>2. request[a] = "running" /\ UNCHANGED <<members, batch, reservation, outstanding>>
        BY <1>7 DEF RequestEnds
    <2>3. CostOK(a)'
        BY <1>r, <2>1, <2>2 DEF CostOK, CostFuns
    <2>4. \A b \in Receipt : b # a => CostSame(b)
        BY <1>r, <2>1, <2>2 DEF CostSame, CostFuns
    <2> QED
        BY <2>3, <2>4, CostChange
<1>8. ASSUME NEW a \in Receipt, ObserveLateCompletion(a) PROVE Goal
    <2>1. /\ request[a] = "answered" /\ request' = [request EXCEPT ![a] = "recorded"]
          /\ UNCHANGED <<members, batch>>
        BY <1>8 DEF ObserveLateCompletion
    <2>2. Settle(a, "unknown", FALSE)
        BY <1>8 DEF ObserveLateCompletion, CloseReservation, Settle
    <2>3. CostOK(a)'
        <3>1. reservation[a] \in {"reserved", "unknown"}
            BY <1>r, <2>1 DEF CostOK
        <3>2. reservation'[a] = "unknown" /\ outstanding'[a] = FALSE
            BY <1>r, <2>2, <3>1, SettleEffect
        <3> QED
            BY <1>r, <2>1, <3>1, <3>2 DEF CostOK, CostFuns
    <2>4. \A b \in Receipt : b # a => CostSame(b)
        BY <1>r, <2>1, <2>2, SettleEffect DEF CostSame, CostFuns
    <2> QED
        BY <2>3, <2>4, CostChange
<1>9. ASSUME NEW w \in Workers, PublishBatch(w) \/ FailBatch(w) PROVE Goal
    <2>1. PICK a \in Receipt : a = attempt[w]
        BY <1>9, <1>a DEF PublishBatch, FailBatch, OwnStages
    <2>2. members[a] # {}
        BY <1>9, <1>a, <2>1 DEF PublishBatch, FailBatch, OwnStages
    <2>3. PICK x \in {"completed", "failed", "unknown"} : batch' = [batch EXCEPT ![a] = x]
        BY <1>9, <2>1 DEF PublishBatch, FailBatch
    <2>4. UNCHANGED <<members, request, reservation, outstanding>>
        BY <1>9 DEF PublishBatch, FailBatch
    <2>5. CostOK(a)'
        BY <1>r, <2>2, <2>3, <2>4 DEF CostOK, CostFuns
    <2>6. \A b \in Receipt : b # a => CostSame(b)
        BY <1>r, <2>3, <2>4 DEF CostSame, CostFuns
    <2> QED
        BY <2>5, <2>6, CostChange
<1>10. ASSUME NEW w \in Workers, FailCaptured(w) PROVE Goal
    <2>1. UNCHANGED <<members, request>>
        BY <1>10 DEF FailCaptured
    <2>2. CASE attempt[w] \notin Receipt
        <3>1. UNCHANGED <<reservation, outstanding>> /\ batch' = batch
            BY <1>10, <1>r, <2>2 DEF FailCaptured, Settle, CostFuns
        <3> QED
            BY <1>0, <2>1, <3>1
    <2>3. ASSUME NEW a \in Receipt, a = attempt[w] PROVE Goal
        <3>1. PICK y \in BOOLEAN : y <=> outstanding[a]
            OBVIOUS
        <3>2. Settle(a, "unknown", y)
            BY <1>10, <2>3, <3>1, ReceiptNumbers DEF FailCaptured, Settle
        <3>3. /\ \A b \in Receipt : b # a => /\ reservation'[b] = reservation[b]
                                             /\ outstanding'[b] = outstanding[b]
              /\ IF reservation[a] \in {"none", "settled"}
                 THEN reservation'[a] = reservation[a] /\ outstanding'[a] = outstanding[a]
                 ELSE reservation'[a] = "unknown" /\ outstanding'[a] = y
            BY <1>r, <2>3, <3>2, SettleEffect
        <3>4. batch' = batch \/ batch' = [batch EXCEPT ![a] = "unknown"]
            BY <1>10, <2>3 DEF FailCaptured
        <3>5. /\ batch'[a] \in {batch[a], "unknown"}
              /\ \A b \in Receipt : b # a => batch'[b] = batch[b]
            BY <1>r, <3>4 DEF CostFuns
        <3>6. CostOK(a)'
            BY <1>r, <2>1, <3>1, <3>3, <3>5 DEF CostOK
        <3>7. \A b \in Receipt : b # a => CostSame(b)
            BY <2>1, <3>3, <3>5 DEF CostSame
        <3> QED
            BY <3>6, <3>7, CostChange
    <2> QED
        BY <2>2, <2>3
<1>11. ASSUME NEW w \in Workers, Crash(w) PROVE Goal
    <2>1. /\ request' = [a \in Receipt |->
                            IF /\ a = attempt[w]
                               /\ pc[w] \in {"waiting", "closing", "closed", "fenced"}
                               /\ request[a] \in {"running", "answered"}
                            THEN "lost" ELSE request[a]]
          /\ UNCHANGED <<members, batch, reservation, outstanding>>
        BY <1>11 DEF Crash
    <2>2. \A b \in Receipt : \/ request'[b] = request[b]
                             \/ request[b] \in {"running", "answered"} /\ request'[b] = "lost"
        BY <2>1
    <2> QED
        BY <1>r, <2>1, <2>2 DEF CostOK
<1>12. ASSUME NEW w \in Workers, WorkerStep(w),
              ~(\/ RecordClaim(w) \/ ReserveNarrationAttempt(w) \/ SendRequest(w)
                \/ CloseOwnReservation(w) \/ PublishBatch(w) \/ FailBatch(w) \/ FailCaptured(w))
       PROVE  Goal
    <2>1. CASE LeaseBusy(w) \/ ClaimConflict(w) \/ StaleAttempt(w) \/ Answer(w)
        BY <1>0, <2>1 DEF LeaseBusy, ClaimConflict, StaleAttempt, Answer
    <2>2. CASE \/ CaptureNothing(w) \/ CaptureHopeless(w) \/ CaptureOverdueBatch(w)
               \/ CaptureBatch(w) \/ CaptureTooEarly(w)
        BY <1>0, <2>2 DEF CaptureNothing, CaptureHopeless, CaptureOverdueBatch, CaptureBatch,
                          CaptureTooEarly, Captures
    <2>3. CASE Leave(w) \/ CheckFence(w)
        BY <1>0, <2>3 DEF Leave, CheckFence
    <2>4. CASE DispatchFails(w) \/ ReceiveAnswer(w) \/ GiveUpWaiting(w)
        BY <1>0, <2>4 DEF DispatchFails, ReceiveAnswer, GiveUpWaiting, Ends
    <2> QED
        BY <1>12, <2>1, <2>2, <2>3, <2>4 DEF WorkerStep
<1>13. ASSUME NEW a \in Receipt, BatchDeadlinePasses(a) PROVE Goal
    BY <1>0, <1>13 DEF BatchDeadlinePasses
<1>14. ASSUME NEW t \in Task, LoseTask(t) PROVE Goal
    BY <1>0, <1>14 DEF LoseTask
<1>15. CASE \/ PublicationDeadlinePasses \/ LeaseExpires \/ Finished \/ UNCHANGED vars
            \/ EnqueueNarration
    BY <1>0, <1>15 DEF PublicationDeadlinePasses, LeaseExpires, Finished, vars, EnqueueNarration
<1> QED
    BY <1>1, <1>2, <1>3, <1>4, <1>5, <1>6, <1>7, <1>8, <1>9, <1>10, <1>11, <1>12, <1>13, <1>14,
       <1>15
    DEF Next

LEMMA BudgetStep ==
    ASSUME AwarenessInv, [Next]_vars
    PROVE  BudgetOK' /\ BudgetTrueToProvider'
BY CostStep DEF CostOK, BudgetOK, BudgetTrueToProvider

-----------------------------------------------------------------------------
(* The deliveries.                                                           *)

LocalsSame(v) ==
    /\ pc'[v] = pc[v] /\ task'[v] = task[v] /\ captured'[v] = captured[v]
    /\ attempt'[v] = attempt[v] /\ result'[v] = result[v]

\* A step of one delivery leaves the locals of the others alone.
LEMMA OthersSame ==
    ASSUME TypeOK, NEW w \in Workers, NEW v \in Workers, v # w,
           WorkerStep(w) \/ Crash(w) \/ \E t \in Task : StartDelivery(w, t)
    PROVE  LocalsSame(v)
<1>r. LocalFuns
    BY LocalTypes
<1>1. ASSUME Return(w) PROVE LocalsSame(v)
    BY <1>1, <1>r DEF Return, Forget, LocalsSame, LocalFuns
<1>2. ASSUME Succeed(w) PROVE LocalsSame(v)
    BY <1>2, <1>r DEF Succeed, Forget, LocalsSame, LocalFuns
<1>3. ASSUME NEW x, Captures(w, x) PROVE LocalsSame(v)
    BY <1>3, <1>r DEF Captures, LocalsSame, LocalFuns
<1>4. ASSUME NEW x, NEW y, Ends(w, x, y) PROVE LocalsSame(v)
    BY <1>4, <1>r DEF Ends, LocalsSame, LocalFuns
<1>5. CASE LeaseBusy(w) \/ ClaimConflict(w) \/ StaleAttempt(w) \/ Answer(w) \/ Crash(w)
    BY <1>1, <1>5 DEF LeaseBusy, ClaimConflict, StaleAttempt, Answer, Crash
<1>6. CASE \/ CaptureNothing(w) \/ CaptureHopeless(w) \/ CaptureOverdueBatch(w)
           \/ CaptureBatch(w) \/ CaptureTooEarly(w)
    BY <1>3, <1>6 DEF CaptureNothing, CaptureHopeless, CaptureOverdueBatch, CaptureBatch,
                      CaptureTooEarly
<1>7. CASE DispatchFails(w) \/ ReceiveAnswer(w) \/ GiveUpWaiting(w)
    BY <1>4, <1>7 DEF DispatchFails, ReceiveAnswer, GiveUpWaiting
<1>8. CASE Leave(w) \/ PublishBatch(w) \/ FailBatch(w) \/ FailCaptured(w)
    BY <1>2, <1>8 DEF Leave, PublishBatch, FailBatch, FailCaptured
<1>9. CASE CheckFence(w)
    <2>1. CASE Succeed(w)
        BY <1>2, <2>1
    <2>2. CASE /\ pc' = [pc EXCEPT ![w] = "fenced"]
               /\ UNCHANGED <<task, captured, attempt, result>>
        BY <1>r, <2>2 DEF LocalsSame, LocalFuns
    <2> QED
        BY <1>9, <2>1, <2>2 DEF CheckFence
<1>10. CASE RecordClaim(w)
    BY <1>r, <1>10 DEF RecordClaim, LocalsSame, LocalFuns
<1>11. CASE ReserveNarrationAttempt(w) \/ SendRequest(w) \/ CloseOwnReservation(w)
    BY <1>r, <1>11 DEF ReserveNarrationAttempt, SendRequest, CloseOwnReservation, LocalsSame, LocalFuns
<1>12. ASSUME NEW t \in Task, StartDelivery(w, t) PROVE LocalsSame(v)
    BY <1>r, <1>12 DEF StartDelivery, LocalsSame, LocalFuns
<1> QED
    BY <1>5, <1>6, <1>7, <1>8, <1>9, <1>10, <1>11, <1>12 DEF WorkerStep

LEMMA WhoMoves ==
    ASSUME TypeOK, [Next]_vars, NEW v \in Workers
    PROVE  LocalsSame(v) \/ WorkerStep(v) \/ Crash(v) \/ \E t \in Task : StartDelivery(v, t)
<1> USE DEF workerVars
<1>1. CASE UNCHANGED workerVars
    BY <1>1 DEF LocalsSame
<1>2. ASSUME NEW r \in Receipt, DispatchNarration(r) \/ RecoverStaleNarrationOutbox(r)
      PROVE  UNCHANGED workerVars
    BY <1>2 DEF DispatchNarration, RecoverStaleNarrationOutbox
<1>3. ASSUME NEW a \in Receipt, RequestEnds(a) \/ ObserveLateCompletion(a) \/ BatchDeadlinePasses(a)
      PROVE  UNCHANGED workerVars
    BY <1>3 DEF RequestEnds, ObserveLateCompletion, BatchDeadlinePasses
<1>4. ASSUME NEW t \in Task, LoseTask(t) PROVE UNCHANGED workerVars
    BY <1>4 DEF LoseTask
<1>5. CASE \/ PublicationDeadlinePasses \/ LeaseExpires \/ Finished \/ UNCHANGED vars
           \/ EnqueueNarration
    BY <1>1, <1>5 DEF PublicationDeadlinePasses, LeaseExpires, Finished, vars, EnqueueNarration
<1> QED
    BY <1>1, <1>2, <1>3, <1>4, <1>5, OthersSame DEF Next

\* How a delivery's step leaves it.
LEMMA OwnEnd ==
    ASSUME TypeOK, NEW w \in Workers
    PROVE  /\ Return(w) => pc'[w] = "idle"
           /\ Succeed(w) => pc'[w] = "answering" /\ task'[w] = task[w]
           /\ \A x : Captures(w, x) =>
                 /\ pc[w] = "ready" /\ pc'[w] = x /\ task'[w] = task[w]
                 /\ captured'[w] = OpenReceipts
                 /\ UNCHANGED <<committed, status, outbox, generation>>
           /\ \A x, y : Ends(w, x, y) =>
                 /\ pc'[w] = y /\ result'[w] = x /\ task'[w] = task[w] /\ attempt'[w] = attempt[w]
                 /\ UNCHANGED <<members, request>>
<1>r. LocalFuns
    BY LocalTypes
<1>1. Return(w) => pc'[w] = "idle"
    BY <1>r DEF Return, LocalFuns
<1>2. Succeed(w) => pc'[w] = "answering" /\ task'[w] = task[w]
    BY <1>r DEF Succeed, LocalFuns
<1>3. ASSUME NEW x, Captures(w, x)
      PROVE  /\ pc[w] = "ready" /\ pc'[w] = x /\ task'[w] = task[w]
             /\ captured'[w] = OpenReceipts
             /\ UNCHANGED <<committed, status, outbox, generation>>
    BY <1>3, <1>r DEF Captures, LocalFuns, rowVars, entryVars, queueVars
<1>4. ASSUME NEW x, NEW y, Ends(w, x, y)
      PROVE  /\ pc'[w] = y /\ result'[w] = x /\ task'[w] = task[w] /\ attempt'[w] = attempt[w]
             /\ UNCHANGED <<members, request>>
    BY <1>4, <1>r DEF Ends, LocalFuns, rowVars, batchVars
<1> QED
    BY <1>1, <1>2, <1>3, <1>4

\* A delivery that has nothing more to do than to answer, or to leave.
LEMMA WorkerRests ==
    ASSUME AwarenessInv, [Next]_vars, NEW w \in Workers,
           \/ pc'[w] = "idle"
           \/ /\ pc'[w] \in {"ready", "leaving", "answering"}
              /\ pc[w] # "idle" /\ task'[w] = task[w]
    PROVE  WorkerOK(w)'
<1>1. CASE pc'[w] = "idle"
    BY <1>1 DEF WorkerOK, CaptureStages, OwnStages
<1>2. CASE /\ pc'[w] \in {"ready", "leaving", "answering"}
           /\ pc[w] # "idle" /\ task'[w] = task[w]
    <2>1. PICK t \in Task : t = task[w] /\ TaskOK(t)
        BY <1>2, DeliveredTask
    <2>2. TaskOK(t)' /\ task'[w] = t
        BY <1>2, <2>1, TaskStays
    <2>3. task'[w] \in Task /\ TaskOK(task[w])'
        BY <2>1, <2>2 DEF TaskOK, HeadOfLine
    <2> QED
        BY <1>2, <2>3 DEF WorkerOK, CaptureStages, OwnStages
<1> QED
    BY <1>1, <1>2

\* A delivery that goes on keeps its task.
LEMMA TaskKept ==
    ASSUME AwarenessInv, [Next]_vars, NEW w \in Workers, pc[w] # "idle", task'[w] = task[w]
    PROVE  task'[w] \in Task /\ TaskOK(task[w])'
<1>1. PICK t \in Task : t = task[w] /\ TaskOK(t)
    BY DeliveredTask
<1>2. TaskOK(t)' /\ task'[w] = t
    BY <1>1, TaskStays
<1> QED
    BY <1>1, <1>2 DEF TaskOK, HeadOfLine

\* What another delivery, the provider or the clock may do to the attempt of a delivery
\* that stands still: the request is not sent behind its back, and an answer stays one.
LEMMA RowKept ==
    ASSUME AwarenessInv, [Next]_vars, NEW v \in Workers, pc[v] \in OwnStages, LocalsSame(v),
           NEW a \in Receipt, a = attempt[v]
    PROVE  /\ request[a] = "none" => request'[a] = "none"
           /\ request[a] \in {"answered", "recorded"} => request'[a] \in {"answered", "recorded"}
           /\ (request[a] = "none" /\ outstanding[a] /\ reservation[a] \in {"reserved", "unknown"})
                 => outstanding'[a] /\ reservation'[a] \in {"reserved", "unknown"}
<1> DEFINE Goal ==
        /\ request[a] = "none" => request'[a] = "none"
        /\ request[a] \in {"answered", "recorded"} => request'[a] \in {"answered", "recorded"}
        /\ (request[a] = "none" /\ outstanding[a] /\ reservation[a] \in {"reserved", "unknown"})
              => outstanding'[a] /\ reservation'[a] \in {"reserved", "unknown"}
<1> USE DEF rowVars, entryVars, batchVars, budgetVars
<1>r. CostFuns
    BY CostOfRow
<1>0. CASE UNCHANGED <<request, reservation, outstanding>>
    BY <1>0
<1>l. LocalFuns
    BY LocalTypes DEF AwarenessInv
<1>o. ASSUME NEW w \in Workers, pc[w] \in OwnStages, pc'[w] # pc[w] PROVE attempt[w] # a
    BY <1>o DEF LocalsSame, AwarenessInv, WorkersOK
<1>1. ASSUME NEW r \in Receipt, DispatchNarration(r) \/ RecoverStaleNarrationOutbox(r) PROVE Goal
    BY <1>0, <1>1 DEF DispatchNarration, RecoverStaleNarrationOutbox
<1>2. ASSUME NEW w \in Workers, NEW t \in Task, StartDelivery(w, t) PROVE Goal
    BY <1>0, <1>2 DEF StartDelivery
<1>3. ASSUME NEW w \in Workers, ReserveNarrationAttempt(w) PROVE Goal
    <2>1. attempt[w] # a
        BY <1>3, <1>l, <1>o DEF ReserveNarrationAttempt, OwnStages, LocalFuns
    <2> QED
        BY <1>3, <1>r, <2>1 DEF ReserveNarrationAttempt, CostFuns
<1>4. ASSUME NEW w \in Workers, SendRequest(w) PROVE Goal
    <2>1. attempt[w] # a
        BY <1>4, <1>l, <1>o DEF SendRequest, OwnStages, LocalFuns
    <2> QED
        BY <1>4, <1>r, <2>1 DEF SendRequest, CostFuns
<1>5. ASSUME NEW w \in Workers, CloseOwnReservation(w) PROVE Goal
    <2>1. attempt[w] # a
        BY <1>5, <1>l, <1>o DEF CloseOwnReservation, OwnStages, LocalFuns
    <2>2. reservation'[a] = reservation[a] /\ outstanding'[a] = outstanding[a] /\ request' = request
        BY <1>5, <1>r, <2>1 DEF CloseOwnReservation, CloseReservation, Settle, CostFuns
    <2> QED
        BY <2>2
<1>6. ASSUME NEW b \in Receipt, RequestEnds(b) PROVE Goal
    <2>1. \E x \in {"answered", "lost"} : request' = [request EXCEPT ![b] = x]
        BY <1>6 DEF RequestEnds
    <2>2. request[b] = "running" /\ UNCHANGED <<reservation, outstanding>>
        BY <1>6 DEF RequestEnds
    <2> QED
        BY <1>r, <2>1, <2>2 DEF CostFuns
<1>7. ASSUME NEW b \in Receipt, ObserveLateCompletion(b) PROVE Goal
    <2>1. request[b] = "answered" /\ request' = [request EXCEPT ![b] = "recorded"]
        BY <1>7 DEF ObserveLateCompletion
    <2>2. Settle(b, "unknown", FALSE)
        BY <1>7 DEF ObserveLateCompletion, CloseReservation, Settle
    <2>3. b # a => reservation'[a] = reservation[a] /\ outstanding'[a] = outstanding[a]
        BY <1>r, <2>2, SettleEffect
    <2> QED
        BY <1>r, <2>1, <2>3 DEF CostFuns
<1>8. ASSUME NEW w \in Workers, FailCaptured(w) PROVE Goal
    <2>1. UNCHANGED request
        BY <1>8 DEF FailCaptured
    <2>2. attempt[w] # a => reservation'[a] = reservation[a] /\ outstanding'[a] = outstanding[a]
        BY <1>8, <1>r DEF FailCaptured, Settle, CostFuns
    <2>3. attempt[w] = a => \/ UNCHANGED <<reservation, outstanding>>
                            \/ /\ reservation' = [reservation EXCEPT ![a] = "unknown"]
                               /\ outstanding' = [outstanding EXCEPT ![a] = a # 0 /\ outstanding[a]]
        BY <1>8 DEF FailCaptured, Settle
    <2>4. attempt[w] = a => /\ outstanding[a] => outstanding'[a]
                            /\ reservation'[a] \in {reservation[a], "unknown"}
        BY <1>r, <2>3, ReceiptNumbers DEF CostFuns
    <2> QED
        BY <2>1, <2>2, <2>4
<1>9. ASSUME NEW w \in Workers, PublishBatch(w) \/ FailBatch(w) \/ RecordClaim(w) PROVE Goal
    BY <1>0, <1>9 DEF PublishBatch, FailBatch, RecordClaim
<1>10. ASSUME NEW w \in Workers, Crash(w) PROVE Goal
    <2>1. UNCHANGED <<reservation, outstanding>>
        BY <1>10 DEF Crash
    <2>2. request'[a] = IF /\ a = attempt[w]
                           /\ pc[w] \in {"waiting", "closing", "closed", "fenced"}
                           /\ request[a] \in {"running", "answered"}
                        THEN "lost" ELSE request[a]
        BY <1>10 DEF Crash
    <2>3. pc[w] # "idle" /\ pc'[w] = "idle"
        BY <1>10, OwnEnd DEF Crash, AwarenessInv
    <2>4. ~(a = attempt[w] /\ pc[w] \in {"waiting", "closing", "closed", "fenced"})
        BY <1>o, <2>3 DEF OwnStages
    <2> QED
        BY <2>1, <2>2, <2>4
<1>11. ASSUME NEW w \in Workers, WorkerStep(w),
              ~(\/ RecordClaim(w) \/ ReserveNarrationAttempt(w) \/ SendRequest(w)
                \/ CloseOwnReservation(w) \/ PublishBatch(w) \/ FailBatch(w) \/ FailCaptured(w))
       PROVE  Goal
    <2>1. CASE LeaseBusy(w) \/ ClaimConflict(w) \/ StaleAttempt(w) \/ Answer(w)
        BY <1>0, <2>1 DEF LeaseBusy, ClaimConflict, StaleAttempt, Answer
    <2>2. CASE \/ CaptureNothing(w) \/ CaptureHopeless(w) \/ CaptureOverdueBatch(w)
               \/ CaptureBatch(w) \/ CaptureTooEarly(w)
        BY <1>0, <2>2 DEF CaptureNothing, CaptureHopeless, CaptureOverdueBatch, CaptureBatch,
                          CaptureTooEarly, Captures
    <2>3. CASE Leave(w) \/ CheckFence(w)
        BY <1>0, <2>3 DEF Leave, CheckFence
    <2>4. CASE DispatchFails(w) \/ ReceiveAnswer(w) \/ GiveUpWaiting(w)
        BY <1>0, <2>4 DEF DispatchFails, ReceiveAnswer, GiveUpWaiting, Ends
    <2> QED
        BY <1>11, <2>1, <2>2, <2>3, <2>4 DEF WorkerStep
<1>12. ASSUME NEW b \in Receipt, BatchDeadlinePasses(b) PROVE Goal
    BY <1>0, <1>12 DEF BatchDeadlinePasses
<1>13. ASSUME NEW t \in Task, LoseTask(t) PROVE Goal
    BY <1>0, <1>13 DEF LoseTask
<1>14. CASE \/ PublicationDeadlinePasses \/ LeaseExpires \/ Finished \/ UNCHANGED vars
            \/ EnqueueNarration
    BY <1>0, <1>14 DEF PublicationDeadlinePasses, LeaseExpires, Finished, vars, EnqueueNarration
<1> QED
    BY <1>1, <1>2, <1>3, <1>4, <1>5, <1>6, <1>7, <1>8, <1>9, <1>10, <1>11, <1>12, <1>13, <1>14
    DEF Next

\* A delivery that stands still stays right.
LEMMA WorkerStays ==
    ASSUME AwarenessInv, [Next]_vars, NEW w \in Workers, LocalsSame(w)
    PROVE  WorkerOK(w)'
<1>l. /\ pc'[w] = pc[w] /\ task'[w] = task[w] /\ captured'[w] = captured[w]
      /\ attempt'[w] = attempt[w] /\ result'[w] = result[w] /\ WorkerOK(w)
    BY DEF LocalsSame, AwarenessInv, WorkersOK
<1>1. pc'[w] # "idle" => task'[w] \in Task /\ TaskOK(task[w])'
    BY <1>l, TaskKept
<1>2. ASSUME pc'[w] = "deferring", Rearms(w)' PROVE generation'[task[w].receipt] < MaxDeferrals
    <2>1. PICK t \in Task, r \in Receipt : t = task[w] /\ r = t.receipt /\ TaskOK(t)
        BY <1>l, <1>2, DeliveredTask
    <2>2. outbox'[r] = "dispatched" /\ generation'[r] = t.generation
        BY <1>l, <1>2, <2>1 DEF Rearms
    <2>3. /\ t.generation <= generation[r] /\ generation[r] <= generation'[r]
          /\ t.generation \in Nat /\ generation[r] \in Nat
        <3>1. t.generation \in 0..MaxGeneration /\ generation[r] \in 0..MaxGeneration
            BY RowTypes DEF Task, AwarenessInv, RowFuns
        <3> QED
            BY <2>1, <3>1, OutboxGoesOn, AwarenessAssumption DEF TaskOK
    <2>4. t.generation = generation[r] /\ generation'[r] = generation[r]
        BY <2>2, <2>3
    <2>5. r <= committed /\ outbox[r] \in {"dispatched", "completed"}
        BY <2>1, <2>4 DEF TaskOK
    <2>6. outbox[r] = "dispatched"
        BY <2>2, <2>5, OutboxGoesOn
    <2>7. generation[r] < MaxDeferrals
        BY <1>l, <1>2, <2>1, <2>4, <2>6 DEF WorkerOK, Rearms
    <2> QED
        BY <1>l, <2>1, <2>4, <2>7
<1>3. ASSUME pc'[w] \in CaptureStages PROVE CaptureOK(w)'
    <2>1. /\ captured[w] \subseteq 1..committed
          /\ \A r \in captured[w], e \in Receipt :
                e < r => e \in captured[w] \/ status[e] \in Terminal
          /\ pc[w] = "claiming" =>
                /\ captured[w] # {}
                /\ \A r \in captured[w], e \in Receipt :
                      e < r => e \in captured[w] \/ status[e] = "completed"
        BY <1>l, <1>3 DEF WorkerOK, CaptureOK
    <2>2. \A e \in Receipt : status[e] \in Terminal => status'[e] = status[e]
        BY EntriesGoOn DEF Onward
    <2>3. 1..committed \subseteq 1..committed'
        <3>1. committed' = committed \/ committed' = committed + 1
            BY EntryWriters, EnqueueEffect
            DEF RecordClaim, PublishBatch, FailBatch, FailCaptured
        <3> QED
            BY <3>1, CommittedNumbers DEF AwarenessInv
    <2>4. captured[w] \subseteq 1..committed'
        BY <2>1, <2>3
    <2> QED
        BY <1>l, <2>1, <2>2, <2>4 DEF CaptureOK
<1>4. ASSUME pc'[w] \in OwnStages PROVE OwnOK(w)'
    <2>1. PICK a \in Receipt : a = attempt[w] /\ members[a] # {}
        BY <1>l, <1>4 DEF WorkerOK, OwnOK
    <2>2. members'[a] # {}
        BY <2>1, EntriesGoOn DEF Onward
    <2>3. /\ request[a] = "none" => request'[a] = "none"
          /\ request[a] \in {"answered", "recorded"} => request'[a] \in {"answered", "recorded"}
          /\ (request[a] = "none" /\ outstanding[a] /\ reservation[a] \in {"reserved", "unknown"})
                => outstanding'[a] /\ reservation'[a] \in {"reserved", "unknown"}
        BY <1>l, <1>4, <2>1, RowKept
    <2>4. OwnOK(w)
        BY <1>l, <1>4 DEF WorkerOK
    <2> QED
        BY <1>l, <2>1, <2>2, <2>3, <2>4 DEF OwnOK
<1> QED
    BY <1>l, <1>1, <1>2, <1>3, <1>4 DEF WorkerOK

\* What a claim captures.
LEMMA OpenRun ==
    ASSUME AwarenessInv
    PROVE  /\ OpenReceipts \subseteq 1..committed
           /\ \A r \in OpenReceipts, e \in Receipt :
                 e < r => e \in OpenReceipts \/ status[e] \in Terminal
<1>r. /\ status \in [Receipt -> {"absent", "queued", "generating", "completed", "failed"}]
      /\ committed \in Nat
    BY RowTypes, CommittedNumbers DEF AwarenessInv, RowFuns
<1>i. \A r \in Receipt : status[r] = "absent" <=> r > committed
    BY DEF AwarenessInv, EntriesOK
<1>1. ASSUME NEW r \in OpenReceipts PROVE r \in 1..committed
    <2>1. r \in Receipt /\ r \in Nat /\ ~(r > committed) /\ 1 <= r
        BY <1>i, ReceiptNumbers DEF OpenReceipts, Receipt
    <2> QED
        BY <1>r, <2>1
<1>2. ASSUME NEW r \in OpenReceipts, NEW e \in Receipt, e < r
      PROVE  e \in OpenReceipts \/ status[e] \in Terminal
    <2>1. r \in 1..committed /\ e \in Nat
        BY <1>1, ReceiptNumbers
    <2>2. ~(e > committed)
        BY <1>r, <1>2, <2>1
    <2>3. status[e] # "absent"
        BY <1>i, <2>2
    <2> QED
        BY <1>r, <2>3 DEF OpenReceipts
<1> QED
    BY <1>1, <1>2

LEMMA CaptureMoves ==
    ASSUME AwarenessInv, [Next]_vars, NEW w \in Workers, NEW x \in CaptureStages, Captures(w, x),
           x = "claiming" => OpenReceipts # {} /\ ~Hopeless
    PROVE  WorkerOK(w)'
<1>1. /\ pc[w] = "ready" /\ pc'[w] = x /\ task'[w] = task[w] /\ captured'[w] = OpenReceipts
      /\ UNCHANGED <<committed, status>>
    BY OwnEnd DEF AwarenessInv
<1>2. task'[w] \in Task /\ TaskOK(task[w])'
    BY <1>1, TaskKept
<1>3. PICK O \in SUBSET Receipt : O = OpenReceipts
    BY DEF OpenReceipts
<1>4. /\ O \subseteq 1..committed
      /\ \A r \in O, e \in Receipt : e < r => e \in O \/ status[e] \in Terminal
    BY <1>3, OpenRun
<1>5. x = "claiming" => /\ O # {}
                        /\ \A e \in Receipt : status[e] \in Terminal => status[e] = "completed"
    BY <1>3 DEF Hopeless
<1>6. CaptureOK(w)'
    BY <1>1, <1>3, <1>4, <1>5 DEF CaptureOK
<1> QED
    BY <1>1, <1>2, <1>6 DEF WorkerOK, CaptureStages, OwnStages

LEMMA DeferMoves ==
    ASSUME AwarenessInv, [Next]_vars, NEW w \in Workers, CaptureTooEarly(w)
    PROVE  WorkerOK(w)'
<1>1. Captures(w, "deferring") /\ (Rearms(w) => generation[task[w].receipt] < MaxDeferrals)
    BY DEF CaptureTooEarly
<1>2. /\ pc[w] = "ready" /\ pc'[w] = "deferring" /\ task'[w] = task[w]
      /\ UNCHANGED <<outbox, generation>>
    BY <1>1, OwnEnd DEF AwarenessInv
<1>3. task'[w] \in Task /\ TaskOK(task[w])'
    BY <1>2, TaskKept
<1>4. Rearms(w)' => generation'[task'[w].receipt] < MaxDeferrals
    BY <1>1, <1>2 DEF Rearms
<1> QED
    BY <1>2, <1>3, <1>4 DEF WorkerOK, CaptureStages, OwnStages

\* The steps of a delivery that has an attempt.
LEMMA OwnMoves ==
    ASSUME AwarenessInv, [Next]_vars, NEW w \in Workers, pc[w] \in OwnStages,
           task'[w] = task[w], attempt'[w] = attempt[w], pc'[w] \in OwnStages,
           NEW a \in Receipt, a = attempt[w],
           pc'[w] = "reserved" =>
              request'[a] = "none" /\ outstanding'[a] /\ reservation'[a] \in {"reserved", "unknown"},
           pc'[w] = "closing" /\ result'[w] = "unsent" => request'[a] = "none",
           pc'[w] = "closing" /\ result'[w] \in {"narratives", "rejected"} =>
              request'[a] \in {"answered", "recorded"}
    PROVE  WorkerOK(w)'
<1>1. task'[w] \in Task /\ TaskOK(task[w])'
    BY TaskKept DEF OwnStages
<1>2. members[a] # {}
    BY DEF AwarenessInv, WorkersOK, WorkerOK, OwnOK
<1>3. members'[a] # {}
    BY <1>2, EntriesGoOn DEF Onward
<1>4. OwnOK(w)'
    BY <1>3 DEF OwnOK
<1> QED
    BY <1>1, <1>4 DEF WorkerOK, CaptureStages, OwnStages

LEMMA WorkerMoves ==
    ASSUME AwarenessInv, [Next]_vars, NEW w \in Workers,
           WorkerStep(w) \/ Crash(w) \/ \E t \in Task : StartDelivery(w, t)
    PROVE  WorkerOK(w)'
<1>l. LocalFuns /\ CostFuns /\ TypeOK
    BY LocalTypes, CostOfRow DEF AwarenessInv
<1>a. pc[w] \in OwnStages => attempt[w] \in Receipt /\ OwnOK(w)
    BY DEF AwarenessInv, WorkersOK, WorkerOK, OwnOK
<1>1. CASE LeaseBusy(w) \/ ClaimConflict(w) \/ StaleAttempt(w) \/ Answer(w) \/ Crash(w)
    BY <1>l, <1>1, OwnEnd, WorkerRests DEF LeaseBusy, ClaimConflict, StaleAttempt, Answer, Crash
<1>2. CASE Leave(w) \/ PublishBatch(w) \/ FailBatch(w) \/ FailCaptured(w)
    <2>1. pc[w] # "idle" /\ Succeed(w)
        BY <1>2 DEF Leave, PublishBatch, FailBatch, FailCaptured
    <2> QED
        BY <1>l, <2>1, OwnEnd, WorkerRests
<1>3. CASE CaptureNothing(w)
    <2>1. pc[w] = "ready" /\ pc'[w] = "leaving" /\ task'[w] = task[w]
        BY <1>l, <1>3, OwnEnd DEF CaptureNothing
    <2> QED
        BY <2>1, WorkerRests
<1>4. CASE CaptureHopeless(w) \/ CaptureOverdueBatch(w) \/ CaptureBatch(w)
    BY <1>4, CaptureMoves DEF CaptureHopeless, CaptureOverdueBatch, CaptureBatch, CaptureStages
<1>5. CASE CaptureTooEarly(w)
    BY <1>5, DeferMoves
<1>6. CASE RecordClaim(w)
    <2>1. PICK a \in Receipt, S \in SUBSET Receipt : Claims(w, a, S)
        BY <1>6, ClaimEffect
    <2>2. /\ a \in S /\ members' = [members EXCEPT ![a] = S]
          /\ attempt' = [attempt EXCEPT ![w] = a]
        BY <2>1 DEF Claims
    <2>3. pc[w] = "claiming" /\ pc'[w] = "claimed" /\ task' = task
        BY <1>6, <1>l DEF RecordClaim, LocalFuns
    <2>4. members'[a] # {} /\ attempt'[w] = a
        BY <1>l, <2>2, CostOfRow DEF LocalFuns
    <2>5. task'[w] \in Task /\ TaskOK(task[w])'
        BY <2>3, TaskKept
    <2>6. OwnOK(w)'
        BY <2>3, <2>4 DEF OwnOK
    <2> QED
        BY <2>3, <2>5, <2>6 DEF WorkerOK, CaptureStages, OwnStages
<1>7. CASE ReserveNarrationAttempt(w)
    <2>1. PICK a \in Receipt : a = attempt[w]
        BY <1>7, <1>a DEF ReserveNarrationAttempt, OwnStages
    <2>2. /\ pc[w] = "claimed" /\ batch[a] = "claimed"
          /\ pc' = [pc EXCEPT ![w] = "reserved"]
          /\ reservation' = [reservation EXCEPT ![a] = "reserved"]
          /\ outstanding' = [outstanding EXCEPT ![a] = TRUE]
          /\ UNCHANGED <<request, task, attempt>>
        BY <1>7, <2>1 DEF ReserveNarrationAttempt
    <2>3. request[a] = "none"
        BY <2>2, CostOfRow DEF CostOK
    <2>4. /\ pc'[w] = "reserved" /\ request'[a] = "none" /\ outstanding'[a]
          /\ reservation'[a] = "reserved"
        BY <1>l, <2>2, <2>3 DEF LocalFuns, CostFuns
    <2>5. pc[w] \in OwnStages /\ pc'[w] \in OwnStages /\ task'[w] = task[w] /\ attempt'[w] = attempt[w]
        BY <2>2, <2>4 DEF OwnStages
    <2> QED
        BY <2>1, <2>4, <2>5, OwnMoves
<1>8. CASE SendRequest(w) \/ CloseOwnReservation(w)
    <2>1. /\ pc[w] \in OwnStages /\ UNCHANGED <<task, attempt>>
          /\ pc'[w] \in {"waiting", "closed"}
        BY <1>8, <1>l DEF SendRequest, CloseOwnReservation, OwnStages, LocalFuns
    <2>2. PICK a \in Receipt : a = attempt[w]
        BY <2>1, <1>a
    <2>3. pc'[w] \in OwnStages /\ pc'[w] # "reserved" /\ pc'[w] # "closing"
        BY <2>1 DEF OwnStages
    <2> QED
        BY <2>1, <2>2, <2>3, OwnMoves
<1>9. CASE DispatchFails(w) \/ ReceiveAnswer(w) \/ GiveUpWaiting(w)
    <2>1. pc[w] \in OwnStages
        BY <1>9 DEF DispatchFails, ReceiveAnswer, GiveUpWaiting, OwnStages
    <2>2. PICK a \in Receipt : a = attempt[w]
        BY <2>1, <1>a
    <2>3. PICK x, y :
             /\ Ends(w, x, y)
             /\ \/ y = "closed"
                \/ y = "closing" /\ x = "unsent" /\ pc[w] = "reserved"
                \/ y = "closing" /\ x \in {"narratives", "rejected"} /\ request[a] \in {"answered", "recorded"}
                \/ y = "closing" /\ x = "unknown"
        BY <1>9, <2>2 DEF DispatchFails, ReceiveAnswer, GiveUpWaiting
    <2>4. /\ pc'[w] = y /\ result'[w] = x /\ task'[w] = task[w] /\ attempt'[w] = attempt[w]
          /\ UNCHANGED request
        BY <1>l, <2>3, OwnEnd
    <2>5. y = "closing" /\ x = "unsent" => request'[a] = "none"
        BY <1>a, <2>1, <2>2, <2>3, <2>4 DEF OwnOK
    <2>6. y = "closing" /\ x \in {"narratives", "rejected"} => request'[a] \in {"answered", "recorded"}
        BY <2>3, <2>4
    <2>7. pc'[w] \in OwnStages /\ pc'[w] # "reserved"
        BY <2>3, <2>4 DEF OwnStages
    <2> QED
        BY <2>1, <2>2, <2>4, <2>5, <2>6, <2>7, OwnMoves
<1>10. CASE CheckFence(w)
    <2>1. CASE Succeed(w)
        BY <1>l, <1>10, <2>1, OwnEnd, WorkerRests DEF CheckFence
    <2>2. CASE /\ pc' = [pc EXCEPT ![w] = "fenced"]
               /\ UNCHANGED <<task, captured, attempt, result>>
        <3>1. pc[w] \in OwnStages /\ pc'[w] = "fenced" /\ task'[w] = task[w] /\ attempt'[w] = attempt[w]
            BY <1>10, <1>l, <2>2 DEF CheckFence, OwnStages, LocalFuns
        <3>2. PICK a \in Receipt : a = attempt[w]
            BY <3>1, <1>a
        <3>3. pc'[w] \in OwnStages
            BY <3>1 DEF OwnStages
        <3> QED
            BY <3>1, <3>2, <3>3, OwnMoves
    <2> QED
        BY <1>10, <2>1, <2>2 DEF CheckFence
<1>11. ASSUME NEW t \in Task, StartDelivery(w, t) PROVE WorkerOK(w)'
    <2>1. CASE pc'[w] = "idle"
        BY <2>1, WorkerRests
    <2>2. CASE pc'[w] # "idle"
        <3>1. t \in tasks /\ pc'[w] = "ready" /\ task'[w] = t
            BY <1>11, <1>l, <2>2 DEF StartDelivery, LocalFuns
        <3>2. TaskOK(t)'
            BY <3>1, TaskStays DEF AwarenessInv, TasksOK
        <3>3. task'[w] \in Task /\ TaskOK(task[w])'
            BY <3>1, <3>2 DEF TaskOK, HeadOfLine
        <3> QED
            BY <3>1, <3>3 DEF WorkerOK, CaptureStages, OwnStages
    <2> QED
        BY <2>1, <2>2
<1> QED
    BY <1>1, <1>2, <1>3, <1>4, <1>5, <1>6, <1>7, <1>8, <1>9, <1>10, <1>11 DEF WorkerStep

\* Two deliveries never have the same attempt: a claim makes a new one.
LEMMA AttemptsApart ==
    ASSUME AwarenessInv, [Next]_vars, NEW v \in Workers, NEW w \in Workers, v # w,
           pc'[v] \in OwnStages, pc'[w] \in OwnStages
    PROVE  attempt'[v] # attempt'[w]
<1>l. LocalFuns /\ TypeOK
    BY LocalTypes DEF AwarenessInv
\* Where an attempt comes from.
<1>1. ASSUME NEW u \in Workers, pc'[u] \in OwnStages
      PROVE  \/ pc[u] \in OwnStages /\ attempt'[u] = attempt[u]
             \/ RecordClaim(u)
    <2>1. CASE LocalsSame(u)
        BY <1>1, <2>1 DEF LocalsSame
    <2>2. CASE \/ LeaseBusy(u) \/ ClaimConflict(u) \/ StaleAttempt(u) \/ Answer(u) \/ Crash(u)
               \/ Leave(u) \/ PublishBatch(u) \/ FailBatch(u) \/ FailCaptured(u)
        <3>1. Return(u) \/ Succeed(u)
            BY <2>2 DEF LeaseBusy, ClaimConflict, StaleAttempt, Answer, Crash, Leave,
                        PublishBatch, FailBatch, FailCaptured
        <3> QED
            BY <1>l, <1>1, <3>1, OwnEnd DEF OwnStages
    <2>3. CASE \/ CaptureNothing(u) \/ CaptureHopeless(u) \/ CaptureOverdueBatch(u)
               \/ CaptureBatch(u) \/ CaptureTooEarly(u)
        <3>1. PICK x \in {"leaving", "deferring", "failing", "abandoning", "claiming"} : Captures(u, x)
            BY <2>3 DEF CaptureNothing, CaptureHopeless, CaptureOverdueBatch, CaptureBatch,
                        CaptureTooEarly
        <3> QED
            BY <1>l, <1>1, <3>1, OwnEnd DEF OwnStages
    <2>4. CASE DispatchFails(u) \/ ReceiveAnswer(u) \/ GiveUpWaiting(u)
        <3>1. pc[u] \in OwnStages /\ \E x, y : Ends(u, x, y)
            BY <2>4 DEF DispatchFails, ReceiveAnswer, GiveUpWaiting, OwnStages
        <3> QED
            BY <1>l, <3>1, OwnEnd
    <2>5. CASE ReserveNarrationAttempt(u) \/ SendRequest(u) \/ CloseOwnReservation(u)
        BY <2>5 DEF ReserveNarrationAttempt, SendRequest, CloseOwnReservation, OwnStages
    <2>6. CASE CheckFence(u)
        <3>1. pc[u] \in OwnStages /\ (UNCHANGED attempt \/ Succeed(u))
            BY <2>6 DEF CheckFence, OwnStages
        <3> QED
            BY <1>l, <1>1, <3>1, OwnEnd DEF OwnStages
    <2>7. ASSUME NEW t \in Task, StartDelivery(u, t)
          PROVE  FALSE
        BY <1>l, <1>1, <2>7 DEF StartDelivery, OwnStages, LocalFuns
    <2> QED
        BY <1>l, <2>1, <2>2, <2>3, <2>4, <2>5, <2>6, <2>7, WhoMoves DEF WorkerStep
\* A new attempt is nobody's.
<1>2. ASSUME NEW u \in Workers, NEW x \in Workers, u # x, RecordClaim(u), pc'[x] \in OwnStages
      PROVE  attempt'[x] # attempt'[u]
    <2>1. PICK a \in Receipt, S \in SUBSET Receipt : Claims(u, a, S)
        BY <1>2, ClaimEffect
    <2>2. members[a] = {} /\ attempt' = [attempt EXCEPT ![u] = a]
        BY <2>1 DEF Claims
    <2>3. attempt'[u] = a /\ attempt'[x] = attempt[x] /\ pc'[x] = pc[x]
        BY <1>2, <1>l, <2>2 DEF RecordClaim, LocalFuns
    <2>4. members[attempt[x]] # {}
        BY <1>2, <2>3 DEF AwarenessInv, WorkersOK, WorkerOK, OwnOK
    <2> QED
        BY <2>2, <2>3, <2>4
<1>3. CASE RecordClaim(v) \/ RecordClaim(w)
    BY <1>2, <1>3
<1>4. CASE ~RecordClaim(v) /\ ~RecordClaim(w)
    <2>1. /\ pc[v] \in OwnStages /\ attempt'[v] = attempt[v]
          /\ pc[w] \in OwnStages /\ attempt'[w] = attempt[w]
        BY <1>1, <1>4
    <2> QED
        BY <2>1 DEF AwarenessInv, WorkersOK
<1> QED
    BY <1>3, <1>4

LEMMA WorkersGoOn ==
    ASSUME AwarenessInv, [Next]_vars
    PROVE  WorkersOK'
<1>1. ASSUME NEW w \in Workers PROVE WorkerOK(w)'
    BY WhoMoves, WorkerStays, WorkerMoves DEF AwarenessInv
<1> QED
    BY <1>1, AttemptsApart DEF WorkersOK

-----------------------------------------------------------------------------
(* Types.                                                                    *)

LEMMA OutstandingType ==
    ASSUME TypeOK
    PROVE  OutstandingAttempt \in 0..N
<1>1. active \in [Receipt -> 0..N] /\ Generating \in SUBSET Receipt
    BY DEF TypeOK, RowsTypeOK, Generating, OpenReceipts
<1>2. CASE Generating = {}
    BY <1>2, ReceiptNumbers DEF OutstandingAttempt
<1>3. CASE Generating # {}
    <2>1. First(Generating) \in Receipt
        BY <1>1, <1>3, FirstOf
    <2> QED
        BY <1>1, <1>3, <2>1 DEF OutstandingAttempt
<1> QED
    BY <1>2, <1>3

LEMMA LocalsType ==
    ASSUME AwarenessInv, [Next]_vars
    PROVE  WorkerTypeOK'
<1> USE DEF WorkerTypeOK, workerVars
<1>t. TypeOK /\ WorkerTypeOK /\ MaxToken \in Nat /\ N \in Nat
    BY AwarenessAssumption DEF AwarenessInv, TypeOK
<1>0. CASE UNCHANGED workerVars
    BY <1>0, <1>t
<1>f. ASSUME NEW w \in Workers, Forget(w)
      PROVE  /\ token' \in [Workers -> 0..MaxToken] /\ captured' \in [Workers -> SUBSET Receipt]
             /\ attempt' \in [Workers -> 0..N]
             /\ result' \in [Workers -> {"none", "narratives", "rejected", "unsent", "unknown"}]
    BY <1>f, <1>t DEF Forget
<1>1. ASSUME NEW w \in Workers, Return(w) PROVE WorkerTypeOK'
    <2>1. Forget(w) /\ pc' = [pc EXCEPT ![w] = "idle"] /\ task' = [task EXCEPT ![w] = NoTask]
        BY <1>1 DEF Return
    <2> QED
        BY <1>t, <1>f, <2>1
<1>2. ASSUME NEW w \in Workers, Succeed(w) PROVE WorkerTypeOK'
    <2>1. Forget(w) /\ pc' = [pc EXCEPT ![w] = "answering"] /\ task' = task
        BY <1>2 DEF Succeed
    <2> QED
        BY <1>t, <1>f, <2>1
<1>3. ASSUME NEW w \in Workers, NEW x \in CaptureStages \cup {"leaving", "deferring"}, Captures(w, x)
      PROVE  WorkerTypeOK'
    <2>1. lease.token + 1 \in 0..MaxToken
        <3>1. lease.token \in 0..MaxToken /\ lease.token < MaxToken
            BY <1>3, <1>t DEF Captures, TypeOK, RowsTypeOK, LeaseRow
        <3> QED
            BY <1>t, <3>1
    <2>2. OutstandingAttempt \in 0..N /\ OpenReceipts \in SUBSET Receipt
        BY <1>t, OutstandingType DEF OpenReceipts
    <2>3. /\ token' = [token EXCEPT ![w] = lease.token + 1]
          /\ captured' = [captured EXCEPT ![w] = OpenReceipts]
          /\ attempt' = [attempt EXCEPT ![w] = OutstandingAttempt]
          /\ pc' = [pc EXCEPT ![w] = x]
          /\ UNCHANGED <<task, result>>
        BY <1>3 DEF Captures
    <2> QED
        BY <1>t, <2>1, <2>2, <2>3 DEF CaptureStages
<1>4. ASSUME NEW w \in Workers, DispatchFails(w) \/ ReceiveAnswer(w) \/ GiveUpWaiting(w)
      PROVE  WorkerTypeOK'
    <2>1. PICK x \in {"unsent", "narratives", "rejected", "unknown"}, y \in {"closed", "closing"} :
              Ends(w, x, y)
        BY <1>4 DEF DispatchFails, ReceiveAnswer, GiveUpWaiting
    <2> QED
        BY <1>t, <2>1 DEF Ends
<1>5. ASSUME NEW w \in Workers, RecordClaim(w) PROVE WorkerTypeOK'
    <2>1. PICK a \in Receipt, S \in SUBSET Receipt : Claims(w, a, S)
        BY <1>5, ClaimEffect
    <2>2. attempt' = [attempt EXCEPT ![w] = a] /\ a \in 0..N
        BY <1>t, <2>1 DEF Claims, Receipt
    <2>3. pc' = [pc EXCEPT ![w] = "claimed"] /\ UNCHANGED <<task, token, captured, result>>
        BY <1>5 DEF RecordClaim
    <2> QED
        BY <1>t, <2>2, <2>3
<1>6. ASSUME NEW w \in Workers,
             ReserveNarrationAttempt(w) \/ SendRequest(w) \/ CloseOwnReservation(w)
      PROVE  WorkerTypeOK'
    <2>1. /\ \E y \in {"reserved", "waiting", "closed"} : pc' = [pc EXCEPT ![w] = y]
          /\ UNCHANGED <<task, token, captured, attempt, result>>
        BY <1>6 DEF ReserveNarrationAttempt, SendRequest, CloseOwnReservation
    <2> QED
        BY <1>t, <2>1
<1>7. ASSUME NEW w \in Workers, CheckFence(w) PROVE WorkerTypeOK'
    <2>1. CASE Succeed(w)
        BY <1>2, <2>1
    <2>2. CASE pc' = [pc EXCEPT ![w] = "fenced"] /\ UNCHANGED <<task, token, captured, attempt, result>>
        BY <1>t, <2>2
    <2> QED
        BY <1>7, <2>1, <2>2 DEF CheckFence
<1>8. ASSUME NEW w \in Workers, WorkerStep(w) \/ Crash(w) PROVE WorkerTypeOK'
    <2>1. CASE LeaseBusy(w) \/ ClaimConflict(w) \/ StaleAttempt(w) \/ Answer(w) \/ Crash(w)
        BY <1>1, <2>1 DEF LeaseBusy, ClaimConflict, StaleAttempt, Answer, Crash
    <2>2. CASE Leave(w) \/ PublishBatch(w) \/ FailBatch(w) \/ FailCaptured(w)
        BY <1>2, <2>2 DEF Leave, PublishBatch, FailBatch, FailCaptured
    <2>3. CASE \/ CaptureNothing(w) \/ CaptureHopeless(w) \/ CaptureOverdueBatch(w)
               \/ CaptureBatch(w) \/ CaptureTooEarly(w)
        BY <1>3, <2>3 DEF CaptureNothing, CaptureHopeless, CaptureOverdueBatch, CaptureBatch,
                          CaptureTooEarly, CaptureStages
    <2> QED
        BY <1>4, <1>5, <1>6, <1>7, <1>8, <2>1, <2>2, <2>3 DEF WorkerStep
<1>9. ASSUME NEW w \in Workers, NEW t \in Task, StartDelivery(w, t) PROVE WorkerTypeOK'
    <2>1. /\ UNCHANGED <<token, captured, attempt, result>>
          /\ \/ UNCHANGED <<pc, task>>
             \/ pc' = [pc EXCEPT ![w] = "ready"] /\ task' = [task EXCEPT ![w] = t]
        BY <1>9 DEF StartDelivery
    <2> QED
        BY <1>t, <2>1
<1>10. ASSUME NEW r \in Receipt, DispatchNarration(r) \/ RecoverStaleNarrationOutbox(r)
       PROVE  WorkerTypeOK'
    BY <1>0, <1>10 DEF DispatchNarration, RecoverStaleNarrationOutbox
<1>11. ASSUME NEW a \in Receipt, RequestEnds(a) \/ ObserveLateCompletion(a) \/ BatchDeadlinePasses(a)
       PROVE  WorkerTypeOK'
    BY <1>0, <1>11 DEF RequestEnds, ObserveLateCompletion, BatchDeadlinePasses
<1>12. ASSUME NEW t \in Task, LoseTask(t) PROVE WorkerTypeOK'
    BY <1>0, <1>12 DEF LoseTask
<1>13. CASE \/ PublicationDeadlinePasses \/ LeaseExpires \/ Finished \/ UNCHANGED vars
            \/ EnqueueNarration
    BY <1>0, <1>13 DEF PublicationDeadlinePasses, LeaseExpires, Finished, vars, EnqueueNarration
<1> QED
    BY <1>8, <1>9, <1>10, <1>11, <1>12, <1>13 DEF Next

LEMMA LeaseType ==
    ASSUME TypeOK, [Next]_vars
    PROVE  lease' \in LeaseRow
<1>t. lease \in LeaseRow /\ task \in [Workers -> Task \cup {NoTask}] /\ MaxToken \in Nat
    BY AwarenessAssumption DEF TypeOK, RowsTypeOK, WorkerTypeOK
<1>0. CASE UNCHANGED lease
    BY <1>0, <1>t
<1>1. ASSUME NEW w \in Workers, lease' = ReleasedLease(w) PROVE lease' \in LeaseRow
    BY <1>1, <1>t DEF ReleasedLease, NoLease, LeaseRow
<1>2. ASSUME NEW w \in Workers, NEW x, Captures(w, x) PROVE lease' \in LeaseRow
    <2>1. lease.token + 1 \in 0..MaxToken
        <3>1. lease.token \in 0..MaxToken /\ lease.token < MaxToken
            BY <1>2, <1>t DEF Captures, LeaseRow
        <3> QED
            BY <1>t, <3>1
    <2> QED
        BY <1>2, <1>t, <2>1 DEF Captures, LeaseRow
<1>3. ASSUME NEW w \in Workers, WorkerStep(w) \/ Crash(w) PROVE lease' \in LeaseRow
    <2>1. CASE LeaseBusy(w) \/ ClaimConflict(w) \/ StaleAttempt(w) \/ Answer(w) \/ Crash(w)
        BY <1>0, <2>1 DEF LeaseBusy, ClaimConflict, StaleAttempt, Answer, Crash
    <2>2. CASE Leave(w) \/ PublishBatch(w) \/ FailBatch(w) \/ FailCaptured(w)
        BY <1>1, <2>2 DEF Leave, PublishBatch, FailBatch, FailCaptured
    <2>3. CASE \/ CaptureNothing(w) \/ CaptureHopeless(w) \/ CaptureOverdueBatch(w)
               \/ CaptureBatch(w) \/ CaptureTooEarly(w)
        BY <1>2, <2>3 DEF CaptureNothing, CaptureHopeless, CaptureOverdueBatch, CaptureBatch,
                          CaptureTooEarly
    <2>4. CASE ReserveNarrationAttempt(w) \/ SendRequest(w) \/ CloseOwnReservation(w) \/ CheckFence(w)
               \/ RecordClaim(w)
        BY <1>0, <2>4 DEF ReserveNarrationAttempt, SendRequest, CloseOwnReservation, CheckFence,
                          RecordClaim
    <2>5. CASE DispatchFails(w) \/ ReceiveAnswer(w) \/ GiveUpWaiting(w)
        BY <1>0, <2>5 DEF DispatchFails, ReceiveAnswer, GiveUpWaiting, Ends
    <2> QED
        BY <1>3, <2>1, <2>2, <2>3, <2>4, <2>5 DEF WorkerStep
<1>4. CASE LeaseExpires
    BY <1>4, <1>t DEF LeaseExpires, LeaseRow
<1>5. ASSUME NEW w \in Workers, NEW t \in Task, StartDelivery(w, t) PROVE lease' \in LeaseRow
    BY <1>0, <1>5 DEF StartDelivery
<1>6. ASSUME NEW r \in Receipt, DispatchNarration(r) \/ RecoverStaleNarrationOutbox(r)
      PROVE  lease' \in LeaseRow
    BY <1>0, <1>6 DEF DispatchNarration, RecoverStaleNarrationOutbox
<1>7. ASSUME NEW a \in Receipt, RequestEnds(a) \/ ObserveLateCompletion(a) \/ BatchDeadlinePasses(a)
      PROVE  lease' \in LeaseRow
    BY <1>0, <1>7 DEF RequestEnds, ObserveLateCompletion, BatchDeadlinePasses
<1>8. ASSUME NEW t \in Task, LoseTask(t) PROVE lease' \in LeaseRow
    BY <1>0, <1>8 DEF LoseTask
<1>9. CASE PublicationDeadlinePasses \/ Finished \/ UNCHANGED vars \/ EnqueueNarration
    BY <1>0, <1>9 DEF PublicationDeadlinePasses, Finished, vars, EnqueueNarration
<1> QED
    BY <1>3, <1>4, <1>5, <1>6, <1>7, <1>8, <1>9 DEF Next

LEMMA EntryTypes ==
    ASSUME AwarenessInv, [Next]_vars
    PROVE  /\ committed' \in 0..N
           /\ status' \in [Receipt -> {"absent", "queued", "generating", "completed", "failed"}]
<1> DEFINE Goal == /\ committed' \in 0..N
                   /\ status' \in [Receipt -> {"absent", "queued", "generating", "completed", "failed"}]
<1>t. /\ committed \in 0..N /\ committed \in Nat /\ N \in Nat
      /\ status \in [Receipt -> {"absent", "queued", "generating", "completed", "failed"}]
    BY RowTypes, CommittedNumbers, ReceiptNumbers DEF AwarenessInv, RowFuns
<1>1. CASE UNCHANGED <<committed, status, members>>
    BY <1>1, <1>t
<1>2. CASE EnqueueNarration
    <2>1. committed + 1 \in 0..N
        BY <1>2, <1>t DEF EnqueueNarration
    <2> QED
        BY <1>2, <1>t, <2>1 DEF EnqueueNarration
<1>3. ASSUME NEW w \in Workers, NEW a \in Receipt, NEW S \in SUBSET Receipt, Claims(w, a, S)
      PROVE  Goal
    BY <1>3, <1>t DEF Claims
<1>4. ASSUME NEW a \in Receipt, Publishes(a) PROVE Goal
    BY <1>4, <1>t DEF Publishes
<1>5. ASSUME NEW S \in SUBSET Receipt, Fails(S) PROVE Goal
    BY <1>5, <1>t DEF Fails, FailEntries
<1> QED
    BY <1>1, <1>2, <1>3, <1>4, <1>5, EntryChanges

\* The active attempts, and the columns of an attempt.
ColumnsOK ==
    /\ active \in [Receipt -> 0..N]
    /\ batch \in [Receipt -> {"none", "claimed", "generating", "completed", "failed", "unknown"}]
    /\ reservation \in [Receipt -> {"none", "reserved", "unknown", "settled"}]
    /\ outstanding \in [Receipt -> BOOLEAN]
    /\ request \in [Receipt -> {"none", "running", "answered", "recorded", "lost"}]

LEMMA ColumnTypes ==
    ASSUME AwarenessInv, [Next]_vars
    PROVE  ColumnsOK'
<1> USE DEF rowVars, entryVars, batchVars, budgetVars
<1>t. TypeOK /\ ColumnsOK /\ CostFuns
    BY CostOfRow DEF AwarenessInv, TypeOK, RowsTypeOK, EnvironmentTypeOK, ColumnsOK
<1>0. CASE UNCHANGED <<active, batch, reservation, outstanding, request>>
    BY <1>0, <1>t DEF ColumnsOK
<1>s. ASSUME NEW a, NEW x \in {"unknown", "settled"}, NEW y \in BOOLEAN, Settle(a, x, y)
      PROVE  /\ reservation' \in [Receipt -> {"none", "reserved", "unknown", "settled"}]
             /\ outstanding' \in [Receipt -> BOOLEAN]
    BY <1>s, <1>t, SettleEffect
<1>1. ASSUME NEW w \in Workers, RecordClaim(w) PROVE ColumnsOK'
    <2>1. PICK a \in Receipt : a = First(Prefix(captured[w]))
        <3>1. captured[w] \in SUBSET Receipt /\ captured[w] # {}
            BY <1>1, <1>t, LocalTypes
            DEF RecordClaim, AwarenessInv, WorkersOK, WorkerOK, CaptureOK, CaptureStages, LocalFuns
        <3> QED
            BY <3>1, PrefixOf, FirstOf
    <2>2. PICK S : active' = [r \in Receipt |-> IF r \in S THEN a ELSE active[r]]
        BY <1>1, <2>1 DEF RecordClaim
    <2>3. a \in 0..N
        BY ReceiptNumbers DEF Receipt
    <2>4. batch' = [batch EXCEPT ![a] = "claimed"] /\ UNCHANGED <<reservation, outstanding, request>>
        BY <1>1, <2>1 DEF RecordClaim
    <2>5. active' \in [Receipt -> 0..N]
        BY <1>t, <2>2, <2>3 DEF ColumnsOK
    <2> QED
        BY <1>t, <2>4, <2>5 DEF ColumnsOK
<1>2. ASSUME NEW w \in Workers, ReserveNarrationAttempt(w) PROVE ColumnsOK'
    BY <1>2, <1>t DEF ReserveNarrationAttempt, ColumnsOK
<1>3. ASSUME NEW w \in Workers, SendRequest(w) PROVE ColumnsOK'
    BY <1>3, <1>t DEF SendRequest, ColumnsOK
<1>4. ASSUME NEW w \in Workers, CloseOwnReservation(w) PROVE ColumnsOK'
    <2>1. PICK a : a = attempt[w]
        OBVIOUS
    <2>2. PICK x \in {"unknown", "settled"} : x = IF result[w] # "unsent" THEN "unknown" ELSE "settled"
        OBVIOUS
    <2>3. PICK y \in BOOLEAN : y <=> outstanding[a] /\ result[w] \notin {"narratives", "rejected"}
                                        /\ result[w] # "unsent"
        OBVIOUS
    <2>4. Settle(a, x, y) /\ UNCHANGED <<active, batch, request>>
        BY <1>4, <2>1, <2>2, <2>3 DEF CloseOwnReservation, CloseReservation, Settle
    <2> QED
        BY <1>s, <1>t, <2>4 DEF ColumnsOK
<1>5. ASSUME NEW a \in Receipt, RequestEnds(a) PROVE ColumnsOK'
    BY <1>5, <1>t DEF RequestEnds, ColumnsOK
<1>6. ASSUME NEW a \in Receipt, ObserveLateCompletion(a) PROVE ColumnsOK'
    <2>1. Settle(a, "unknown", FALSE)
        BY <1>6 DEF ObserveLateCompletion, CloseReservation, Settle
    <2>2. request' = [request EXCEPT ![a] = "recorded"] /\ UNCHANGED <<active, batch>>
        BY <1>6 DEF ObserveLateCompletion
    <2> QED
        BY <1>s, <1>t, <2>1, <2>2 DEF ColumnsOK
<1>7. ASSUME NEW w \in Workers, PublishBatch(w) PROVE ColumnsOK'
    <2>1. /\ active' \in [Receipt -> 0..N]
          /\ batch' = [batch EXCEPT ![attempt[w]] = "completed"]
          /\ UNCHANGED <<reservation, outstanding, request>>
        BY <1>7, <1>t, ReceiptNumbers DEF PublishBatch, ColumnsOK
    <2> QED
        BY <1>t, <2>1 DEF ColumnsOK
<1>8. ASSUME NEW w \in Workers, FailBatch(w) PROVE ColumnsOK'
    BY <1>8, <1>t DEF FailBatch, ColumnsOK
<1>9. ASSUME NEW w \in Workers, FailCaptured(w) PROVE ColumnsOK'
    <2>1. PICK y \in BOOLEAN : y <=> attempt[w] # 0 /\ outstanding[attempt[w]]
        OBVIOUS
    <2>2. Settle(attempt[w], "unknown", y)
        BY <1>9, <2>1 DEF FailCaptured, Settle
    <2>3. UNCHANGED <<active, request>> /\
          (batch' = batch \/ batch' = [batch EXCEPT ![attempt[w]] = "unknown"])
        BY <1>9 DEF FailCaptured
    <2> QED
        BY <1>s, <1>t, <2>2, <2>3 DEF ColumnsOK
<1>10. ASSUME NEW w \in Workers, Crash(w) PROVE ColumnsOK'
    BY <1>10, <1>t DEF Crash, ColumnsOK
<1>11. ASSUME NEW w \in Workers, WorkerStep(w) PROVE ColumnsOK'
    <2>1. CASE LeaseBusy(w) \/ ClaimConflict(w) \/ StaleAttempt(w) \/ Answer(w)
        BY <1>0, <2>1 DEF LeaseBusy, ClaimConflict, StaleAttempt, Answer
    <2>2. CASE \/ CaptureNothing(w) \/ CaptureHopeless(w) \/ CaptureOverdueBatch(w)
               \/ CaptureBatch(w) \/ CaptureTooEarly(w)
        BY <1>0, <2>2 DEF CaptureNothing, CaptureHopeless, CaptureOverdueBatch, CaptureBatch,
                          CaptureTooEarly, Captures
    <2>3. CASE Leave(w) \/ CheckFence(w)
        BY <1>0, <2>3 DEF Leave, CheckFence
    <2>4. CASE DispatchFails(w) \/ ReceiveAnswer(w) \/ GiveUpWaiting(w)
        BY <1>0, <2>4 DEF DispatchFails, ReceiveAnswer, GiveUpWaiting, Ends
    <2> QED
        BY <1>1, <1>2, <1>3, <1>4, <1>7, <1>8, <1>9, <1>11, <2>1, <2>2, <2>3, <2>4 DEF WorkerStep
<1>12. ASSUME NEW w \in Workers, NEW t \in Task, StartDelivery(w, t) PROVE ColumnsOK'
    BY <1>0, <1>12 DEF StartDelivery
<1>13. ASSUME NEW r \in Receipt, DispatchNarration(r) \/ RecoverStaleNarrationOutbox(r)
       PROVE  ColumnsOK'
    BY <1>0, <1>13 DEF DispatchNarration, RecoverStaleNarrationOutbox
<1>14. ASSUME NEW a \in Receipt, BatchDeadlinePasses(a) PROVE ColumnsOK'
    BY <1>0, <1>14 DEF BatchDeadlinePasses
<1>15. ASSUME NEW t \in Task, LoseTask(t) PROVE ColumnsOK'
    BY <1>0, <1>15 DEF LoseTask
<1>16. CASE \/ PublicationDeadlinePasses \/ LeaseExpires \/ Finished \/ UNCHANGED vars
            \/ EnqueueNarration
    BY <1>0, <1>16 DEF PublicationDeadlinePasses, LeaseExpires, Finished, vars, EnqueueNarration
<1> QED
    BY <1>5, <1>6, <1>10, <1>11, <1>12, <1>13, <1>14, <1>15, <1>16 DEF Next

LEMMA TimeTypes ==
    ASSUME AwarenessInv, [Next]_vars
    PROVE  late' \in 0..N /\ expired' \subseteq Receipt /\ faults' \in 0..MaxFaults
<1> DEFINE Goal == late' \in 0..N /\ expired' \subseteq Receipt /\ faults' \in 0..MaxFaults
<1> USE DEF timeVars
<1>t. late \in 0..N /\ expired \subseteq Receipt /\ faults \in 0..MaxFaults /\ MaxFaults \in Nat
    BY AwarenessAssumption DEF AwarenessInv, TypeOK, EnvironmentTypeOK
<1>0. CASE UNCHANGED timeVars /\ UNCHANGED faults
    BY <1>0, <1>t
<1>f. ASSUME NEW kind, Fault(kind) PROVE faults' \in 0..MaxFaults
    BY <1>f, <1>t DEF Fault
<1>1. ASSUME NEW w \in Workers, RecordClaim(w) PROVE Goal
    <2>1. First(Prefix(captured[w])) \in Receipt
        <3>1. captured[w] \in SUBSET Receipt /\ captured[w] # {}
            BY <1>1, LocalTypes
            DEF RecordClaim, AwarenessInv, WorkersOK, WorkerOK, CaptureOK, CaptureStages, LocalFuns
        <3> QED
            BY <3>1, PrefixOf, FirstOf
    <2> QED
        BY <1>1, <1>t, <2>1 DEF RecordClaim
<1>2. ASSUME NEW a \in Receipt, BatchDeadlinePasses(a) PROVE Goal
    BY <1>2, <1>t DEF BatchDeadlinePasses
<1>3. CASE PublicationDeadlinePasses
    <2>1. OpenReceipts \in SUBSET Receipt /\ OpenReceipts # {}
        BY <1>3 DEF PublicationDeadlinePasses, OpenReceipts
    <2>2. First(OpenReceipts) \in Receipt
        BY <2>1, FirstOf
    <2>3. late' \in 0..N
        BY <1>3, <2>2, ReceiptNumbers DEF PublicationDeadlinePasses, Receipt
    <2> QED
        BY <1>3, <1>t, <2>3 DEF PublicationDeadlinePasses
<1>4. ASSUME NEW w \in Workers, Crash(w) PROVE Goal
    BY <1>4, <1>f, <1>t DEF Crash
<1>5. ASSUME NEW t \in Task, LoseTask(t) PROVE Goal
    BY <1>5, <1>f, <1>t DEF LoseTask
<1>6. CASE LeaseExpires
    BY <1>6, <1>f, <1>t DEF LeaseExpires
<1>7. ASSUME NEW w \in Workers, NEW t \in Task, StartDelivery(w, t) PROVE Goal
    BY <1>7, <1>f, <1>t DEF StartDelivery
<1>8. ASSUME NEW w \in Workers, WorkerStep(w), ~RecordClaim(w) PROVE Goal
    <2>1. CASE LeaseBusy(w) \/ ClaimConflict(w) \/ StaleAttempt(w) \/ Answer(w)
        BY <1>0, <2>1 DEF LeaseBusy, ClaimConflict, StaleAttempt, Answer
    <2>2. CASE \/ CaptureNothing(w) \/ CaptureHopeless(w) \/ CaptureOverdueBatch(w)
               \/ CaptureBatch(w) \/ CaptureTooEarly(w)
        BY <1>0, <2>2 DEF CaptureNothing, CaptureHopeless, CaptureOverdueBatch, CaptureBatch,
                          CaptureTooEarly, Captures
    <2>3. CASE Leave(w) \/ CheckFence(w) \/ PublishBatch(w) \/ FailBatch(w) \/ FailCaptured(w)
        BY <1>0, <2>3 DEF Leave, CheckFence, PublishBatch, FailBatch, FailCaptured
    <2>4. CASE DispatchFails(w) \/ ReceiveAnswer(w) \/ GiveUpWaiting(w)
        BY <1>0, <2>4 DEF DispatchFails, ReceiveAnswer, GiveUpWaiting, Ends
    <2>5. CASE ReserveNarrationAttempt(w) \/ SendRequest(w) \/ CloseOwnReservation(w)
        BY <1>0, <2>5 DEF ReserveNarrationAttempt, SendRequest, CloseOwnReservation
    <2> QED
        BY <1>8, <2>1, <2>2, <2>3, <2>4, <2>5 DEF WorkerStep
<1>9. ASSUME NEW r \in Receipt, DispatchNarration(r) \/ RecoverStaleNarrationOutbox(r) PROVE Goal
    BY <1>0, <1>9 DEF DispatchNarration, RecoverStaleNarrationOutbox
<1>10. ASSUME NEW a \in Receipt, RequestEnds(a) \/ ObserveLateCompletion(a) PROVE Goal
    BY <1>0, <1>10 DEF RequestEnds, ObserveLateCompletion
<1>11. CASE Finished \/ UNCHANGED vars \/ EnqueueNarration
    BY <1>0, <1>11 DEF Finished, vars, EnqueueNarration
<1> QED
    BY <1>1, <1>2, <1>3, <1>4, <1>5, <1>6, <1>7, <1>8, <1>9, <1>10, <1>11 DEF Next

LEMMA TypesStep ==
    ASSUME AwarenessInv, [Next]_vars
    PROVE  TypeOK'
<1>1. RowsTypeOK'
    BY EntryTypes, ColumnTypes, BatchesStep, LeaseType DEF ColumnsOK, RowsTypeOK, AwarenessInv
<1>2. QueueTypeOK'
    BY OutboxGoesOn, TasksStep DEF QueueTypeOK
<1>3. EnvironmentTypeOK'
    BY ColumnTypes, TimeTypes DEF ColumnsOK, EnvironmentTypeOK
<1> QED
    BY <1>1, <1>2, <1>3, LocalsType DEF TypeOK

-----------------------------------------------------------------------------
(* The theorems.                                                             *)

LEMMA AwarenessStarts == Init => AwarenessInv
<1> SUFFICES ASSUME Init PROVE AwarenessInv
    OBVIOUS
<1> USE DEF Init
<1>n. N \in Nat /\ MaxToken \in Nat /\ MaxGeneration \in Nat /\ MaxFaults \in Nat
    BY AwarenessAssumption
<1>1. RowsTypeOK
    <2>1. lease \in LeaseRow
        BY <1>n DEF NoLease, LeaseRow
    <2> QED
        BY <1>n, <2>1 DEF RowsTypeOK
<1>2. QueueTypeOK /\ WorkerTypeOK /\ EnvironmentTypeOK
    BY <1>n DEF QueueTypeOK, WorkerTypeOK, EnvironmentTypeOK
<1>3. EntriesOK
    <2>1. \A r \in Receipt : r > committed
        BY ReceiptNumbers DEF Receipt
    <2> QED
        BY <2>1 DEF EntriesOK
<1>4. TasksOK /\ BatchesOK /\ BudgetOK /\ NoGapInStory /\ BudgetTrueToProvider
    BY DEF TasksOK, BatchesOK, BatchOK, BudgetOK, NoGapInStory, BudgetTrueToProvider
<1>5. WorkersOK
    BY DEF WorkersOK, WorkerOK, CaptureStages, OwnStages
<1> QED
    BY <1>1, <1>2, <1>3, <1>4, <1>5 DEF AwarenessInv, TypeOK

LEMMA AwarenessGoesOn == AwarenessInv /\ [Next]_vars => AwarenessInv'
<1> SUFFICES ASSUME AwarenessInv, [Next]_vars PROVE AwarenessInv'
    OBVIOUS
<1>1. EntriesOK' /\ NoGapInStory'
    BY StoryStep, OutboxGoesOn DEF EntriesOK
<1> QED
    BY <1>1, TypesStep, TasksStep, BatchesStep, BudgetStep, WorkersGoOn DEF AwarenessInv

LEMMA AwarenessInvariant == Spec => []AwarenessInv
BY AwarenessStarts, AwarenessGoesOn, PTL DEF Spec

\* The rows of a batched narration, its tasks and the locals of its deliveries keep their
\* types (awareness-narration-worker*.ts).
THEOREM AwarenessTypes == Spec => []TypeOK
<1>1. AwarenessInv => TypeOK
    BY DEF AwarenessInv
<1> QED
    BY <1>1, AwarenessInvariant, PTL

\* A reader never finds a hole in the story: before a receipt that has its text every
\* receipt has one, whatever other deliveries had captured before they failed it
\* (awareness-narration-worker-claim.ts:89, awareness-narration-worker-publication.ts:45-49).
THEOREM StoryHasNoGap == Spec => []NoGapInStory
<1>1. AwarenessInv => NoGapInStory
    BY DEF AwarenessInv
<1> QED
    BY <1>1, AwarenessInvariant, PTL

\* The battle's budget is true to the provider: a request that runs occupies its place,
\* one whose end is recorded occupies none, and what is booked at no cost was never sent
\* (awareness-narration-worker-dispatch.ts:39-45, awareness-narration-worker-lifecycle.ts:14-21).
THEOREM BudgetIsTrue == Spec => []BudgetTrueToProvider
<1>1. AwarenessInv => BudgetTrueToProvider
    BY DEF AwarenessInv
<1> QED
    BY <1>1, AwarenessInvariant, PTL

-----------------------------------------------------------------------------
(* The narration in batches publishes in order.                              *)

\* Among some receipts one is the last.
LEMMA LastOf ==
    ASSUME NEW S \in SUBSET Receipt, S # {}
    PROVE  \E s \in S : \A r \in S : r <= s
<1> DEFINE Bounds == {b \in Receipt : \A r \in S : r <= b}
<1>1. N \in Bounds
    <2>1. PICK s \in S : TRUE
        OBVIOUS
    <2>2. s \in 1..N /\ N \in Nat
        BY ReceiptNumbers DEF Receipt
    <2> QED
        BY <2>2, ReceiptNumbers DEF Receipt
<1>2. PICK b \in Bounds : \A c \in Bounds : b <= c
    BY <1>1, FirstOf
<1>3. b \in Receipt /\ \A r \in S : r <= b
    BY <1>2
<1>4. ASSUME b \notin S PROVE FALSE
    <2>1. PICK s \in S : TRUE
        OBVIOUS
    <2>2. s \in Nat /\ b \in Nat /\ 1 <= s /\ s <= b /\ s # b /\ b <= N /\ N \in Nat
        BY <1>3, <1>4, <2>1, ReceiptNumbers DEF Receipt
    <2>3. b - 1 \in Receipt
        BY <2>2 DEF Receipt
    <2>4. ASSUME NEW r \in S PROVE r <= b - 1
        BY <1>3, <1>4, <2>2, ReceiptNumbers
    <2>5. b <= b - 1
        BY <1>2, <2>3, <2>4
    <2> QED
        BY <2>2, <2>5
<1> QED
    BY <1>3, <1>4

\* Some receipts without a result that follow one another, after results only, get the
\* same one.
LEMMA PublishRun ==
    ASSUME AwarenessInv, NEW X \in SUBSET Receipt, X # {}, NEW x \in Terminal,
           NEW f \in X, \A r \in X : f <= r,
           \A r \in X : /\ status[r] \in Open /\ r <= committed
                        /\ \A e \in Receipt : f <= e /\ e < r => e \in X,
           \A e \in Receipt : e < f => status[e] \in Terminal,
           UNCHANGED committed,
           \A r \in Receipt : PublicResult'[r] = IF r \in X THEN x ELSE PublicResult[r]
    PROVE  Publication!PublishSome
<1>1. PICK s \in X : \A r \in X : r <= s
    BY LastOf
<1>2. Receipt = 1..N /\ N \in Nat /\ f \in 1..N /\ s \in 1..N /\ f <= s
    BY ReceiptNumbers DEF Receipt
<1>3. f..s \subseteq 1..N /\ 1..s \subseteq 1..N /\ s - f < N
    BY <1>2
<1>4. \A e \in 1..N : e \in f..s <=> e \in X
    <2> SUFFICES ASSUME NEW e \in 1..N PROVE e \in f..s <=> e \in X
        OBVIOUS
    <2>1. e \in X => f <= e /\ e <= s
        BY <1>1
    <2>2. f <= e /\ e <= s => e \in X
        <3>1. e <= s => e < s \/ e = s
            BY <1>2
        <3> QED
            BY <1>1, <1>2, <3>1
    <2> QED
        BY <1>2, <2>1, <2>2
<1>5. \A e \in 1..s : PublicResult[e] = "none" <=> e >= f
    <2> SUFFICES ASSUME NEW e \in 1..s PROVE PublicResult[e] = "none" <=> e >= f
        OBVIOUS
    <2>1. e \in 1..N /\ e <= s
        BY <1>2, <1>3
    <2>2. CASE e >= f
        <3>1. e \in X
            BY <1>2, <1>4, <2>1, <2>2
        <3> QED
            BY <2>2, <3>1 DEF PublicResult
    <2>3. CASE e < f
        <3>1. status[e] \in Terminal
            BY <1>2, <2>1, <2>3
        <3>2. ~(e >= f)
            BY <1>2, <2>1, <2>3
        <3> QED
            BY <1>2, <2>1, <3>1, <3>2 DEF PublicResult
    <2> QED
        BY <1>2, <2>1, <2>2, <2>3
<1>6. PublicResult' = [e \in 1..N |-> IF e \in f..s THEN x ELSE PublicResult[e]]
    <2>1. PublicResult' = [e \in 1..N |-> PublicResult'[e]]
        BY <1>2 DEF PublicResult
    <2>2. \A e \in 1..N : PublicResult'[e] = IF e \in f..s THEN x ELSE PublicResult[e]
        BY <1>2, <1>4
    <2> QED
        BY <2>1, <2>2
<1>7. Publication!Publish(f, s)
    BY <1>1, <1>3, <1>5, <1>6 DEF Publication!Publish, Publication!Results
<1> QED
    BY <1>2, <1>7 DEF Publication!PublishSome

LEMMA PublishedBatch ==
    ASSUME AwarenessInv, NEW a \in Receipt, Publishes(a)
    PROVE  Publication!PublishSome
<1>1. /\ members[a] # {} /\ UNCHANGED committed
      /\ \A r \in members[a] : status[r] = "generating"
      /\ status' = [r \in Receipt |-> IF r \in members[a] THEN "completed" ELSE status[r]]
    BY DEF Publishes
<1>2. /\ a \in members[a]
      /\ \A r \in members[a] : /\ a <= r /\ r <= committed
                               /\ \A e \in Receipt : a <= e /\ e < r => e \in members[a]
      /\ \A e \in Receipt : e < a => status[e] = "completed"
    BY <1>1 DEF AwarenessInv, BatchesOK, BatchOK
<1>3. PICK X \in SUBSET Receipt : X = members[a]
    BY CostOfRow
<1>4. \A r \in Receipt : PublicResult'[r] = IF r \in X THEN "completed" ELSE PublicResult[r]
    BY <1>1, <1>3 DEF PublicResult
<1> QED
    BY <1>1, <1>2, <1>3, <1>4, PublishRun

LEMMA FailedRun ==
    ASSUME AwarenessInv, NEW S \in SUBSET Receipt, Fails(S)
    PROVE  Publication!PublishSome \/ UNCHANGED <<committed, PublicResult>>
<1> DEFINE X == {r \in S : status[r] \in Open}
<1>r. /\ status \in [Receipt -> {"absent", "queued", "generating", "completed", "failed"}]
      /\ committed \in Nat
    BY RowTypes, CommittedNumbers DEF AwarenessInv, RowFuns
<1>1. /\ S \subseteq 1..committed /\ UNCHANGED committed
      /\ \A r \in S, e \in Receipt : e < r => e \in S \/ status[e] \in Terminal
      /\ \A r \in Receipt : status'[r] = IF r \in S /\ status[r] \in Open THEN "failed" ELSE status[r]
    BY DEF Fails, FailEntries
<1>2. \A r \in Receipt : PublicResult'[r] = IF r \in X THEN "failed" ELSE PublicResult[r]
    BY <1>1 DEF PublicResult
<1>3. CASE X = {}
    <2>1. PublicResult' = [r \in Receipt |-> PublicResult[r]]
        BY <1>2, <1>3 DEF PublicResult
    <2> QED
        BY <1>1, <2>1 DEF PublicResult
<1>4. CASE X # {}
    <2>1. PICK f \in X : \A r \in X : f <= r
        BY <1>4, FirstOf
    <2>2. \A e \in S : status[e] \in Open \/ status[e] \in Terminal
        <3>1. \A e \in S : ~(e > committed)
            BY <1>1, <1>r
        <3> QED
            BY <1>r, <3>1 DEF AwarenessInv, EntriesOK
    <2>3. ASSUME NEW e \in Receipt, e < f PROVE status[e] \in Terminal
        <3>1. e \in S \/ status[e] \in Terminal
            BY <1>1, <2>1, <2>3
        <3>2. e \notin X
            BY <2>1, <2>3, ReceiptNumbers
        <3> QED
            BY <2>2, <3>1, <3>2
    <2>4. ASSUME NEW r \in X, NEW e \in Receipt, f <= e, e < r PROVE e \in X
        <3>1. e \in S \/ status[e] \in Terminal
            BY <1>1, <2>4
        <3>2. status[e] \notin Terminal
            <4>1. e = f \/ f < e
                BY <2>4, ReceiptNumbers
            <4>2. status[f] \in Open /\ f \in Receipt
                OBVIOUS
            <4> QED
                BY <4>1, <4>2 DEF AwarenessInv, EntriesOK
        <3> QED
            BY <2>2, <3>1, <3>2
    <2>5. \A r \in X : status[r] \in Open /\ r <= committed
        BY <1>1, <1>r
    <2>6. X \in SUBSET Receipt
        OBVIOUS
    <2> HIDE DEF X
    <2> QED
        BY <1>1, <1>2, <1>4, <2>1, <2>3, <2>4, <2>5, <2>6, PublishRun
<1> QED
    BY <1>3, <1>4

LEMMA PublicationStep ==
    ASSUME AwarenessInv, [Next]_vars
    PROVE  [Publication!Next]_(Publication!pubVars)
<1>r. /\ status \in [Receipt -> {"absent", "queued", "generating", "completed", "failed"}]
      /\ committed \in Nat
    BY RowTypes, CommittedNumbers DEF AwarenessInv, RowFuns
<1>s. ASSUME UNCHANGED <<committed, PublicResult>> PROVE UNCHANGED Publication!pubVars
    BY <1>s DEF Publication!pubVars
<1>1. CASE UNCHANGED <<committed, status, members>>
    BY <1>1, <1>s DEF PublicResult
<1>2. CASE EnqueueNarration
    <2>1. /\ committed < N /\ committed' = committed + 1
          /\ status' = [status EXCEPT ![committed + 1] = "queued"]
          /\ status[committed + 1] = "absent"
        BY <1>2, EnqueueEffect DEF EnqueueNarration
    <2>2. \A r \in Receipt : status'[r] \in Terminal <=> status[r] \in Terminal
        BY <1>r, <2>1
    <2>3. \A r \in Receipt : status'[r] \in Terminal => status'[r] = status[r]
        BY <1>r, <2>1
    <2>4. PublicResult' = PublicResult
        BY <2>2, <2>3 DEF PublicResult
    <2> QED
        BY <2>1, <2>4 DEF Publication!Commit, Publication!Next
<1>3. ASSUME NEW w \in Workers, NEW a \in Receipt, NEW S \in SUBSET Receipt, Claims(w, a, S)
      PROVE  UNCHANGED Publication!pubVars
    <2>1. /\ \A r \in Receipt : status'[r] = IF r \in S THEN "generating" ELSE status[r]
          /\ \A r \in S : status[r] = "queued"
          /\ committed' = committed
        BY <1>3 DEF Claims
    <2>2. PublicResult' = PublicResult
        BY <2>1 DEF PublicResult
    <2> QED
        BY <1>s, <2>1, <2>2
<1>4. ASSUME NEW a \in Receipt, Publishes(a) PROVE Publication!Next
    BY <1>4, PublishedBatch DEF Publication!Next
<1>5. ASSUME NEW S \in SUBSET Receipt, Fails(S)
      PROVE  Publication!Next \/ UNCHANGED Publication!pubVars
    BY <1>5, <1>s, FailedRun DEF Publication!Next
<1> QED
    BY <1>1, <1>2, <1>3, <1>4, <1>5, EntryChanges

\* The safety of PublishesAll: the transactions of the batched narration publish, or fail,
\* runs of receipts in their order and for good, as OrderedPublication asks
\* (awareness-narration-worker-publication.ts:25-49, awareness-narration-worker-lifecycle.ts:11-32).
THEOREM BatchesPublishInOrder == Spec => Publication!Spec
<1>1. Init => Publication!Init
    BY DEF Init, Publication!Init, PublicResult, Receipt
<1> QED
    BY <1>1, AwarenessInvariant, PublicationStep, PTL DEF Spec, Publication!Spec
=============================================================================
