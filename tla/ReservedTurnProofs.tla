-------------------------- MODULE ReservedTurnProofs --------------------------
(* Theorems about ReservedTurn for any number of cores, attempts, requests     *)
(* and faults.                                                                *)
EXTENDS ReservedTurn, TLAPS

-----------------------------------------------------------------------------
(* The inductive invariant.                                                  *)

Invalid == {"invalid", "garbled"}

\* What a record, the call it stands for and the callbacks of the call say of each other.
CallOK(i) ==
    LET r == request[i] IN
    /\ r.status = "absent" <=> call[i] = "none"
    /\ call[i] = "none" => handler[i] = "none"
    /\ call[i] \in {"pending", "lost"} => r.outstanding
    /\ handler[i] \notin {"none", "sent"} /\ call[i] # "lost" => ~r.outstanding
    /\ handler[i] = "accounted" => call[i] \in {"valid", "garbled"}
    /\ handler[i] \in {"prepared", "conflict"} => call[i] = "valid"
    /\ handler[i] = "invalid" => call[i] \in Invalid
    /\ handler[i] = "limited" => call[i] = "limited"
    /\ handler[i] = "failed" => call[i] \in {"rejected", "valid", "lost"}
    /\ r.failure = "RATE_LIMIT" => call[i] = "limited"
    /\ r.failure \in {"INVALID", "FALLBACK"} => call[i] \in Invalid
    /\ r.failure = "FALLBACK" => i.correction = 1
    /\ r.status = "prepared" /\ r.failure # "FALLBACK" => call[i] = "valid"

\* What lets a request be made: the attempts before it were refused, and a correction
\* follows an invalid answer.
Justified(i) ==
    /\ \A j \in Id : j.of = i.of /\ j.correction = i.correction /\ j.attempt < i.attempt
          => call[j] = "limited"
    /\ i.correction = 1 => \E j \in Id : j.of = i.of /\ j.correction = 0 /\ call[j] \in Invalid

\* What a thread that is done has found, even if its record is written over later.
Decided(l) ==
    \E i \in Id : /\ i.of = l
                  /\ \/ call[i] = "valid"
                     \/ request[i].status = "prepared" /\ request[i].failure = "FALLBACK"

ThreadOK(c, l) ==
    LET i == ThisId(c, l) IN
    /\ Justified(i)
    /\ thread[c][l].at = "wait" =>
          owner[i] = c /\ request[i].status # "absent" /\ request[i].failure = "none"
    /\ thread[c][l].at = "done" => Decided(l)

CoreOK(c) ==
    /\ pc[c] \in {"judge", "commit"} => \A l \in Plans : thread[c][l].at = "done"
    /\ pc[c] = "commit" => thread[c]["judge"].at = "done"

CallsOK == \A i \in Id : CallOK(i) /\ (Sent(i) => Justified(i))

ThreadsOK == \A c \in Core : CoreOK(c) /\ \A l \in Logical : ThreadOK(c, l)

TurnInv == TypeOK /\ CallsOK /\ ThreadsOK

-----------------------------------------------------------------------------
(* Type correctness.                                                         *)

CallValue == {"none", "pending", "lost"} \cup Received
HandlerValue == {"none", "sent", "accounted", "prepared"} \cup Errors
PcValue == {"unborn", "plans", "judge", "commit", "failed", "done", "stopped", "left",
            "crashed"}

LEMMA IdType ==
    ASSUME TypeOK, NEW c \in Core, NEW l \in Logical
    PROVE  /\ thread[c][l] \in Thread /\ ThisId(c, l) \in Id
           /\ ThisId(c, l).of = l
           /\ ThisId(c, l).correction = thread[c][l].correction
           /\ ThisId(c, l).attempt = thread[c][l].attempt
BY DEF TypeOK, ThisId, Thread, Id

\* What a thread becomes.
LEMMA ThreadType ==
    ASSUME NEW t \in Thread
    PROVE  /\ Idle \in Thread /\ Begin \in Thread
           /\ Corrected(t) \in Thread /\ Retried(t) \in Thread
           /\ \A at \in {"wait", "failed", "conflict", "done"} : [t EXCEPT !.at = at] \in Thread
<1>1. Idle \in Thread /\ Begin \in Thread
    BY ReservedTurnAssumption DEF Idle, Begin, Thread
<1>2. Corrected(t) \in Thread
    <2>1. [Begin EXCEPT !.correction = 1] \in Thread /\ [t EXCEPT !.at = "fallback"] \in Thread
        BY <1>1 DEF Thread
    <2> QED
        BY <2>1 DEF Corrected
<1>3. Retried(t) \in Thread
    <2>1. [t EXCEPT !.at = "failed"] \in Thread
        BY DEF Thread
    <2>2. ASSUME t.attempt + 1 < MaxAttempts
          PROVE  [t EXCEPT !.at = "look", !.attempt = t.attempt + 1] \in Thread
        <3>1. t.attempt + 1 \in 0..(MaxAttempts - 1)
            BY <2>2, ReservedTurnAssumption DEF Thread
        <3> QED
            BY <3>1 DEF Thread
    <2> QED
        BY <2>1, <2>2 DEF Retried
<1> QED
    BY <1>1, <1>2, <1>3 DEF Thread

LEMMA GoesType ==
    ASSUME TypeOK, NEW c \in Core, NEW l \in Logical, NEW t \in Thread, Goes(c, l, t)
    PROVE  /\ UNCHANGED pc
           /\ thread' \in [Core -> [Logical -> Thread]]
           /\ thread'[c][l] = t
           /\ \A d \in Core, k \in Logical :
                 d # c \/ k # l => thread'[d][k] = thread[d][k]
BY DEF TypeOK, Goes

LEMMA TypeInit == Init => TypeOK
BY ReservedTurnAssumption
DEF Init, TypeOK, Record, Absent, Thread, Idle, Received, Errors, Core

Statuses == {"absent", "reserved", "prepared", "failed"}
Failures == {"none", "RATE_LIMIT", "INVALID", "REQUEST_FAILED", "FALLBACK"}

\* A record that is written over in some of its fields.
LEMMA RecordType ==
    ASSUME NEW r \in Record, NEW s \in Statuses, NEW o \in BOOLEAN, NEW w \in BOOLEAN,
           NEW f \in Failures
    PROVE  /\ [r EXCEPT !.status = s] \in Record
           /\ [r EXCEPT !.raw = w] \in Record
           /\ [r EXCEPT !.outstanding = o, !.raw = w] \in Record
           /\ [r EXCEPT !.status = s, !.failure = f] \in Record
           /\ [r EXCEPT !.status = s, !.outstanding = o, !.failure = f] \in Record
BY DEF Record, Statuses, Failures

\* A step of a thread leaves everything but its thread, or its record too.
LEMMA ThreadStepType ==
    ASSUME TypeOK, NEW c \in Core, NEW l \in Logical, ThreadStep(c, l) PROVE TypeOK'
<1>0. thread[c][l] \in Thread /\ ThisId(c, l) \in Id /\ request \in [Id -> Record]
    BY IdType DEF TypeOK
<1>1. ASSUME NEW t \in Thread, Goes(c, l, t), request' \in [Id -> Record],
             UNCHANGED <<status, turn, holder, call, handler, owner, late, faults>>
      PROVE  TypeOK'
    BY <1>1, GoesType DEF TypeOK
<1>2. CASE Look(c, l)
    <2>1. \E t \in Thread : Goes(c, l, t)
        BY <1>0, <1>2, ThreadType DEF Look
    <2> QED
        BY <1>0, <1>1, <1>2, <2>1 DEF Look, row
<1>3. CASE CannotReserve(c, l)
    <2>1. \E t \in Thread : Goes(c, l, t)
        BY <1>0, <1>3, ThreadType DEF CannotReserve
    <2> QED
        BY <1>0, <1>1, <1>3, <2>1 DEF CannotReserve, row
<1>4. CASE Take(c, l)
    <2>1. \E t \in Thread : Goes(c, l, t)
        BY <1>0, <1>4, ThreadType DEF Take
    <2> QED
        BY <1>0, <1>1, <1>4, <2>1 DEF Take, row
<1>5. CASE Reserve(c, l)
    <2>1. PICK t \in Thread : Goes(c, l, t)
        BY <1>0, <1>5, ThreadType DEF Reserve
    <2>2. request' \in [Id -> Record]
        BY <1>0, <1>5 DEF Reserve, Reserved, Absent, Record
    <2>3. /\ owner' \in [Id -> 0..MaxCores] /\ call' \in [Id -> CallValue]
          /\ handler' \in [Id -> HandlerValue]
        BY <1>0, <1>5, ReservedTurnAssumption
        DEF Reserve, TypeOK, Core, CallValue, HandlerValue
    <2> QED
        BY <1>5, <2>1, <2>2, <2>3, GoesType DEF Reserve, TypeOK, CallValue, HandlerValue
<1>6. ASSUME NEW error \in Errors, Catch(c, l, error) PROVE TypeOK'
    <2>1. \E t \in Thread : Goes(c, l, t)
        BY <1>0, <1>6, ThreadType DEF Catch
    <2>2. Failure(error) \in {"RATE_LIMIT", "INVALID", "REQUEST_FAILED"}
        BY DEF Failure
    <2>3. StillOutstanding(ThisId(c, l)) \in BOOLEAN
        BY DEF StillOutstanding
    <2>4. request' \in [Id -> Record]
        <3>1. request' = [request EXCEPT ![ThisId(c, l)] =
                 [request[ThisId(c, l)] EXCEPT !.status = "failed",
                                               !.outstanding = StillOutstanding(ThisId(c, l)),
                                               !.failure = Failure(error)]]
            BY <1>0, <1>6 DEF Catch
        <3>2. request'[ThisId(c, l)] \in Record
            BY <1>0, <2>2, <2>3, <3>1, RecordType DEF Statuses, Failures
        <3> QED
            BY <1>0, <3>1, <3>2
    <2> QED
        BY <1>1, <1>6, <2>1, <2>4 DEF Catch
<1>7. CASE Fallback(c, l)
    <2>1. \E t \in Thread : Goes(c, l, t)
        BY <1>0, <1>7, ThreadType DEF Fallback
    <2>2. request' \in [Id -> Record]
        <3>1. ASSUME NEW i \in Id,
                     request' = [request EXCEPT ![i].status = "prepared", ![i].failure = "FALLBACK"]
              PROVE  request' \in [Id -> Record]
            <4>1. request' = [request EXCEPT ![i] =
                     [request[i] EXCEPT !.status = "prepared", !.failure = "FALLBACK"]]
                BY <1>0, <3>1
            <4> QED
                BY <1>0, <4>1, RecordType DEF Statuses, Failures
        <3> QED
            BY <1>0, <1>7, <3>1 DEF Fallback, FallbackTargets
    <2> QED
        BY <1>1, <1>7, <2>1, <2>2 DEF Fallback
<1> QED
    BY <1>2, <1>3, <1>4, <1>5, <1>6, <1>7 DEF ThreadStep

\* A step of a call writes its call, its record or its callbacks, of one id.
LEMMA CallStepType ==
    ASSUME TypeOK, NEW i \in Id, CallStep(i) PROVE TypeOK'
<1>0. /\ request \in [Id -> Record] /\ call \in [Id -> CallValue]
      /\ handler \in [Id -> HandlerValue]
    BY DEF TypeOK, CallValue, HandlerValue
<1>1. ASSUME NEW from, NEW to \in HandlerValue, HandlerOf(i, from, to),
             request' \in [Id -> Record]
      PROVE  TypeOK'
    <2>1. handler' \in [Id -> HandlerValue]
        BY <1>0, <1>1 DEF HandlerOf
    <2> QED
        BY <1>1, <2>1 DEF HandlerOf, TypeOK, memory, HandlerValue
<1>2. CASE Answer(i)
    <2>1. call' \in [Id -> CallValue]
        BY <1>0, <1>2 DEF Answer, CallValue, Received
    <2>2. faults' \in 0..MaxFaults
        BY <1>2, ReservedTurnAssumption DEF Answer, Fault, TypeOK
    <2> QED
        BY <1>2, <2>1, <2>2 DEF Answer, TypeOK, row, memory, CallValue
<1>3. CASE Account(i)
    <2>1. request' \in [Id -> Record]
        <3> DEFINE kept == request[i].raw \/ call[i] \in {"valid", "invalid"}
        <3>1. kept \in BOOLEAN
            BY <1>0 DEF Record
        <3>2. request' = [request EXCEPT ![i] = [request[i] EXCEPT !.outstanding = FALSE,
                                                                  !.raw = kept]]
            BY <1>0, <1>3 DEF Account
        <3> HIDE DEF kept
        <3>3. request[i] \in Record
            BY <1>0
        <3>4. [request[i] EXCEPT !.outstanding = FALSE, !.raw = kept] \in Record
            BY <3>1, <3>3 DEF Record
        <3> QED
            BY <1>0, <3>2, <3>4
    <2>2. (CASE call[i] \in {"valid", "garbled"} -> "accounted"
             [] call[i] = "rejected" -> "failed"
             [] OTHER -> call[i]) \in HandlerValue
        BY <1>0, <1>3 DEF Account, Received, HandlerValue, Errors
    <2> QED
        BY <1>1, <1>3, <2>1, <2>2 DEF Account
<1>4. CASE KeepRejectedText(i)
    <2>1. request' \in [Id -> Record]
        BY <1>0, <1>4 DEF KeepRejectedText, Record
    <2> QED
        BY <1>1, <1>4, <2>1 DEF KeepRejectedText, HandlerValue, Errors
<1>5. CASE Prepare(i)
    <2>1. request' \in [Id -> Record]
        BY <1>0, <1>5 DEF Prepare, Record
    <2> QED
        BY <1>1, <1>5, <2>1 DEF Prepare, HandlerValue, Errors
<1>6. CASE Broken(i) \/ CannotPrepare(i)
    BY <1>0, <1>1, <1>6 DEF Broken, CannotPrepare, HandlerValue, Errors
<1> QED
    BY <1>2, <1>3, <1>4, <1>5, <1>6 DEF CallStep

TurnStep(c) ==
    \/ StartTurn(c) \/ PlansSettle(c) \/ JudgeSettles(c)
    \/ Commit(c) \/ CannotCommit(c) \/ Overtaken(c) \/ Stop(c)

\* The records and the calls are not the business of the turn, of time or of crashes.
LEMMA TurnFrame ==
    ASSUME NEW c \in Core, TurnStep(c)
    PROVE  UNCHANGED <<request, call, handler, owner, late, faults>>
BY DEF TurnStep, StartTurn, PlansSettle, JudgeSettles, Commit, CannotCommit, Overtaken, Stop, row

LEMMA TurnStepType ==
    ASSUME TypeOK, NEW c \in Core, TurnStep(c) PROVE TypeOK'
<1>0. /\ UNCHANGED <<request, call, handler, owner, late, faults>>
      /\ pc \in [Core -> PcValue] /\ thread \in [Core -> [Logical -> Thread]]
    BY TurnFrame DEF TypeOK, PcValue
<1>1. pc' \in [Core -> PcValue]
    BY <1>0
    DEF TurnStep, StartTurn, PlansSettle, JudgeSettles, Commit, CannotCommit, Overtaken, Stop,
        Ends, PcValue
<1>2. thread' \in [Core -> [Logical -> Thread]]
    <2>1. Idle \in Thread /\ Begin \in Thread
        BY ReservedTurnAssumption DEF Idle, Begin, Thread
    <2>2. "judge" \in Logical
        BY DEF Logical
    <2>3. CASE StartTurn(c)
        <3>1. [l \in Logical |-> IF l \in Plans THEN Begin ELSE Idle] \in [Logical -> Thread]
            BY <2>1
        <3> QED
            BY <1>0, <2>3, <3>1 DEF StartTurn
    <2>4. CASE PlansSettle(c)
        BY <1>0, <2>1, <2>2, <2>4 DEF PlansSettle
    <2>5. CASE ~StartTurn(c) /\ ~PlansSettle(c)
        BY <1>0, <2>5 DEF TurnStep, JudgeSettles, Commit, CannotCommit, Overtaken, Stop
    <2> QED
        BY <2>3, <2>4, <2>5
<1>3. holder' \in 0..MaxCores
    BY ReservedTurnAssumption
    DEF TurnStep, StartTurn, PlansSettle, JudgeSettles, Commit, CannotCommit, Overtaken, Stop,
        Releases, TypeOK, Core
<1>4. status' \in {"active", "incomplete"} /\ turn' \in 0..1
    BY DEF TurnStep, StartTurn, PlansSettle, JudgeSettles, Commit, CannotCommit, Overtaken, Stop,
        TypeOK, row
<1> QED
    BY <1>0, <1>1, <1>2, <1>3, <1>4 DEF TypeOK, PcValue

Disturbance == (\E c \in Core : Lapse(c) \/ Crash(c)) \/ \E clock \in Clocks : DeadlinePasses(clock)

LEMMA DisturbanceType == TypeOK /\ Disturbance => TypeOK'
<1> SUFFICES ASSUME TypeOK, Disturbance PROVE TypeOK'
    OBVIOUS
<1>1. faults' \in 0..MaxFaults
    BY ReservedTurnAssumption DEF Disturbance, Lapse, Crash, DeadlinePasses, Fault, TypeOK
<1>2. CASE \E c \in Core : Lapse(c)
    BY <1>1, <1>2, ReservedTurnAssumption DEF Lapse, TypeOK, row, memory
<1>3. CASE \E c \in Core : Crash(c)
    <2>1. pc' \in [Core -> PcValue] /\ holder' \in 0..MaxCores
        BY <1>3, ReservedTurnAssumption DEF Crash, Releases, TypeOK, PcValue
    <2> QED
        BY <1>1, <1>3, <2>1 DEF Crash, TypeOK, row, PcValue
<1>4. CASE \E clock \in Clocks : DeadlinePasses(clock)
    BY <1>1, <1>4 DEF DeadlinePasses, TypeOK, row, memory
<1> QED
    BY <1>2, <1>3, <1>4 DEF Disturbance

\* The three kinds of step.
LEMMA Steps ==
    ASSUME Next
    PROVE  \/ \E c \in Core, l \in Logical : ThreadStep(c, l)
           \/ \E i \in Id : owner[i] \in Core /\ CallStep(i)
           \/ \E c \in Core : TurnStep(c)
           \/ Disturbance
BY DEF Next, Progress, CoreStep, TurnStep, Disturbance

LEMMA TypeStep == TypeOK /\ [Next]_vars => TypeOK'
<1>1. CASE UNCHANGED vars
    BY <1>1 DEF vars, TypeOK
<1> QED
    BY <1>1, Steps, ThreadStepType, CallStepType, TurnStepType, DisturbanceType

\* Every variable keeps its type.
THEOREM TurnTypes == Spec => []TypeOK
BY TypeInit, TypeStep, PTL DEF Spec

-----------------------------------------------------------------------------
(* What a step keeps.                                                        *)

\* An answer is final, a record stays, and so does the core it belongs to and a
\* fallback that was written into it.
RecordsKept ==
    \A i \in Id :
        /\ call[i] \in Received => call'[i] = call[i]
        /\ request[i].status # "absent" =>
              request'[i].status # "absent" /\ owner'[i] = owner[i]
        /\ request[i].status = "prepared" /\ request[i].failure = "FALLBACK" =>
              request'[i].status = "prepared" /\ request'[i].failure = "FALLBACK"

LEMMA JustifiedKept ==
    ASSUME RecordsKept, NEW i \in Id, Justified(i) PROVE Justified(i)'
BY DEF RecordsKept, Justified, Received, Invalid

LEMMA DecidedKept ==
    ASSUME RecordsKept, NEW l \in Logical, Decided(l) PROVE Decided(l)'
BY DEF RecordsKept, Decided, Received

LEMMA ThreadKept ==
    ASSUME TypeOK, RecordsKept, NEW c \in Core, NEW l \in Logical, ThreadOK(c, l),
           thread'[c][l] = thread[c][l],
           thread[c][l].at = "wait" => request'[ThisId(c, l)].failure = "none"
    PROVE  ThreadOK(c, l)'
<1>1. ThisId(c, l) \in Id /\ ThisId(c, l)' = ThisId(c, l)
    BY IdType DEF ThisId
<1>2. Justified(ThisId(c, l))'
    BY <1>1, JustifiedKept DEF ThreadOK
<1>3. thread[c][l].at = "wait" =>
         owner'[ThisId(c, l)] = c /\ request'[ThisId(c, l)].status # "absent"
    BY <1>1 DEF ThreadOK, RecordsKept
<1>4. thread[c][l].at = "done" => Decided(l)'
    BY DecidedKept DEF ThreadOK
<1> QED
    BY <1>1, <1>2, <1>3, <1>4 DEF ThreadOK

\* Nothing is written.
LEMMA AllKept ==
    ASSUME TypeOK, UNCHANGED <<request, call, handler, owner>>
    PROVE  RecordsKept /\ (CallsOK => CallsOK')
BY DEF RecordsKept, CallsOK, CallOK, Sent, Justified

\* One record or its call is written; the others are as they were.
LEMMA OneRecord ==
    ASSUME TypeOK, CallsOK, RecordsKept, NEW i \in Id, CallOK(i)',
           Sent(i)' => Justified(i),
           \A j \in Id \ {i} : /\ request'[j] = request[j] /\ call'[j] = call[j]
                               /\ handler'[j] = handler[j]
    PROVE  CallsOK'
<1> SUFFICES ASSUME NEW j \in Id PROVE CallOK(j)' /\ (Sent(j)' => Justified(j)')
    BY DEF CallsOK
<1>1. CASE j = i
    BY <1>1, JustifiedKept
<1>2. CASE j # i
    <2>1. CallOK(j) /\ (Sent(j) => Justified(j))
        BY DEF CallsOK
    <2>2. CallOK(j)' /\ (Sent(j)' => Sent(j))
        BY <1>2, <2>1 DEF CallOK, Sent
    <2> QED
        BY <2>1, <2>2, JustifiedKept
<1> QED
    BY <1>1, <1>2

-----------------------------------------------------------------------------
(* The calls.                                                                *)

LEMMA CallStepKeeps ==
    ASSUME TypeOK, CallsOK, NEW i \in Id, CallStep(i)
    PROVE  /\ RecordsKept /\ CallsOK' /\ UNCHANGED memory
           /\ \A j \in Id : request'[j].failure = request[j].failure
<1>0. /\ request \in [Id -> Record] /\ call \in [Id -> CallValue]
      /\ handler \in [Id -> HandlerValue]
      /\ CallOK(i) /\ (Sent(i) => Justified(i))
    BY DEF TypeOK, CallValue, HandlerValue, CallsOK
<1>1. /\ UNCHANGED <<memory, owner>>
      /\ \A j \in Id \ {i} : /\ request'[j] = request[j] /\ call'[j] = call[j]
                             /\ handler'[j] = handler[j]
    BY <1>0
    DEF CallStep, Answer, Account, KeepRejectedText, Broken, Prepare, CannotPrepare, HandlerOf,
        row
<1>2. ASSUME request'[i].failure = request[i].failure, CallOK(i)', Sent(i),
             call[i] \in Received => call'[i] = call[i],
             request'[i].status \in {request[i].status, "prepared"}
      PROVE  RecordsKept /\ CallsOK' /\ \A j \in Id : request'[j].failure = request[j].failure
    <2>1. \A j \in Id : request'[j].failure = request[j].failure
        BY <1>1, <1>2
    <2>2. RecordsKept
        BY <1>1, <1>2 DEF RecordsKept
    <2> QED
        BY <1>0, <1>1, <1>2, <2>1, <2>2, OneRecord
<1>3. CASE Answer(i)
    <2>1. /\ UNCHANGED <<request, handler>> /\ call[i] = "pending"
          /\ call'[i] \in Received \cup {"lost"}
        BY <1>0, <1>3 DEF Answer, row, Received
    <2>2. handler[i] \in {"none", "sent"}
        BY <1>0, <2>1 DEF CallOK, HandlerValue, Errors, Invalid
    <2>3. CallOK(i)'
        BY <1>0, <2>1, <2>2 DEF CallOK, Received, Invalid
    <2> QED
        BY <1>1, <1>2, <2>1, <2>3 DEF Sent, Received
<1>4. CASE Account(i)
    <2>1. /\ call'[i] = call[i] /\ call[i] \in Received /\ handler[i] = "sent"
          /\ request'[i].status = request[i].status
          /\ request'[i].failure = request[i].failure
          /\ request'[i].outstanding = FALSE
          /\ handler'[i] = CASE call[i] \in {"valid", "garbled"} -> "accounted"
                             [] call[i] = "rejected" -> "failed"
                             [] OTHER -> call[i]
        BY <1>0, <1>4 DEF Account, HandlerOf, Record
    <2>2. CallOK(i)'
        BY <1>0, <2>1 DEF CallOK, Received, Invalid
    <2> QED
        BY <1>1, <1>2, <2>1, <2>2 DEF Sent, Received
<1>5. CASE KeepRejectedText(i)
    <2>1. /\ call'[i] = call[i] /\ call[i] = "garbled"
          /\ request'[i].status = request[i].status
          /\ request'[i].failure = request[i].failure
          /\ request'[i].outstanding = request[i].outstanding
          /\ handler[i] = "accounted" /\ handler'[i] = "invalid"
        BY <1>0, <1>5 DEF KeepRejectedText, HandlerOf, Record
    <2>2. CallOK(i)'
        BY <1>0, <2>1 DEF CallOK, Received, Invalid
    <2> QED
        BY <1>1, <1>2, <2>1, <2>2 DEF Sent, Received
<1>6. CASE Prepare(i)
    <2>1. /\ call'[i] = call[i] /\ call[i] = "valid"
          /\ request'[i].status = "prepared"
          /\ request'[i].failure = request[i].failure
          /\ request'[i].outstanding = request[i].outstanding
          /\ handler[i] = "accounted" /\ handler'[i] = "prepared"
        BY <1>0, <1>6 DEF Prepare, HandlerOf, Record
    <2>2. CallOK(i)'
        BY <1>0, <2>1 DEF CallOK, Received, Invalid
    <2> QED
        BY <1>1, <1>2, <2>1, <2>2 DEF Sent, Received
<1>7. CASE Broken(i) \/ CannotPrepare(i)
    <2>1. /\ UNCHANGED <<request, call>>
          /\ \/ call[i] = "lost" /\ handler[i] = "sent" /\ handler'[i] = "failed"
             \/ /\ call[i] = "valid" /\ handler[i] = "accounted"
                /\ handler'[i] \in {"failed", "conflict"}
        BY <1>0, <1>7 DEF Broken, CannotPrepare, HandlerOf
    <2>2. CallOK(i)'
        BY <1>0, <2>1 DEF CallOK, Received, Invalid
    <2> QED
        BY <1>1, <1>2, <2>1, <2>2 DEF Sent, Received
<1> QED
    BY <1>1, <1>3, <1>4, <1>5, <1>6, <1>7 DEF CallStep

-----------------------------------------------------------------------------
(* The threads.                                                              *)

IdOf(l, t) == [of |-> l, correction |-> t.correction, attempt |-> t.attempt]

LEMMA IdOfType ==
    ASSUME NEW l \in Logical, NEW t \in Thread
    PROVE  /\ IdOf(l, t) \in Id
           /\ \A i \in Id : i.of = l /\ i.correction = t.correction /\ i.attempt = t.attempt
                 => i = IdOf(l, t)
BY DEF IdOf, Id, Thread

\* The next attempt follows a refusal.
LEMMA RetriedJustified ==
    ASSUME NEW l \in Logical, NEW t \in Thread, Justified(IdOf(l, t)),
           call[IdOf(l, t)] = "limited"
    PROVE  Justified(IdOf(l, Retried(t))) /\ Retried(t).at \in {"look", "failed"}
<1>1. CASE t.attempt + 1 < MaxAttempts
    <2>1. /\ Retried(t).at = "look"
          /\ IdOf(l, Retried(t)) = [of |-> l, correction |-> t.correction,
                                    attempt |-> t.attempt + 1]
        BY <1>1 DEF Retried, IdOf, Thread
    <2>2. ASSUME NEW j \in Id, j.of = l, j.correction = t.correction,
                 j.attempt < t.attempt + 1
          PROVE  call[j] = "limited"
        <3>1. j.attempt < t.attempt \/ j.attempt = t.attempt
            BY <2>2, ReservedTurnAssumption DEF Id, Thread
        <3>2. CASE j.attempt < t.attempt
            BY <2>2, <3>2 DEF Justified, IdOf
        <3>3. CASE j.attempt = t.attempt
            BY <2>2, <3>3, IdOfType
        <3> QED
            BY <3>1, <3>2, <3>3
    <2> QED
        BY <2>1, <2>2 DEF Justified, IdOf
<1>2. CASE ~(t.attempt + 1 < MaxAttempts)
    <2>1. Retried(t).at = "failed" /\ IdOf(l, Retried(t)) = IdOf(l, t)
        BY <1>2 DEF Retried, IdOf, Thread
    <2> QED
        BY <2>1
<1> QED
    BY <1>1, <1>2

\* The correction follows an invalid answer.
LEMMA CorrectedJustified ==
    ASSUME NEW l \in Logical, NEW t \in Thread, Justified(IdOf(l, t)),
           call[IdOf(l, t)] \in Invalid
    PROVE  Justified(IdOf(l, Corrected(t))) /\ Corrected(t).at \in {"look", "fallback"}
<1>1. CASE t.correction = 0
    <2>1. /\ Corrected(t).at = "look"
          /\ IdOf(l, Corrected(t)) = [of |-> l, correction |-> 1, attempt |-> 0]
        BY <1>1 DEF Corrected, Begin, Idle, IdOf
    <2>2. \A j \in Id : ~(j.attempt < 0)
        BY ReservedTurnAssumption DEF Id
    <2>3. IdOf(l, t) \in Id /\ IdOf(l, t).of = l /\ IdOf(l, t).correction = 0
        BY <1>1, IdOfType DEF IdOf
    <2> QED
        BY <2>1, <2>2, <2>3 DEF Justified
<1>2. CASE t.correction # 0
    <2>1. Corrected(t).at = "fallback" /\ IdOf(l, Corrected(t)) = IdOf(l, t)
        BY <1>2 DEF Corrected, IdOf, Thread
    <2> QED
        BY <2>1
<1> QED
    BY <1>1, <1>2

\* A thread that begins.
LEMMA BeginJustified ==
    ASSUME NEW l \in Logical PROVE Justified(IdOf(l, Begin)) /\ Justified(IdOf(l, Idle))
<1>1. \A j \in Id : ~(j.attempt < 0)
    BY ReservedTurnAssumption DEF Id
<1> QED
    BY <1>1 DEF Justified, IdOf, Begin, Idle

\* A step of one thread: the others go on as they were.
LEMMA ThreadGoes ==
    ASSUME TypeOK, ThreadsOK, RecordsKept, NEW c \in Core, NEW l \in Logical,
           NEW t \in Thread, Goes(c, l, t), thread[c][l].at # "done",
           Justified(IdOf(l, t)),
           t.at = "wait" => owner'[IdOf(l, t)] = c /\ request'[IdOf(l, t)].status # "absent"
                               /\ request'[IdOf(l, t)].failure = "none",
           t.at = "done" => Decided(l)',
           \A i \in Id : request[i].failure = "none" /\ i # ThisId(c, l)
                            => request'[i].failure = "none",
           request[ThisId(c, l)].failure = "none" /\ thread[c][l].at # "wait"
              => request'[ThisId(c, l)].failure = "none"
    PROVE  ThreadsOK'
<1>1. /\ UNCHANGED pc /\ thread'[c][l] = t
      /\ \A d \in Core, k \in Logical : d # c \/ k # l => thread'[d][k] = thread[d][k]
    BY GoesType
<1>2. ASSUME NEW d \in Core PROVE CoreOK(d)'
    <2>1. CoreOK(d)
        BY DEF ThreadsOK
    <2>2. \A k \in Logical : thread[d][k].at = "done" => thread'[d][k].at = "done"
        BY <1>1
    <2>3. Plans \subseteq Logical /\ "judge" \in Logical
        BY DEF Logical
    <2> QED
        BY <1>1, <2>1, <2>2, <2>3 DEF CoreOK
<1>3. ThreadOK(c, l)'
    <2>1. ThisId(c, l)' = IdOf(l, t) /\ IdOf(l, t) \in Id
        BY <1>1, IdOfType DEF ThisId, IdOf
    <2>2. Justified(ThisId(c, l))'
        BY <2>1, JustifiedKept
    <2> QED
        BY <1>1, <2>1, <2>2 DEF ThreadOK
<1>4. ASSUME NEW d \in Core, NEW k \in Logical, d # c \/ k # l PROVE ThreadOK(d, k)'
    <2>1. ThreadOK(d, k) /\ ThreadOK(c, l)
        BY DEF ThreadsOK
    <2>2. ThisId(d, k) \in Id /\ ThisId(d, k).of = k /\ ThisId(c, l).of = l
        BY IdType
    <2>3. ASSUME thread[d][k].at = "wait" PROVE request'[ThisId(d, k)].failure = "none"
        <3>1. owner[ThisId(d, k)] = d /\ request[ThisId(d, k)].failure = "none"
            BY <2>1, <2>3 DEF ThreadOK
        <3>2. CASE ThisId(d, k) # ThisId(c, l)
            BY <2>2, <3>1, <3>2
        <3>3. CASE ThisId(d, k) = ThisId(c, l)
            <4>1. k = l /\ d # c
                BY <1>4, <2>2, <3>3
            <4>2. thread[c][l].at # "wait"
                BY <2>1, <3>1, <3>3, <4>1 DEF ThreadOK
            <4> QED
                BY <3>1, <3>3, <4>2
        <3> QED
            BY <3>2, <3>3
    <2> QED
        BY <1>1, <1>4, <2>1, <2>3, ThreadKept
<1> QED
    BY <1>2, <1>3, <1>4 DEF ThreadsOK

LEMMA ThreadReads ==
    ASSUME TypeOK, CallsOK, ThreadsOK, NEW c \in Core, NEW l \in Logical,
           Look(c, l) \/ CannotReserve(c, l) \/ Take(c, l)
    PROVE  CallsOK' /\ ThreadsOK'
<1> DEFINE t == thread[c][l]
           i == ThisId(c, l)
<1>0. /\ t \in Thread /\ i \in Id /\ i = IdOf(l, t) /\ Justified(i)
      /\ CallOK(i) /\ i.of = l
    BY IdType DEF ThisId, IdOf, ThreadsOK, ThreadOK, CallsOK
<1>1. UNCHANGED <<request, call, handler, owner>>
    BY DEF Look, CannotReserve, Take, row
<1>2. RecordsKept /\ CallsOK'
    BY <1>1, AllKept
<1>3. ASSUME NEW u \in Thread, Goes(c, l, u), t.at # "done", Justified(IdOf(l, u)),
             u.at # "wait", u.at = "done" => Decided(l)
      PROVE  ThreadsOK'
    <2>1. u.at = "done" => Decided(l)'
        BY <1>2, <1>3, DecidedKept
    <2> QED
        BY <1>1, <1>2, <1>3, <2>1, ThreadGoes
<1>4. ASSUME NEW at \in {"failed", "conflict", "done"}, Goes(c, l, [t EXCEPT !.at = at]),
             t.at # "done", at = "done" => Decided(l)
      PROVE  ThreadsOK'
    <2>1. /\ [t EXCEPT !.at = at] \in Thread /\ [t EXCEPT !.at = at].at = at
          /\ IdOf(l, [t EXCEPT !.at = at]) = i
        BY <1>0, ThreadType DEF IdOf, Thread
    <2> QED
        BY <1>0, <1>3, <1>4, <2>1
<1>5. ASSUME Look(c, l) PROVE ThreadsOK'
    <2>1. CASE request[i].status = "prepared"
        <3>1. Decided(l) /\ t.at = "look"
            BY <1>0, <1>5, <2>1 DEF Look, CallOK, Decided
        <3>2. Goes(c, l, [t EXCEPT !.at = "done"]) \/ Goes(c, l, [t EXCEPT !.at = "failed"])
            BY <1>5, <2>1 DEF Look, ClosedRecoverable
        <3> QED
            BY <1>4, <3>1, <3>2
    <2>2. CASE request[i].failure = "RATE_LIMIT"
        <3>1. /\ Retried(t) \in Thread /\ Justified(IdOf(l, Retried(t)))
              /\ Retried(t).at \in {"look", "failed"}
            BY <1>0, <2>2, ThreadType, RetriedJustified DEF CallOK
        <3>2. CASE request[i].status # "prepared"
            <4>1. t.at = "look" /\ ~ClosedRecoverable(request[i])
                BY <1>5, <2>2 DEF Look, ClosedRecoverable
            <4>2. Goes(c, l, Retried(t)) \/ Goes(c, l, [t EXCEPT !.at = "failed"])
                BY <1>5, <3>2, <4>1 DEF Look
            <4> QED
                BY <1>3, <1>4, <3>1, <4>1, <4>2
        <3> QED
            BY <2>1, <3>2
    <2>3. CASE request[i].status # "prepared" /\ request[i].failure # "RATE_LIMIT"
        <3>1. /\ t.at = "look"
              /\ \/ ClosedRecoverable(request[i]) /\ Goes(c, l, Corrected(t))
                 \/ Goes(c, l, [t EXCEPT !.at = "failed"])
            BY <1>5, <2>3 DEF Look
        <3>2. CASE ClosedRecoverable(request[i]) /\ Goes(c, l, Corrected(t))
            <4>1. call[i] \in Invalid
                BY <1>0, <3>2 DEF ClosedRecoverable, CallOK
            <4>2. /\ Corrected(t) \in Thread /\ Justified(IdOf(l, Corrected(t)))
                  /\ Corrected(t).at \in {"look", "fallback"}
                BY <1>0, <4>1, ThreadType, CorrectedJustified
            <4> QED
                BY <1>3, <3>1, <3>2, <4>2
        <3> QED
            BY <1>4, <3>1, <3>2
    <2> QED
        BY <2>1, <2>2, <2>3
<1>6. ASSUME CannotReserve(c, l) PROVE ThreadsOK'
    BY <1>4, <1>6 DEF CannotReserve, NothingRecorded
<1>7. ASSUME Take(c, l) PROVE ThreadsOK'
    <2>1. Decided(l)
        BY <1>0, <1>7 DEF Take, CallOK, Decided
    <2> QED
        BY <1>4, <1>7, <2>1 DEF Take
<1> QED
    BY <1>2, <1>5, <1>6, <1>7

LEMMA ThreadReserves ==
    ASSUME TypeOK, CallsOK, ThreadsOK, NEW c \in Core, NEW l \in Logical, Reserve(c, l)
    PROVE  CallsOK' /\ ThreadsOK'
<1> DEFINE t == thread[c][l]
           u == [t EXCEPT !.at = "wait"]
<1> PICK i \in Id : i = ThisId(c, l)
    BY IdType
<1>0. /\ t \in Thread /\ i \in Id /\ i = IdOf(l, t) /\ Justified(i) /\ CallOK(i)
      /\ request \in [Id -> Record] /\ call \in [Id -> CallValue]
      /\ handler \in [Id -> HandlerValue] /\ owner \in [Id -> 0..MaxCores]
    BY IdType DEF ThisId, IdOf, ThreadsOK, ThreadOK, CallsOK, TypeOK, CallValue, HandlerValue
<1>1. /\ request[i].status = "absent" /\ t.at = "look"
      /\ request'[i].status = "reserved" /\ request'[i].outstanding = TRUE
      /\ request'[i].failure = "none"
      /\ owner'[i] = c /\ call'[i] = "pending" /\ handler'[i] = "sent"
      /\ \A j \in Id \ {i} : /\ request'[j] = request[j] /\ call'[j] = call[j]
                             /\ handler'[j] = handler[j] /\ owner'[j] = owner[j]
    BY <1>0 DEF Reserve, NothingRecorded, Reserved, Absent
<1>2. call[i] = "none"
    BY <1>0, <1>1 DEF CallOK
<1>3. RecordsKept
    BY <1>1, <1>2 DEF RecordsKept, Received
<1>4. CallOK(i)'
    BY <1>1 DEF CallOK
<1>5. CallsOK'
    BY <1>0, <1>1, <1>3, <1>4, OneRecord
<1>6. u \in Thread /\ u.at = "wait" /\ IdOf(l, u) = i /\ Goes(c, l, u)
    BY <1>0, ThreadType DEF IdOf, Thread, Reserve
<1> HIDE DEF u
<1>7. Justified(IdOf(l, u)) /\ u.at # "done"
    BY <1>0, <1>6
<1>8. owner'[IdOf(l, u)] = c /\ request'[IdOf(l, u)].status # "absent"
         /\ request'[IdOf(l, u)].failure = "none"
    BY <1>1, <1>6
<1>9. ThreadsOK'
    BY <1>1, <1>3, <1>6, <1>7, <1>8, ThreadGoes
<1> QED
    BY <1>5, <1>9

LEMMA ThreadCatches ==
    ASSUME TypeOK, CallsOK, ThreadsOK, NEW c \in Core, NEW l \in Logical,
           NEW error \in Errors, Catch(c, l, error)
    PROVE  CallsOK' /\ ThreadsOK'
<1> DEFINE t == thread[c][l]
<1> PICK i \in Id : i = ThisId(c, l)
    BY IdType
<1>0. /\ t \in Thread /\ i \in Id /\ i = IdOf(l, t) /\ ThreadOK(c, l) /\ CallOK(i)
      /\ request \in [Id -> Record] /\ (Sent(i) => Justified(i))
    BY IdType DEF ThisId, IdOf, ThreadsOK, CallsOK, TypeOK
<1>1. /\ t.at = "wait" /\ (handler[i] = error \/ error = "failed")
      /\ request'[i].status = "failed"
      /\ request'[i].outstanding = StillOutstanding(i)
      /\ request'[i].failure = Failure(error)
      /\ UNCHANGED <<call, handler, owner>>
      /\ \A j \in Id \ {i} : request'[j] = request[j]
    BY <1>0 DEF Catch
<1>2. /\ request[i].status # "absent" /\ request[i].failure = "none"
      /\ call[i] # "none" /\ Justified(i)
    BY <1>0, <1>1 DEF ThreadOK, CallOK
<1>3. RecordsKept
    BY <1>1, <1>2 DEF RecordsKept
<1>4. /\ Failure(error) = "RATE_LIMIT" => call[i] = "limited"
      /\ Failure(error) = "INVALID" => call[i] \in Invalid
      /\ Failure(error) \in {"RATE_LIMIT", "INVALID", "REQUEST_FAILED"}
      /\ error = "limited" => call[i] = "limited"
      /\ error = "invalid" => call[i] \in Invalid
    BY <1>0, <1>1 DEF Failure, CallOK
<1>5. CallOK(i)'
    <2>1. handler[i] \notin {"none", "sent"} /\ call[i] # "lost" => call[i] \in Received
        BY <1>0 DEF CallOK, TypeOK, Errors, Received, Invalid
    <2>2. /\ call[i] \in {"pending", "lost"} => request'[i].outstanding
          /\ call[i] \in Received => ~request'[i].outstanding
        BY <1>1 DEF StillOutstanding, Received
    <2> QED
        BY <1>0, <1>1, <1>2, <1>4, <2>1, <2>2 DEF CallOK
<1>6. CallsOK'
    BY <1>0, <1>1, <1>2, <1>3, <1>5, OneRecord DEF Sent
<1>7. ASSUME NEW u \in Thread, Goes(c, l, u), Justified(IdOf(l, u)), u.at \notin {"wait", "done"}
      PROVE  ThreadsOK'
    BY <1>1, <1>3, <1>7, ThreadGoes
<1>8. ASSUME NEW at \in {"failed", "conflict"}, Goes(c, l, [t EXCEPT !.at = at]) PROVE ThreadsOK'
    <2>1. /\ [t EXCEPT !.at = at] \in Thread /\ [t EXCEPT !.at = at].at = at
          /\ IdOf(l, [t EXCEPT !.at = at]) = i
        BY <1>0, ThreadType DEF IdOf, Thread
    <2> QED
        BY <1>2, <1>7, <1>8, <2>1
<1>9. ASSUME error = "limited", Goes(c, l, Retried(t)) PROVE ThreadsOK'
    <2>1. /\ Retried(t) \in Thread /\ Justified(IdOf(l, Retried(t)))
          /\ Retried(t).at \in {"look", "failed"}
        BY <1>0, <1>2, <1>4, <1>9, ThreadType, RetriedJustified
    <2> QED
        BY <1>7, <1>9, <2>1
<1>10. ASSUME error = "invalid", Goes(c, l, Corrected(t)) PROVE ThreadsOK'
    <2>1. /\ Corrected(t) \in Thread /\ Justified(IdOf(l, Corrected(t)))
          /\ Corrected(t).at \in {"look", "fallback"}
        BY <1>0, <1>2, <1>4, <1>10, ThreadType, CorrectedJustified
    <2> QED
        BY <1>7, <1>10, <2>1
<1> QED
    BY <1>6, <1>8, <1>9, <1>10 DEF Catch

LEMMA ThreadFallsBack ==
    ASSUME TypeOK, CallsOK, ThreadsOK, NEW c \in Core, NEW l \in Logical, Fallback(c, l)
    PROVE  CallsOK' /\ ThreadsOK'
<1> DEFINE t == thread[c][l]
           u(at) == [t EXCEPT !.at = at]
<1>0. /\ t \in Thread /\ Justified(IdOf(l, t)) /\ t.at = "fallback"
      /\ request \in [Id -> Record] /\ UNCHANGED <<call, handler, owner>>
    BY IdType DEF ThisId, IdOf, ThreadsOK, ThreadOK, TypeOK, Fallback
<1>1. ASSUME NEW at \in {"failed", "conflict", "done"}
      PROVE  u(at) \in Thread /\ u(at).at = at /\ IdOf(l, u(at)) = IdOf(l, t)
    BY <1>0, ThreadType DEF IdOf, Thread
<1>2. ASSUME UNCHANGED request, NEW at \in {"failed", "conflict"}, Goes(c, l, u(at))
      PROVE  CallsOK' /\ ThreadsOK'
    <2>1. RecordsKept /\ CallsOK'
        BY <1>0, <1>2, AllKept
    <2> HIDE DEF u
    <2> QED
        BY <1>0, <1>1, <1>2, <2>1, ThreadGoes
<1>3. ASSUME NEW i \in FallbackTargets(l), Goes(c, l, u("done")),
             request' = [request EXCEPT ![i].status = "prepared", ![i].failure = "FALLBACK"]
      PROVE  CallsOK' /\ ThreadsOK'
    <2>0. /\ i \in Id /\ i.of = l /\ i.correction = 1 /\ CallOK(i) /\ (Sent(i) => Justified(i))
          /\ request[i].status = "failed" /\ ~request[i].outstanding
          /\ request[i].failure = "INVALID"
        BY <1>3 DEF FallbackTargets, ClosedRecoverable, CallsOK
    <2>1. /\ request'[i].status = "prepared" /\ request'[i].failure = "FALLBACK"
          /\ request'[i].outstanding = request[i].outstanding
          /\ \A j \in Id \ {i} : request'[j] = request[j]
        BY <1>0, <1>3, <2>0
    <2>2. RecordsKept
        BY <1>0, <2>0, <2>1 DEF RecordsKept
    <2>3. CallOK(i)'
        BY <1>0, <2>0, <2>1 DEF CallOK, Invalid
    <2>4. CallsOK'
        BY <1>0, <2>0, <2>1, <2>2, <2>3, OneRecord DEF Sent
    <2>5. Decided(l)'
        BY <2>0, <2>1 DEF Decided
    <2>6. \A j \in Id : request[j].failure = "none" => request'[j].failure = "none"
        BY <2>0, <2>1
    <2> HIDE DEF u
    <2>7. ThisId(c, l) \in Id
        BY IdType
    <2> QED
        BY <1>0, <1>1, <1>3, <2>2, <2>4, <2>5, <2>6, <2>7, ThreadGoes
<1> QED
    BY <1>2, <1>3 DEF Fallback

LEMMA ThreadStepKeeps ==
    ASSUME TypeOK, CallsOK, ThreadsOK, NEW c \in Core, NEW l \in Logical, ThreadStep(c, l)
    PROVE  CallsOK' /\ ThreadsOK'
BY ThreadReads, ThreadReserves, ThreadCatches, ThreadFallsBack DEF ThreadStep

-----------------------------------------------------------------------------
(* The turn, and the invariant.                                              *)

LEMMA TurnStepKeeps ==
    ASSUME TypeOK, CallsOK, ThreadsOK, NEW c \in Core, TurnStep(c)
    PROVE  CallsOK' /\ ThreadsOK'
<1>0. /\ UNCHANGED <<request, call, handler, owner>>
      /\ RecordsKept /\ CallsOK'
      /\ pc \in [Core -> PcValue] /\ thread \in [Core -> [Logical -> Thread]]
      /\ Plans \subseteq Logical /\ "judge" \in Logical /\ "judge" \notin Plans
    BY TurnFrame, AllKept DEF TypeOK, PcValue, Logical, Plans
<1>1. ASSUME NEW d \in Core, NEW k \in Logical, thread'[d][k] = thread[d][k]
      PROVE  ThreadOK(d, k)'
    <2>1. ThreadOK(d, k) /\ ThisId(d, k) \in Id
        BY IdType DEF ThreadsOK
    <2> QED
        BY <1>0, <1>1, <2>1, ThreadKept DEF ThreadOK
<1>2. ASSUME NEW d \in Core, NEW k \in Logical, thread'[d][k] \in {Begin, Idle}
      PROVE  ThreadOK(d, k)'
    <2>1. ThisId(d, k)' \in {IdOf(k, Begin), IdOf(k, Idle)} /\ Begin \in Thread /\ Idle \in Thread
        BY <1>2, ReservedTurnAssumption DEF ThisId, IdOf, Begin, Idle, Thread
    <2>2. ThisId(d, k)' \in Id /\ Justified(ThisId(d, k)')
        BY <2>1, IdOfType, BeginJustified
    <2>3. Justified(ThisId(d, k))'
        BY <1>0, <2>2 DEF Justified
    <2>4. thread'[d][k].at \in {"look", "idle"}
        BY <1>2 DEF Begin, Idle
    <2> QED
        BY <2>3, <2>4 DEF ThreadOK
<1>3. ASSUME NEW d \in Core, pc'[d] = pc[d], thread'[d] = thread[d] PROVE CoreOK(d)'
    BY <1>3 DEF ThreadsOK, CoreOK
<1>4. ASSUME NEW d \in Core, pc'[d] \notin {"judge", "commit"} PROVE CoreOK(d)'
    BY <1>4 DEF CoreOK
<1>5. ASSUME UNCHANGED thread,
             \A d \in Core \ {c} : pc'[d] = pc[d],
             CoreOK(c)'
      PROVE  ThreadsOK'
    BY <1>1, <1>3, <1>5 DEF ThreadsOK
<1>6. ASSUME StartTurn(c) PROVE ThreadsOK'
    <2>1. /\ \A d \in Core \ {c} : pc'[d] = pc[d] /\ thread'[d] = thread[d]
          /\ pc'[c] \in {"failed", "plans"}
          /\ \A k \in Logical : thread'[c][k] \in {Begin, Idle, thread[c][k]}
        BY <1>0, <1>6 DEF StartTurn
    <2> QED
        BY <1>1, <1>2, <1>3, <1>4, <2>1 DEF ThreadsOK
<1>7. ASSUME PlansSettle(c) PROVE ThreadsOK'
    <2>1. CASE thread[c]["a"].at = "done" /\ thread[c]["b"].at = "done"
        <3>1. /\ \A d \in Core \ {c} : pc'[d] = pc[d] /\ thread'[d] = thread[d]
              /\ pc'[c] = "judge" /\ thread'[c]["judge"] = Begin
              /\ \A k \in Logical \ {"judge"} : thread'[c][k] = thread[c][k]
            BY <1>0, <1>7, <2>1 DEF PlansSettle
        <3>2. CoreOK(c)'
            BY <1>0, <2>1, <3>1 DEF CoreOK, Plans
        <3> QED
            BY <1>1, <1>2, <1>3, <3>1, <3>2 DEF ThreadsOK
    <2>2. CASE ~(thread[c]["a"].at = "done" /\ thread[c]["b"].at = "done")
        <3>1. /\ UNCHANGED thread /\ pc'[c] \in {"left", "failed"}
              /\ \A d \in Core \ {c} : pc'[d] = pc[d]
            BY <1>0, <1>7, <2>2 DEF PlansSettle, Ends
        <3> QED
            BY <1>4, <1>5, <3>1
    <2> QED
        BY <2>1, <2>2
<1>8. ASSUME JudgeSettles(c) PROVE ThreadsOK'
    <2>1. /\ UNCHANGED thread /\ pc[c] = "judge"
          /\ \A d \in Core \ {c} : pc'[d] = pc[d]
          /\ \/ pc'[c] = "commit" /\ thread[c]["judge"].at = "done"
             \/ pc'[c] \in {"left", "failed"}
        BY <1>0, <1>8 DEF JudgeSettles, Ends
    <2>2. CoreOK(c)'
        BY <2>1 DEF ThreadsOK, CoreOK
    <2> QED
        BY <1>5, <2>1, <2>2
<1>9. ASSUME Commit(c) \/ CannotCommit(c) \/ Overtaken(c) \/ Stop(c) PROVE ThreadsOK'
    <2>1. /\ UNCHANGED thread /\ \A d \in Core \ {c} : pc'[d] = pc[d]
          /\ pc'[c] \in {"done", "failed", "left", "stopped"}
        BY <1>0, <1>9 DEF Commit, CannotCommit, Overtaken, Stop
    <2> QED
        BY <1>4, <1>5, <2>1
<1> QED
    BY <1>0, <1>6, <1>7, <1>8, <1>9 DEF TurnStep

LEMMA DisturbanceKeeps ==
    ASSUME TypeOK, CallsOK, ThreadsOK, Disturbance PROVE CallsOK' /\ ThreadsOK'
<1>1. /\ UNCHANGED <<request, call, handler, owner, thread>>
      /\ \A c \in Core : pc'[c] \in {pc[c], "crashed"}
    BY DEF Disturbance, Lapse, Crash, DeadlinePasses, row, memory, TypeOK
<1>2. RecordsKept /\ CallsOK'
    BY <1>1, AllKept
<1>3. ASSUME NEW c \in Core, NEW l \in Logical PROVE ThreadOK(c, l)'
    <2>1. ThreadOK(c, l)
        BY DEF ThreadsOK
    <2> QED
        BY <1>1, <1>2, <2>1, ThreadKept DEF ThreadOK
<1>4. ASSUME NEW c \in Core PROVE CoreOK(c)'
    BY <1>1 DEF ThreadsOK, CoreOK
<1> QED
    BY <1>2, <1>3, <1>4 DEF ThreadsOK

LEMMA InvStep == TurnInv /\ [Next]_vars => TurnInv'
<1> SUFFICES ASSUME TurnInv, [Next]_vars PROVE CallsOK' /\ ThreadsOK'
    BY TypeStep DEF TurnInv
<1>1. TypeOK /\ CallsOK /\ ThreadsOK
    BY DEF TurnInv
<1>2. ASSUME NEW i \in Id, CallStep(i) PROVE CallsOK' /\ ThreadsOK'
    <2>1. /\ RecordsKept /\ CallsOK' /\ UNCHANGED memory
          /\ \A j \in Id : request'[j].failure = request[j].failure
        BY <1>1, <1>2, CallStepKeeps
    <2>2. ASSUME NEW c \in Core, NEW l \in Logical PROVE ThreadOK(c, l)'
        <3>1. ThreadOK(c, l) /\ ThisId(c, l) \in Id /\ thread'[c][l] = thread[c][l]
            BY <1>1, <2>1, IdType DEF ThreadsOK, memory
        <3> QED
            BY <1>1, <2>1, <3>1, ThreadKept DEF ThreadOK
    <2>3. ASSUME NEW c \in Core PROVE CoreOK(c)'
        BY <1>1, <2>1 DEF ThreadsOK, CoreOK, memory
    <2> QED
        BY <2>1, <2>2, <2>3 DEF ThreadsOK
<1>3. CASE UNCHANGED vars
    BY <1>1, <1>3
    DEF vars, CallsOK, CallOK, Sent, Justified, ThreadsOK, ThreadOK, ThisId, Decided, CoreOK
<1> QED
    BY <1>1, <1>2, <1>3, Steps, ThreadStepKeeps, TurnStepKeeps, DisturbanceKeeps

LEMMA InvInit == Init => TurnInv
<1> SUFFICES ASSUME Init PROVE CallsOK /\ ThreadsOK
    BY TypeInit DEF TurnInv
<1>1. CallsOK
    BY DEF Init, CallsOK, CallOK, Sent, Absent, Invalid
<1>2. ASSUME NEW c \in Core, NEW l \in Logical PROVE ThreadOK(c, l)
    <2>1. thread[c][l] = Idle /\ Idle.at = "idle" /\ ThisId(c, l) = IdOf(l, Idle)
        BY DEF Init, ThisId, IdOf, Idle
    <2> QED
        BY <2>1, BeginJustified DEF ThreadOK
<1>3. ASSUME NEW c \in Core PROVE CoreOK(c)
    BY DEF Init, CoreOK
<1> QED
    BY <1>1, <1>2, <1>3 DEF ThreadsOK

LEMMA InvAlways == Spec => []TurnInv
BY InvInit, InvStep, PTL DEF Spec

-----------------------------------------------------------------------------
(* The theorems.                                                             *)

\* The record of a call says it may still be running for as long as nobody knows
\* better, and never again once its answer was accounted, whichever of the deadline,
\* the callbacks and the core that took over wrote last.
THEOREM RecordsTrue == Spec => []AccountsStayTrue
<1>1. TurnInv => AccountsStayTrue
    BY DEF TurnInv, CallsOK, CallOK, AccountsStayTrue
<1> QED
    BY <1>1, InvAlways, PTL

\* A request is made again only where the provider said that the one before it was
\* not served, and corrected only over an invalid answer, however many cores played
\* the turn.
THEOREM UnknownNotReplayed == Spec => []NeverAskedAgain
<1>1. ASSUME CallsOK, NEW i \in Id, NEW j \in Id, Sent(i), Sent(j), i.of = j.of
      PROVE  /\ i.correction = j.correction /\ i.attempt < j.attempt => call[i] = "limited"
             /\ i.correction < j.correction => call[i] \in {"limited", "invalid", "garbled"}
    <2>1. Justified(i) /\ Justified(j)
        BY <1>1 DEF CallsOK
    <2>2. ASSUME i.correction < j.correction
          PROVE  call[i] \in {"limited", "invalid", "garbled"}
        <3>1. i.correction = 0 /\ j.correction = 1
            BY <2>2 DEF Id
        <3>2. PICK m \in Id : m.of = j.of /\ m.correction = 0 /\ call[m] \in Invalid
            BY <2>1, <3>1 DEF Justified
        <3>3. Justified(m)
            BY <1>1, <3>2 DEF CallsOK, Sent, Invalid
        <3>4. CASE i.attempt < m.attempt
            BY <1>1, <3>1, <3>2, <3>3, <3>4 DEF Justified
        <3>5. CASE i.attempt = m.attempt
            <4>1. i = m
                BY <1>1, <3>1, <3>2, <3>5 DEF Id
            <4> QED
                BY <3>2, <4>1 DEF Invalid
        <3>6. CASE m.attempt < i.attempt
            BY <1>1, <2>1, <3>1, <3>2, <3>6 DEF Justified, Invalid
        <3>7. i.attempt \in Int /\ m.attempt \in Int
            BY ReservedTurnAssumption DEF Id
        <3> QED
            BY <3>4, <3>5, <3>6, <3>7
    <2> QED
        BY <1>1, <2>1, <2>2 DEF Justified
<1>2. TurnInv => NeverAskedAgain
    BY <1>1 DEF TurnInv, NeverAskedAgain
<1> QED
    BY <1>2, InvAlways, PTL

\* A turn is committed over records that decide its three requests, with no call of it
\* left under way.
THEOREM CommitIsDecided == Spec => CommitRestsOnRecord
<1> DEFINE Rests == turn' # turn => /\ \A l \in Logical : Answered(l)
                                    /\ \A i \in Id : call[i] \notin {"pending", "lost"}
<1>1. ASSUME TurnInv, Next, turn' # turn
      PROVE  /\ \A l \in Logical : Answered(l)
             /\ \A i \in Id : call[i] \notin {"pending", "lost"}
    <2>0. TypeOK /\ CallsOK /\ ThreadsOK
        BY <1>1 DEF TurnInv
    <2>1. PICK c \in Core : Commit(c)
        <3>1. ASSUME NEW d \in Core, NEW l \in Logical, ThreadStep(d, l) PROVE UNCHANGED turn
            BY <3>1 DEF ThreadStep, Look, Reserve, CannotReserve, Take, Catch, Fallback, row
        <3>2. ASSUME NEW i \in Id, CallStep(i) PROVE UNCHANGED turn
            BY <3>2
            DEF CallStep, Answer, Account, KeepRejectedText, Broken, Prepare, CannotPrepare,
                HandlerOf, row
        <3>3. Disturbance => UNCHANGED turn
            BY DEF Disturbance, Lapse, Crash, DeadlinePasses, row
        <3>4. \E d \in Core : TurnStep(d)
            BY <1>1, <3>1, <3>2, <3>3, Steps
        <3> QED
            BY <1>1, <3>4
            DEF TurnStep, StartTurn, PlansSettle, JudgeSettles, CannotCommit, Overtaken, Stop, row
    <2>2. pc[c] = "commit" /\ \A i \in Id : ~Unfinished(request[i])
        BY <2>1 DEF Commit, CommitRefused
    <2>3. \A i \in Id : call[i] \notin {"pending", "lost"}
        BY <2>0, <2>2 DEF CallsOK, CallOK, Unfinished
    <2>4. ASSUME NEW l \in Logical PROVE Answered(l)
        <3>1. Decided(l)
            BY <2>0, <2>2 DEF ThreadsOK, CoreOK, ThreadOK, Logical
        <3>2. PICK i \in Id : /\ i.of = l
                              /\ \/ call[i] = "valid"
                                 \/ request[i].status = "prepared" /\ request[i].failure = "FALLBACK"
            BY <3>1 DEF Decided
        <3>3. CallOK(i) /\ (Sent(i) => Justified(i)) /\ ~Unfinished(request[i])
            BY <2>0, <2>2 DEF CallsOK
        <3>4. CASE call[i] = "valid"
            <4>1. request[i].status = "prepared" /\ request[i].failure # "FALLBACK"
                BY <3>3, <3>4 DEF CallOK, Invalid, Unfinished, ClosedRecoverable
            <4> QED
                BY <3>2, <3>4, <4>1 DEF Answered
        <3>5. CASE request[i].status = "prepared" /\ request[i].failure = "FALLBACK"
            <4>1. call[i] \in Invalid /\ i.correction = 1 /\ Justified(i)
                BY <3>3, <3>5 DEF CallOK, Sent, Invalid
            <4>2. \E j \in Id : j.of = l /\ j.correction = 0 /\ call[j] \in Invalid
                BY <3>2, <4>1 DEF Justified
            <4> QED
                BY <3>2, <3>5, <4>1, <4>2 DEF Answered, Invalid
        <3> QED
            BY <3>2, <3>4, <3>5
    <2> QED
        BY <2>3, <2>4
<1>2. TurnInv /\ [Next]_vars => [Rests]_vars
    BY <1>1
<1> QED
    BY <1>2, InvAlways, PTL DEF Spec, CommitRestsOnRecord
=============================================================================
