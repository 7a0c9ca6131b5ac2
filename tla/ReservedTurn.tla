---------------------------- MODULE ReservedTurn ----------------------------
(***************************************************************************)
(* One turn of a schema 7 battle: what BattleAdvance takes for one step.   *)
(* Both characters plan at once, a judge resolves the two plans, and the   *)
(* world is committed (services/reserved-turn-execution.ts and             *)
(* services/reserved-turn-battle.ts).  A model call is recorded in the     *)
(* sidecar row before it is sent, and its record says for ever whether it  *)
(* may still be running.  A process may lose its lease while it waits, or  *)
(* die; another one then plays the same turn over the same records.        *)
(*                                                                         *)
(* A core is one run of advanceReservedTurn, a thread the chain of calls   *)
(* for one logical request of it.  The policy is the current one (v8):     *)
(* planners and judge are corrected once, the narration is independent.    *)
(* Writes of the row are transactions under its lock: one action each.     *)
(***************************************************************************)
EXTENDS Integers, FiniteSets

CONSTANTS
  MaxCores,      \* runs of the turn, each after the one before lost its lease
  MaxAttempts,   \* attempts of a request after rate limits; 3 in the code
  MaxRequests,   \* policy.maxPhysicalAttempts
  MaxFaults      \* bad answers, deadlines, lost leases and crashes of a behaviour

ASSUME ReservedTurnAssumption ==
  /\ MaxCores \in Nat \ {0}
  /\ MaxAttempts \in Nat \ {0}
  /\ MaxRequests \in Nat
  /\ MaxFaults \in Nat

Core == 1..MaxCores
Plans == {"a", "b"}
Logical == Plans \cup {"judge"}

\* battle:turn:role:side[:correction:1]:attempt
Id == [of : Logical, correction : 0..1, attempt : 0..(MaxAttempts - 1)]

\* A deadline is counted from the first core that reserved the request; the
\* battle has one of its own.
BattleClock == <<0, "battle">>
Clocks == (Core \X Logical) \cup {BattleClock}

VARIABLES
  status,    \* of the battle and its runtime; whether a commit ends it is left out
  turn,      \* of the runtime: 1 when the turn is committed
  request,   \* the records of the runtime
  holder,    \* the core whose lease is live, or 0
  call,      \* what became of the model call of a record
  handler,   \* where the callbacks of that call are, in the process of its owner
  owner,     \* the core that reserved the record, or 0
  pc,        \* where a core is
  thread,    \* the chain of calls of a core for each logical request
  late,      \* the deadlines that have passed
  faults

vars == <<status, turn, request, holder, call, handler, owner, pc, thread, late, faults>>
memory == <<pc, thread>>
row == <<status, turn, request>>

Record == [status : {"absent", "reserved", "prepared", "failed"},
           outstanding : BOOLEAN, raw : BOOLEAN,
           failure : {"none", "RATE_LIMIT", "INVALID", "REQUEST_FAILED", "FALLBACK"}]
Absent == [status |-> "absent", outstanding |-> FALSE, raw |-> FALSE, failure |-> "none"]
Reserved == [Absent EXCEPT !.status = "reserved", !.outstanding = TRUE]

\* The answers after which nothing of the call can still run.
Received == {"valid", "invalid", "garbled", "rejected", "limited"}

Thread == [at : {"idle", "look", "wait", "fallback",
                 "done", "failed", "conflict"},
           correction : 0..1, attempt : 0..(MaxAttempts - 1)]
Errors == {"invalid", "limited", "failed", "conflict"}
Idle == [at |-> "idle", correction |-> 0, attempt |-> 0]
Begin == [Idle EXCEPT !.at = "look"]
Settled == {"done", "failed", "conflict"}

Init ==
  /\ status = "active"
  /\ turn = 0
  /\ request = [i \in Id |-> Absent]
  /\ holder = 0
  /\ call = [i \in Id |-> "none"]
  /\ handler = [i \in Id |-> "none"]
  /\ owner = [i \in Id |-> 0]
  /\ pc = [c \in Core |-> "unborn"]
  /\ thread = [c \in Core |-> [l \in Logical |-> Idle]]
  /\ late = {}
  /\ faults = 0

Running(c) == pc[c] \in {"plans", "judge", "commit", "failed"}
Alive(c) == pc[c] \notin {"unborn", "crashed"}

ThisId(c, l) == [of |-> l, correction |-> thread[c][l].correction,
                 attempt |-> thread[c][l].attempt]
First(l) == [of |-> l, correction |-> 0, attempt |-> 0]

\* persistedReservedStart: a later core counts from the recorded start.
Clock(c, l) == IF owner[First(l)] \in 1..c THEN <<owner[First(l)], l>> ELSE <<c, l>>
Late(c, l) == late \cap {BattleClock, Clock(c, l)} # {}

BoundaryChanged == turn # 0 \/ status # "active"

\* Faults are counted, and of interest only while the turn is played.
Fault == ~BoundaryChanged /\ faults < MaxFaults /\ faults' = faults + 1

\* Mutant: a failed request counts as invalid without its failure being so.
RecoverableByText(r) == r.status = "failed" /\ ~r.outstanding /\ r.raw

\* isClosedRecoverableReservedRequest
ClosedRecoverable(r) ==
  r.status = "failed" /\ ~r.outstanding /\ r.raw /\ r.failure = "INVALID"

\* writeReservedRuntime: the lease must be live and the writer's.  Its token is
\* left to BattleAdvance: with two cores it never falls below the recorded one.
FenceHolds(c) == holder = c

Goes(c, l, t) ==
  /\ thread' = [thread EXCEPT ![c][l] = t]
  /\ UNCHANGED pc

\* After an invalid answer: the one correction, then the fallback.
Corrected(t) == IF t.correction = 0
                  THEN [Begin EXCEPT !.correction = 1]
                  ELSE [t EXCEPT !.at = "fallback"]

\* Mutant: one attempt too many.
RetriedOnceMore(t) == IF t.attempt < MaxAttempts
                        THEN [t EXCEPT !.at = "look", !.attempt = t.attempt + 1]
                        ELSE [t EXCEPT !.at = "failed"]

\* After a refused answer: the next attempt, or no more of them.
Retried(t) == IF t.attempt + 1 < MaxAttempts
                THEN [t EXCEPT !.at = "look", !.attempt = t.attempt + 1]
                ELSE [t EXCEPT !.at = "failed"]

-----------------------------------------------------------------------------
(* A logical request *)

\* What is recorded under the id of the attempt decides whether to send: a
\* prepared answer is used, an invalid one judged again, a refused one passed
\* over, and anything else ends the turn.
Look(c, l) ==
  LET t == thread[c][l]
      r == request[ThisId(c, l)]
  IN /\ Running(c)
     /\ t.at = "look"
     /\ r.status # "absent"
     /\ Goes(c, l, CASE r.status = "prepared" /\ ~r.outstanding -> [t EXCEPT !.at = "done"]
                     [] r.status = "failed" /\ r.failure = "RATE_LIMIT" /\ ~r.outstanding ->
                          Retried(t)
                     [] ClosedRecoverable(r) -> Corrected(t)
                     [] OTHER -> [t EXCEPT !.at = "failed"])
     /\ UNCHANGED <<row, holder, call, handler, owner, late, faults>>

\* No record yet: one is reserved.  The code reads in one transaction and
\* reserves in another; only a core that lost the lease could be overtaken
\* between them, and it is refused by the fence, or by the id that exists.
NothingRecorded(c, l) ==
  /\ Running(c)
  /\ thread[c][l].at = "look"
  /\ request[ThisId(c, l)].status = "absent"

\* The reducer of the reservation throws, before the row is written.
ReservationRefused(c, l) ==
  \/ BoundaryChanged
  \/ Late(c, l)
  \/ Cardinality({i \in Id : request[i].status # "absent"}) >= MaxRequests

CannotReserve(c, l) ==
  /\ NothingRecorded(c, l)
  /\ \/ ReservationRefused(c, l) /\ Goes(c, l, [thread[c][l] EXCEPT !.at = "failed"])
     \/ /\ ~ReservationRefused(c, l)
        /\ ~FenceHolds(c)
        /\ Goes(c, l, [thread[c][l] EXCEPT !.at = "conflict"])
  /\ UNCHANGED <<row, holder, call, handler, owner, late, faults>>

\* The record is written, then the call goes out: a crash in between looks
\* the same as one whose call is under way.
Reserve(c, l) ==
  LET i == ThisId(c, l) IN
  /\ NothingRecorded(c, l)
  /\ ~ReservationRefused(c, l)
  /\ FenceHolds(c)
  /\ request' = [request EXCEPT ![i] = Reserved]
  /\ owner' = [owner EXCEPT ![i] = c]
  /\ call' = [call EXCEPT ![i] = "pending"]
  /\ handler' = [handler EXCEPT ![i] = "sent"]
  /\ Goes(c, l, [thread[c][l] EXCEPT !.at = "wait"])
  /\ UNCHANGED <<status, turn, holder, late, faults>>

\* The call ends for the process that made it.  "lost" is every error that
\* does not show that the provider is done with it.
Answer(i) ==
  /\ call[i] = "pending"
  /\ Alive(owner[i])
  /\ \/ call' = [call EXCEPT ![i] = "valid"] /\ UNCHANGED faults
     \/ /\ Fault
        /\ \E bad \in (Received \ {"valid"}) \cup {"lost"} : call' = [call EXCEPT ![i] = bad]
  /\ UNCHANGED <<row, holder, handler, owner, memory, late>>

\* The callbacks of a call go on after its thread has stopped waiting.
HandlerOf(i, from, to) ==
  /\ handler[i] = from
  /\ Alive(owner[i])
  /\ handler' = [handler EXCEPT ![i] = to]
  /\ UNCHANGED <<status, turn, holder, call, owner, memory, late, faults>>

\* The received answer is accounted, whoever holds the lease; an invalid one
\* is then rejected by the validator.
Account(i) ==
  /\ call[i] \in Received
  /\ request' = [request EXCEPT ![i].outstanding = FALSE,
                                ![i].raw = @ \/ call[i] \in {"valid", "invalid"}]
  /\ HandlerOf(i, "sent", CASE call[i] \in {"valid", "garbled"} -> "accounted"
                            [] call[i] = "rejected" -> "failed"
                            [] OTHER -> call[i])

\* No JSON: the text is kept in a second write.
KeepRejectedText(i) ==
  /\ call[i] = "garbled"
  /\ request' = [request EXCEPT ![i].raw = TRUE]
  /\ HandlerOf(i, "accounted", "invalid")

\* Nothing is known of the call: its record stays outstanding.
Broken(i) ==
  /\ call[i] = "lost"
  /\ HandlerOf(i, "sent", "failed")
  /\ UNCHANGED request

LateAnswer(i) == BoundaryChanged \/ Late(owner[i], i.of)

Prepare(i) ==
  /\ call[i] = "valid"
  /\ ~LateAnswer(i)
  /\ FenceHolds(owner[i])
  /\ request' = [request EXCEPT ![i].status = "prepared"]
  /\ HandlerOf(i, "accounted", "prepared")

CannotPrepare(i) ==
  /\ call[i] = "valid"
  /\ \/ LateAnswer(i) /\ HandlerOf(i, "accounted", "failed")
     \/ ~LateAnswer(i) /\ ~FenceHolds(owner[i]) /\ HandlerOf(i, "accounted", "conflict")
  /\ UNCHANGED request

\* Promise.race: the thread takes what its callbacks settle to first.
Take(c, l) ==
  /\ Running(c)
  /\ thread[c][l].at = "wait"
  /\ handler[ThisId(c, l)] = "prepared"
  /\ Goes(c, l, [thread[c][l] EXCEPT !.at = "done"])
  /\ UNCHANGED <<row, holder, call, handler, owner, late, faults>>

\* Mutant: an error closes the record whatever became of the call.
ClosedByError(i) == FALSE

\* A record is still outstanding unless its answer has come.
StillOutstanding(i) == call[i] \notin Received

Failure(error) == CASE error = "limited" -> "RATE_LIMIT"
                    [] error = "invalid" -> "INVALID"
                    [] OTHER -> "REQUEST_FAILED"

\* The error of the callbacks, or the deadline's, is recorded by whoever has
\* waited, with or without the lease.  A refused call is tried again unless the
\* pause the provider asks for passes the battle's deadline.
Catch(c, l, error) ==
  LET i == ThisId(c, l)
      t == thread[c][l]
  IN /\ Running(c)
     /\ t.at = "wait"
     /\ handler[i] = error \/ (error = "failed" /\ Late(c, l))
     /\ request' = [request EXCEPT ![i].status = "failed",
                                   ![i].outstanding = StillOutstanding(i),
                                   ![i].failure = Failure(error)]
     /\ \/ error = "limited" /\ BattleClock \notin late /\ Goes(c, l, Retried(t))
        \/ error \in {"limited", "failed"} /\ Goes(c, l, [t EXCEPT !.at = "failed"])
        \/ error = "conflict" /\ Goes(c, l, [t EXCEPT !.at = "conflict"])
        \/ error = "invalid" /\ Goes(c, l, Corrected(t))
     /\ UNCHANGED <<status, turn, holder, call, handler, owner, late, faults>>

\* preparePlanFailure and its like for the judge: two invalid answers are
\* replaced by an empty plan or a failed trace, under the id of the correction.
FallbackTargets(l) ==
  {i \in Id : i.of = l /\ i.correction = 1 /\ ClosedRecoverable(request[i])}

Fallback(c, l) ==
  /\ Running(c)
  /\ thread[c][l].at = "fallback"
  /\ LET refused == BoundaryChanged \/ Late(c, l) \/ FallbackTargets(l) = {}
     IN \/ refused /\ Goes(c, l, [thread[c][l] EXCEPT !.at = "failed"]) /\ UNCHANGED request
        \/ /\ ~refused /\ ~FenceHolds(c)
           /\ Goes(c, l, [thread[c][l] EXCEPT !.at = "conflict"])
           /\ UNCHANGED request
        \/ /\ ~refused /\ FenceHolds(c)
           /\ \E i \in FallbackTargets(l) :
                /\ \A j \in FallbackTargets(l) : j.attempt <= i.attempt
                /\ request' = [request EXCEPT ![i].status = "prepared",
                                              ![i].failure = "FALLBACK"]
           /\ Goes(c, l, [thread[c][l] EXCEPT !.at = "done"])
  /\ UNCHANGED <<status, turn, holder, call, handler, owner, late, faults>>

-----------------------------------------------------------------------------
(* The turn *)

\* A core starts on an expired or absent lease, on a battle still active at
\* the turn; an expired battle is stopped at once.
StartTurn(c) ==
  /\ pc[c] = "unborn"
  /\ \A d \in 1..(c - 1) : pc[d] # "unborn"
  /\ holder = 0
  /\ ~BoundaryChanged
  /\ holder' = c
  /\ IF BattleClock \in late
       THEN pc' = [pc EXCEPT ![c] = "failed"] /\ UNCHANGED thread
       ELSE /\ pc' = [pc EXCEPT ![c] = "plans"]
            /\ thread' = [thread EXCEPT ![c] = [l \in Logical |->
                                                  IF l \in Plans THEN Begin ELSE Idle]]
  /\ UNCHANGED <<row, call, handler, owner, late, faults>>

\* Mutant: every error leaves the turn to somebody else.
EndsByLeaving(c, at) == pc' = [pc EXCEPT ![c] = "left"]

\* An error in the name of the lease leaves the turn to its new holder.
Ends(c, at) == pc' = [pc EXCEPT ![c] = IF at = "conflict" THEN "left" ELSE "failed"]

\* Promise.allSettled: both plans are waited for, the first one's error wins.
PlansSettle(c) ==
  LET a == thread[c]["a"].at
      b == thread[c]["b"].at
  IN /\ pc[c] = "plans"
     /\ a \in Settled /\ b \in Settled
     /\ IF a = "done" /\ b = "done"
          THEN /\ pc' = [pc EXCEPT ![c] = "judge"]
               /\ thread' = [thread EXCEPT ![c]["judge"] = Begin]
          ELSE Ends(c, IF a # "done" THEN a ELSE b) /\ UNCHANGED thread
     /\ UNCHANGED <<row, holder, call, handler, owner, late, faults>>

JudgeSettles(c) ==
  LET at == thread[c]["judge"].at
  IN /\ pc[c] = "judge"
     /\ at \in Settled
     /\ IF at = "done" THEN pc' = [pc EXCEPT ![c] = "commit"] ELSE Ends(c, at)
     /\ UNCHANGED <<row, holder, call, handler, owner, thread, late, faults>>

\* A request of the turn that the commit may not leave behind.
Unfinished(r) ==
  \/ r.status \notin {"absent", "prepared"} /\ r.failure # "RATE_LIMIT" /\ ~ClosedRecoverable(r)
  \/ r.outstanding

\* Mutant: the records are not looked at again.
CommitLate == status # "active" \/ BattleClock \in late

CommitRefused ==
  status # "active" \/ BattleClock \in late \/ \E i \in Id : Unfinished(request[i])

\* The lease is released when the core is through.
Releases(c) == holder' = IF holder = c THEN 0 ELSE holder

Commit(c) ==
  /\ pc[c] = "commit"
  /\ turn = 0
  /\ ~CommitRefused
  /\ FenceHolds(c)
  /\ turn' = 1
  /\ pc' = [pc EXCEPT ![c] = "done"]
  /\ Releases(c)
  /\ UNCHANGED <<status, request, call, handler, owner, thread, late, faults>>

CannotCommit(c) ==
  /\ pc[c] = "commit"
  /\ turn = 0 /\ CommitRefused
  /\ pc' = [pc EXCEPT ![c] = "failed"]
  /\ UNCHANGED <<row, holder, call, handler, owner, thread, late, faults>>

\* The turn was committed, or the lease lost, before the last write.
Overtaken(c) ==
  /\ \/ pc[c] = "failed" /\ (turn # 0 \/ ~FenceHolds(c))
     \/ pc[c] = "commit" /\ (turn # 0 \/ (~CommitRefused /\ ~FenceHolds(c)))
  /\ pc' = [pc EXCEPT ![c] = "left"]
  /\ Releases(c)
  /\ UNCHANGED <<row, call, handler, owner, thread, late, faults>>

\* Every other error ends the battle as incomplete.
Stop(c) ==
  /\ pc[c] = "failed"
  /\ turn = 0
  /\ FenceHolds(c)
  /\ status' = "incomplete"
  /\ pc' = [pc EXCEPT ![c] = "stopped"]
  /\ Releases(c)
  /\ UNCHANGED <<turn, request, call, handler, owner, thread, late, faults>>

-----------------------------------------------------------------------------
(* Time and failures *)

DeadlinePasses(clock) ==
  /\ clock \notin late
  /\ \/ clock = BattleClock
     \/ /\ clock # BattleClock
        /\ thread[clock[1]][clock[2]].at # "idle"
        /\ Clock(clock[1], clock[2]) = clock
  /\ Fault
  /\ late' = late \cup {clock}
  /\ UNCHANGED <<row, holder, call, handler, owner, memory>>

\* The lease expires under a core that goes on; the last core is spared.
Lapse(c) ==
  /\ holder = c /\ c < MaxCores
  /\ Fault
  /\ holder' = 0
  /\ UNCHANGED <<row, call, handler, owner, memory, late>>

\* The process dies with its callbacks, and its lease expires.
Crash(c) ==
  /\ Running(c) /\ c < MaxCores
  /\ Fault
  /\ pc' = [pc EXCEPT ![c] = "crashed"]
  /\ Releases(c)
  /\ UNCHANGED <<row, call, handler, owner, thread, late>>

ThreadStep(c, l) ==
  \/ Look(c, l) \/ Reserve(c, l) \/ CannotReserve(c, l)
  \/ Take(c, l) \/ (\E error \in Errors : Catch(c, l, error)) \/ Fallback(c, l)

CallStep(i) ==
  \/ Answer(i)
  \/ Account(i) \/ KeepRejectedText(i) \/ Broken(i) \/ Prepare(i) \/ CannotPrepare(i)

CoreStep(c) ==
  \/ StartTurn(c) \/ PlansSettle(c) \/ JudgeSettles(c)
  \/ Commit(c) \/ CannotCommit(c) \/ Overtaken(c) \/ Stop(c)
  \/ \E l \in Logical : ThreadStep(c, l)
  \/ \E i \in Id : owner[i] = c /\ CallStep(i)

Progress == \E c \in Core : CoreStep(c)

Next ==
  \/ Progress
  \/ \E c \in Core : Lapse(c) \/ Crash(c)
  \/ \E clock \in Clocks : DeadlinePasses(clock)

Spec == Init /\ [][Next]_vars

\* A live process runs what is due, its calls are bounded by the transport's
\* timeout, and the owner of the battle asks again for a turn not yet played.
\* No step leads back, so that fairness of one process or of each is the same.
Fairness == WF_vars(Progress)

FairSpec == Spec /\ Fairness

-----------------------------------------------------------------------------
(* Properties *)

\* Every variable has its type.
TypeOK ==
  /\ status \in {"active", "incomplete"}
  /\ turn \in 0..1
  /\ request \in [Id -> Record]
  /\ holder \in 0..MaxCores
  /\ call \in [Id -> {"none", "pending", "lost"} \cup Received]
  /\ handler \in [Id -> {"none", "sent", "accounted", "prepared"} \cup Errors]
  /\ owner \in [Id -> 0..MaxCores]
  /\ pc \in [Core -> {"unborn", "plans", "judge", "commit", "failed",
                      "done", "stopped", "left", "crashed"}]
  /\ thread \in [Core -> [Logical -> Thread]]
  /\ late \subseteq Clocks
  /\ faults \in 0..MaxFaults

Sent(i) == call[i] # "none"

\* A call whose fate is unknown is never made again, by this core or by one
\* that takes over: a further attempt follows only an explicit refusal, and a
\* correction only a received invalid answer ("no unknown-send replay").
NeverAskedAgain ==
  \A i, j \in Id : Sent(i) /\ Sent(j) /\ i.of = j.of =>
    /\ i.correction = j.correction /\ i.attempt < j.attempt => call[i] = "limited"
    /\ i.correction < j.correction => call[i] \in {"limited", "invalid", "garbled"}

\* The records are true to the provider: a call that may still run is
\* outstanding, and one whose answer was accounted never is again, whichever
\* of deadline, callback and takeover wrote last.
AccountsStayTrue ==
  \A i \in Id :
    /\ call[i] \in {"pending", "lost"} => request[i].outstanding
    /\ handler[i] \notin {"none", "sent"} /\ call[i] # "lost" => ~request[i].outstanding

\* What the turn is decided by: a valid answer, or two invalid ones.
Answered(l) ==
  \E i \in Id :
    /\ i.of = l /\ request[i].status = "prepared"
    /\ IF request[i].failure = "FALLBACK"
         THEN \A n \in 0..1 : \E j \in Id :
                j.of = l /\ j.correction = n /\ call[j] \in {"invalid", "garbled"}
         ELSE call[i] = "valid"

\* A turn is committed only over a record that decides each of the three
\* requests and has no call under way, although a core that lost the lease
\* may still write its errors into the records of its successor.
CommitRestsOnRecord ==
  [][turn' # turn => /\ \A l \in Logical : Answered(l)
                     /\ \A i \in Id : call[i] \notin {"pending", "lost"}]_vars

\* The turn is committed or the battle declared incomplete.
TurnEnds == <>(turn = 1 \/ status = "incomplete")
=============================================================================
